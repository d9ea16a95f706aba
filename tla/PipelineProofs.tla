--------------------------- MODULE PipelineProofs ---------------------------
(***************************************************************************)
(* Proofs about Pipeline, for every size of packets, buffers, blocks and   *)
(* chunks and every length of the stream.                                  *)
(*                                                                         *)
(* Beside the types there are four invariants.  Numbered: the numbers in   *)
(* outbuf and in output_thread's block follow on those the device has      *)
(* taken.  Ordered: each of the three places a source byte can be in is in *)
(* order, and so are they among each other.  Covered: what mux_thread has  *)
(* read is in the first two of them if it passes and was read after the    *)
(* first PCR.  Phased: what mux_thread will read starts at the beginning   *)
(* of a packet, and outbuf ends with the end of one.                       *)
(***************************************************************************)
EXTENDS Pipeline, Arithmetic, SequenceTheorems

-----------------------------------------------------------------------------
(* Sequences of bytes.                                                     *)

\* The source bytes of s rise, null bytes being negative.
Rising(s) ==
  \A i, j \in 1..Len(s) : i < j /\ s[i] >= 0 /\ s[j] >= 0 => s[i] < s[j]

\* The source bytes of s are below those of t.
Before(s, t) ==
  \A i \in 1..Len(s), j \in 1..Len(t) : s[i] >= 0 /\ t[j] >= 0 => s[i] < t[j]

In(b, s) == \E i \in 1..Len(s) : s[i] = b

\* What a part of a sequence holds.
LEMMA Part ==
  ASSUME NEW S, NEW s \in Seq(S), NEW m \in Nat \ {0}, NEW n \in 0..Len(s)
  PROVE  /\ SubSeq(s, m, n) \in Seq(S)
         /\ Len(SubSeq(s, m, n)) = IF m <= n THEN n - m + 1 ELSE 0
         /\ \A i \in 1..Len(SubSeq(s, m, n)) :
              m + i - 1 \in 1..Len(s) /\ SubSeq(s, m, n)[i] = s[m + i - 1]
<1>1. Len(s) \in Nat /\ \A i \in m..n : s[i] \in S
  BY LenProperties
<1>2. /\ SubSeq(s, m, n) \in Seq(S)
      /\ Len(SubSeq(s, m, n)) = IF m <= n THEN n - m + 1 ELSE 0
      /\ \A i \in 1..n - m + 1 : SubSeq(s, m, n)[i] = s[m + i - 1]
  BY <1>1, SubSeqProperties
<1> QED
  BY <1>1, <1>2

\* The two parts of a sequence.
LEMMA Split ==
  ASSUME NEW S, NEW s \in Seq(S), NEW n \in 0..Len(s)
  PROVE  /\ SubSeq(s, 1, n) \in Seq(S) /\ Len(SubSeq(s, 1, n)) = n
         /\ \A i \in 1..n : i \in 1..Len(s) /\ SubSeq(s, 1, n)[i] = s[i]
         /\ SubSeq(s, n + 1, Len(s)) \in Seq(S)
         /\ Len(SubSeq(s, n + 1, Len(s))) = Len(s) - n
         /\ \A i \in 1..Len(s) - n :
              n + i \in 1..Len(s) /\ SubSeq(s, n + 1, Len(s))[i] = s[n + i]
<1>1. Len(s) \in Nat /\ \A i \in 1..Len(s) : s[i] \in S
  BY LenProperties
<1>2. \A i \in 1..n : s[i] \in S
  BY <1>1
<1>3. \A i \in n + 1..Len(s) : s[i] \in S
  BY <1>1
<1>4. /\ SubSeq(s, 1, n) \in Seq(S) /\ Len(SubSeq(s, 1, n)) = n
      /\ \A i \in 1..n : SubSeq(s, 1, n)[i] = s[i]
  <2>1. /\ SubSeq(s, 1, n) \in Seq(S)
        /\ Len(SubSeq(s, 1, n)) = IF 1 <= n THEN n - 1 + 1 ELSE 0
        /\ \A i \in 1..n - 1 + 1 : SubSeq(s, 1, n)[i] = s[1 + i - 1]
    BY <1>1, <1>2, SubSeqProperties
  <2> QED BY <1>1, <2>1
<1>5. /\ SubSeq(s, n + 1, Len(s)) \in Seq(S)
      /\ Len(SubSeq(s, n + 1, Len(s))) = Len(s) - n
      /\ \A i \in 1..Len(s) - n : SubSeq(s, n + 1, Len(s))[i] = s[n + i]
  <2> DEFINE m == n + 1
             k == Len(s)
  <2>1. m \in Int /\ k \in Int /\ \A i \in m..k : s[i] \in S
    BY <1>1, <1>3
  <2>2. /\ SubSeq(s, m, k) \in Seq(S)
        /\ Len(SubSeq(s, m, k)) = IF m <= k THEN k - m + 1 ELSE 0
        /\ \A i \in 1..k - m + 1 : SubSeq(s, m, k)[i] = s[m + i - 1]
    <3> HIDE DEF m, k
    <3> QED BY <2>1, SubSeqProperties
  <2> QED BY <1>1, <2>2, SMTT(30)
<1> QED
  BY <1>1, <1>4, <1>5

\* What two sequences one after the other hold.
LEMMA Joined ==
  ASSUME NEW S, NEW s \in Seq(S), NEW t \in Seq(S)
  PROVE  /\ s \o t \in Seq(S)
         /\ Len(s) \in Nat /\ Len(t) \in Nat /\ Len(s \o t) = Len(s) + Len(t)
         /\ \A i \in 1..Len(s) : i \in 1..Len(s \o t) /\ (s \o t)[i] = s[i]
         /\ \A i \in 1..Len(t) :
              Len(s) + i \in 1..Len(s \o t) /\ (s \o t)[Len(s) + i] = t[i]
         /\ \A i \in 1..Len(s \o t) :
              \/ i \in 1..Len(s)
              \/ i - Len(s) \in 1..Len(t) /\ (s \o t)[i] = t[i - Len(s)]
<1>1. /\ s \o t \in Seq(S)
      /\ Len(s) \in Nat /\ Len(t) \in Nat /\ Len(s \o t) = Len(s) + Len(t)
      /\ \A i \in 1..Len(s) + Len(t) :
           (s \o t)[i] = IF i <= Len(s) THEN s[i] ELSE t[i - Len(s)]
  BY ConcatProperties, LenProperties
<1> QED
  BY <1>1

\* Two sequences one after the other rise if each does and in this order.
LEMMA RisingConcat ==
  ASSUME NEW s \in Seq(Int), NEW t \in Seq(Int),
         Rising(s), Rising(t), Before(s, t)
  PROVE  Rising(s \o t)
<1> DEFINE st == s \o t
<1>1. /\ Len(s) \in Nat /\ Len(t) \in Nat /\ Len(st) = Len(s) + Len(t)
      /\ \A i \in 1..Len(s) : st[i] = s[i]
      /\ \A i \in 1..Len(st) :
           \/ i \in 1..Len(s)
           \/ i - Len(s) \in 1..Len(t) /\ st[i] = t[i - Len(s)]
  BY Joined
<1> HIDE DEF st
<1>2. SUFFICES ASSUME NEW i \in 1..Len(st), NEW j \in 1..Len(st),
                      i < j, st[i] >= 0, st[j] >= 0
               PROVE  st[i] < st[j]
  BY DEF Rising, st
<1>3. CASE j \in 1..Len(s)
  <2>1. i \in 1..Len(s) /\ st[i] = s[i] /\ st[j] = s[j]
    BY <1>1, <1>2, <1>3
  <2> QED BY <1>2, <1>3, <2>1 DEF Rising
<1>4. CASE i \notin 1..Len(s)
  <2>1. /\ st[i] = t[i - Len(s)] /\ st[j] = t[j - Len(s)]
        /\ i - Len(s) \in 1..Len(t) /\ j - Len(s) \in 1..Len(t)
        /\ i - Len(s) < j - Len(s)
    BY <1>1, <1>2, <1>4, SMTT(30)
  <2> QED BY <1>2, <2>1 DEF Rising
<1>5. CASE i \in 1..Len(s) /\ j \notin 1..Len(s)
  <2>1. /\ st[i] = s[i] /\ st[j] = t[j - Len(s)]
        /\ i \in 1..Len(s) /\ j - Len(s) \in 1..Len(t)
    BY <1>1, <1>2, <1>5
  <2> QED BY <1>2, <2>1 DEF Before
<1> QED BY <1>3, <1>4, <1>5

\* A part of a rising sequence rises.
LEMMA RisingPart ==
  ASSUME NEW s \in Seq(Int), Rising(s),
         NEW m \in Nat \ {0}, NEW n \in 0..Len(s)
  PROVE  Rising(SubSeq(s, m, n))
<1> DEFINE w == SubSeq(s, m, n)
<1>1. Len(w) \in Nat /\ \A i \in 1..Len(w) : m + i - 1 \in 1..Len(s) /\ w[i] = s[m + i - 1]
  BY Part, LenProperties
<1> HIDE DEF w
<1>2. ASSUME NEW i \in 1..Len(w), NEW j \in 1..Len(w), i < j, w[i] >= 0, w[j] >= 0
      PROVE  w[i] < w[j]
  <2>1. /\ m + i - 1 \in 1..Len(s) /\ m + j - 1 \in 1..Len(s)
        /\ m + i - 1 < m + j - 1
        /\ w[i] = s[m + i - 1] /\ w[j] = s[m + j - 1]
    BY <1>1, <1>2
  <2> QED BY <1>2, <2>1 DEF Rising
<1> QED BY <1>2 DEF Rising, w

\* What is before or after a sequence is so of any part of it.
LEMMA BeforePart ==
  ASSUME NEW s \in Seq(Int), NEW t \in Seq(Int), Before(s, t)
  PROVE  /\ \A m \in Nat \ {0}, n \in 0..Len(s) : Before(SubSeq(s, m, n), t)
         /\ \A m \in Nat \ {0}, n \in 0..Len(t) : Before(s, SubSeq(t, m, n))
<1>1. ASSUME NEW m \in Nat \ {0}, NEW n \in 0..Len(s)
      PROVE  Before(SubSeq(s, m, n), t)
  <2> DEFINE w == SubSeq(s, m, n)
  <2>1. \A i \in 1..Len(w) : m + i - 1 \in 1..Len(s) /\ w[i] = s[m + i - 1]
    BY Part
  <2> HIDE DEF w
  <2>2. Before(w, t)
    BY <2>1 DEF Before
  <2> QED BY <2>2 DEF w
<1>2. ASSUME NEW m \in Nat \ {0}, NEW n \in 0..Len(t)
      PROVE  Before(s, SubSeq(t, m, n))
  <2> DEFINE w == SubSeq(t, m, n)
  <2>1. \A i \in 1..Len(w) : m + i - 1 \in 1..Len(t) /\ w[i] = t[m + i - 1]
    BY Part
  <2> HIDE DEF w
  <2>2. Before(s, w)
    BY <2>1 DEF Before
  <2> QED BY <2>2 DEF w
<1> QED BY <1>1, <1>2

\* Before and In of two sequences one after the other.
LEMMA ConcatParts ==
  ASSUME NEW s \in Seq(Int), NEW t \in Seq(Int), NEW u \in Seq(Int)
  PROVE  /\ Before(s, u) /\ Before(t, u) => Before(s \o t, u)
         /\ Before(u, s) /\ Before(u, t) => Before(u, s \o t)
         /\ \A b \in Int : In(b, s \o t) <=> In(b, s) \/ In(b, t)
<1> DEFINE st == s \o t
<1>1. /\ \A i \in 1..Len(s) : i \in 1..Len(st) /\ st[i] = s[i]
      /\ \A i \in 1..Len(t) : Len(s) + i \in 1..Len(st) /\ st[Len(s) + i] = t[i]
      /\ \A i \in 1..Len(st) :
           \/ i \in 1..Len(s)
           \/ i - Len(s) \in 1..Len(t) /\ st[i] = t[i - Len(s)]
  BY Joined
<1> HIDE DEF st
<1>2. Before(s, u) /\ Before(t, u) => Before(st, u)
  BY <1>1 DEF Before
<1>3. Before(u, s) /\ Before(u, t) => Before(u, st)
  BY <1>1 DEF Before
<1>4. ASSUME NEW b \in Int PROVE In(b, st) <=> In(b, s) \/ In(b, t)
  BY <1>1 DEF In
<1> QED BY <1>2, <1>3, <1>4 DEF st

Below(s, n) == \A i \in 1..Len(s) : s[i] < n

LEMMA BelowConcat ==
  ASSUME NEW s \in Seq(Int), NEW t \in Seq(Int), NEW n \in Int, Below(s, n), Below(t, n)
  PROVE  Below(s \o t, n)
<1> DEFINE st == s \o t
<1>1. /\ \A i \in 1..Len(s) : st[i] = s[i]
      /\ \A i \in 1..Len(st) :
           i \in 1..Len(s) \/ (i - Len(s) \in 1..Len(t) /\ st[i] = t[i - Len(s)])
  BY Joined
<1> HIDE DEF st
<1>2. Below(st, n)
  BY <1>1 DEF Below
<1> QED BY <1>2 DEF st

-----------------------------------------------------------------------------
(* What the steps do to the buffers.                                       *)

\* The number of bytes of whole packets.
Packs(n) == n % P = 0

\* Packets of the program's own are packets of negative bytes.
LEMMA MadeBytes ==
  ASSUME NEW n \in Nat
  PROVE  /\ Made(n) \in Seq(Int) /\ Len(Made(n)) = P * n
         /\ Packs(Len(Made(n)))
         /\ \A i \in 1..Len(Made(n)) :
              /\ Made(n)[i] \in Int /\ Made(n)[i] < 0
              /\ Made(n)[i] = ((i - 1) % P) - P
<1>1. P \in Nat /\ P > 0
  BY SizesAssumption
<1>2. PICK m \in Nat : m = P * n
  BY <1>1
<1>3. \A i \in 1..m : (i - 1) % P \in 0..P - 1
  BY <1>1, DivMod
<1>4. \A i \in 1..m : ((i - 1) % P) - P \in Int /\ ((i - 1) % P) - P < 0
  BY <1>1, <1>3
<1>5. Made(n) = [i \in 1..m |-> ((i - 1) % P) - P]
  BY <1>2 DEF Made
<1>6. /\ Made(n) \in Seq(Int) /\ Len(Made(n)) = m
      /\ \A i \in 1..m : Made(n)[i] = ((i - 1) % P) - P
  BY <1>4, <1>5
<1>7. m % P = 0
  <2>1. 0 \in Int /\ 0 \in 0..P - 1 /\ n \in Int
    BY <1>1
  <2>2. (0 + P * n) % P = 0 % P /\ 0 % P = 0
    BY <1>1, <2>1, ModMultiple, ModSmall
  <2>3. 0 + P * n = m
    BY <1>2
  <2> QED BY <2>2, <2>3
<1> QED BY <1>2, <1>4, <1>6, <1>7 DEF Packs

LEMMA OneMade ==
  /\ Made(1) \in Seq(Int) /\ Len(Made(1)) = P
  /\ \A i \in 1..P : Made(1)[i] \in Int /\ Made(1)[i] < 0 /\ Made(1)[i] = ((i - 1) % P) - P
<1>1. 1 \in Nat /\ P * 1 = P
  BY SizesAssumption
<1> QED BY <1>1, MadeBytes

\* curl_callback's rb_write.
LEMMA ReceiveParts ==
  ASSUME TypeOK, NEW n \in ChunkSizes, Receive(n)
  PROVE  \E took \in 0..n :
           /\ took = Fitting(n, InSize - Len(inbuf))
           /\ inbuf' \in Seq(Nat) /\ Len(inbuf') = Len(inbuf) + took
           /\ Len(inbuf') <= InSize
           /\ [i \in 1..took |-> sent + i - 1] \in Seq(Nat)
           /\ Len([i \in 1..took |-> sent + i - 1]) = took
           /\ \A i \in 1..Len(inbuf) : inbuf'[i] = inbuf[i]
           /\ \A i \in 1..took : inbuf'[Len(inbuf) + i] = sent + i - 1
           /\ \A i \in 1..Len(inbuf') :
                i \in 1..Len(inbuf) \/ i - Len(inbuf) \in 1..took
<1> DEFINE took == Fitting(n, InSize - Len(inbuf))
           new == [i \in 1..took |-> sent + i - 1]
<1>1. n \in Nat \ {0} /\ InSize \in Nat /\ sent \in Nat /\ Len(inbuf) \in 0..InSize
  BY SizesAssumption, LenProperties DEF TypeOK
<1>2. took \in 0..n /\ Len(inbuf) + took <= InSize
  BY <1>1 DEF Fitting
<1>3. inbuf' = inbuf \o new
  BY DEF Receive
<1> HIDE DEF took
<1>4. new \in Seq(Nat) /\ Len(new) = took /\ \A i \in 1..took : new[i] = sent + i - 1
  BY <1>1, <1>2
<1> HIDE DEF new
<1>5. inbuf \in Seq(Nat)
  BY DEF TypeOK
<1>6. /\ inbuf' \in Seq(Nat) /\ Len(inbuf') = Len(inbuf) + took
      /\ \A i \in 1..Len(inbuf) : inbuf'[i] = inbuf[i]
      /\ \A i \in 1..took : inbuf'[Len(inbuf) + i] = sent + i - 1
      /\ \A i \in 1..Len(inbuf') :
           i \in 1..Len(inbuf) \/ i - Len(inbuf) \in 1..took
  <2>1. new \in Seq(Nat)
    BY <1>4
  <2>2. /\ inbuf \o new \in Seq(Nat)
        /\ Len(inbuf \o new) = Len(inbuf) + Len(new)
        /\ \A i \in 1..Len(inbuf) : (inbuf \o new)[i] = inbuf[i]
        /\ \A i \in 1..Len(new) : (inbuf \o new)[Len(inbuf) + i] = new[i]
        /\ \A i \in 1..Len(inbuf \o new) :
             i \in 1..Len(inbuf) \/ i - Len(inbuf) \in 1..Len(new)
    BY <1>5, <2>1, Joined
  <2> QED BY <1>3, <1>4, <2>2
<1> QED BY <1>2, <1>4, <1>6 DEF took, new

\* mux_thread's rb_write.
LEMMA PutParts ==
  ASSUME TypeOK, NEW packet \in Seq(Int), Put(packet)
  PROVE  \E took \in 0..Len(packet) :
           /\ content' = content \o SubSeq(packet, 1, took)
           /\ SubSeq(packet, 1, took) \in Seq(Int)
           /\ Len(SubSeq(packet, 1, took)) = took
           /\ content' \in Seq(Int) /\ Len(content') = Len(content) + took
           /\ outbuf' \in Seq(1..Len(content'))
           /\ Len(outbuf') = Len(outbuf) + took /\ Len(outbuf') <= OutSize
           /\ \A i \in 1..Len(outbuf) : outbuf'[i] = outbuf[i]
           /\ \A i \in 1..took : outbuf'[Len(outbuf) + i] = Len(content) + i
           /\ \A i \in 1..Len(outbuf') :
                i \in 1..Len(outbuf) \/ i - Len(outbuf) \in 1..took
           /\ outCut' = (outCut \/ took < Len(packet))
<1> DEFINE took == Fitting(Len(packet), OutSize - Len(outbuf))
           new == [i \in 1..took |-> Len(content) + i]
           part == SubSeq(packet, 1, took)
           seen == 1..Len(content) + took
<1>1. /\ OutSize \in Nat /\ Len(outbuf) \in 0..OutSize
      /\ Len(packet) \in Nat /\ Len(content) \in Nat
  BY SizesAssumption, LenProperties DEF TypeOK
<1>2. took \in 0..Len(packet) /\ Len(outbuf) + took <= OutSize
  BY <1>1 DEF Fitting
<1>3. /\ outbuf' = outbuf \o new /\ content' = content \o part
      /\ outCut' = (outCut \/ took < Len(packet))
  BY DEF Put
<1> HIDE DEF took
<1>4. part \in Seq(Int) /\ Len(part) = took
  BY <1>1, <1>2, Part
<1>5. /\ new \in Seq(seen) /\ Len(new) = took
      /\ \A i \in 1..took : new[i] = Len(content) + i
  BY <1>1, <1>2
<1> HIDE DEF new, part
<1>6. content' \in Seq(Int) /\ Len(content') = Len(content) + took
  <2>1. content \in Seq(Int) /\ part \in Seq(Int)
    BY <1>4 DEF TypeOK
  <2>2. content \o part \in Seq(Int) /\ Len(content \o part) = Len(content) + Len(part)
    BY <2>1, Joined
  <2> QED BY <1>3, <1>4, <2>2
<1>7. outbuf \in Seq(seen)
  <2>1. 1..Len(content) \subseteq seen
    BY <1>1, <1>2
  <2>2. outbuf \in Seq(1..Len(content))
    BY Zenon DEF TypeOK
  <2> QED BY <2>1, <2>2, SeqMonotonic
<1>8. /\ outbuf' \in Seq(seen) /\ Len(outbuf') = Len(outbuf) + took
      /\ \A i \in 1..Len(outbuf) : outbuf'[i] = outbuf[i]
      /\ \A i \in 1..took : outbuf'[Len(outbuf) + i] = Len(content) + i
      /\ \A i \in 1..Len(outbuf') :
           i \in 1..Len(outbuf) \/ i - Len(outbuf) \in 1..took
  <2>1. new \in Seq(seen)
    BY <1>5
  <2>2. /\ outbuf \o new \in Seq(seen)
        /\ Len(outbuf \o new) = Len(outbuf) + Len(new)
        /\ \A i \in 1..Len(outbuf) : (outbuf \o new)[i] = outbuf[i]
        /\ \A i \in 1..Len(new) : (outbuf \o new)[Len(outbuf) + i] = new[i]
        /\ \A i \in 1..Len(outbuf \o new) :
             i \in 1..Len(outbuf) \/ i - Len(outbuf) \in 1..Len(new)
    <3> HIDE DEF seen
    <3> QED BY <1>7, <2>1, Joined
  <2> QED BY <1>3, <1>5, <2>2
<1> QED BY <1>2, <1>3, <1>4, <1>6, <1>8 DEF part

\* The packet EmitPacket puts into outbuf, and what remains: at least the last one.
LEMMA FrontParts ==
  ASSUME TypeOK, mpc = "emit"
  PROVE  /\ P \in 0..Len(buf) /\ buf \in Seq(Int) /\ Len(buf) \in Nat
         /\ SubSeq(buf, 1, P) \in Seq(Int) /\ Len(SubSeq(buf, 1, P)) = P
         /\ SubSeq(buf, P + 1, Len(buf)) \in Seq(Int)
         /\ Len(SubSeq(buf, P + 1, Len(buf))) = Len(buf) - P
         /\ (Len(buf) - P) % P = 0 /\ Len(buf) - P >= P
<1>1. /\ buf \in Seq(Int) /\ Len(buf) \in Nat /\ P \in Nat /\ P > 0
      /\ Len(buf) > P /\ Len(buf) % P = 0
  BY SizesAssumption, LenProperties DEF TypeOK
<1> DEFINE n == Len(buf) - P
<1>2. n % P = 0
  <2>1. Len(buf) \in Int
    BY <1>1
  <2> QED BY <1>1, <2>1, ModPeriod, Zenon
<1>3. n >= P
  <2>1. CASE n < P
    <3>1. n \in 0..P - 1 /\ n # 0
      BY <1>1, <2>1
    <3>2. n % P = n
      BY <1>1, <3>1, ModSmall
    <3> QED BY <1>2, <3>1, <3>2
  <2> QED BY <1>1, <2>1
<1>4. P \in 0..Len(buf)
  BY <1>1
<1>5. /\ SubSeq(buf, 1, P) \in Seq(Int) /\ Len(SubSeq(buf, 1, P)) = P
      /\ SubSeq(buf, P + 1, Len(buf)) \in Seq(Int)
      /\ Len(SubSeq(buf, P + 1, Len(buf))) = Len(buf) - P
  BY <1>1, <1>4, Split
<1> QED BY <1>1, <1>2, <1>3, <1>4, <1>5

\* rb_read of a packet.
LEMMA TakeParts ==
  ASSUME TypeOK, TakePacket
  PROVE  /\ Packet = SubSeq(inbuf, 1, P) /\ Packet \in Seq(Nat) /\ Len(Packet) = P
         /\ Packet \in Seq(Int)
         /\ P \in 0..Len(inbuf) /\ P < Len(inbuf)
         /\ inbuf' = SubSeq(inbuf, P + 1, Len(inbuf))
         /\ inbuf' \in Seq(Nat) /\ Len(inbuf') = Len(inbuf) - P
         /\ \A i \in 1..P : i \in 1..Len(inbuf) /\ Packet[i] = inbuf[i]
         /\ \A i \in 1..Len(inbuf') :
              P + i \in 1..Len(inbuf) /\ inbuf'[i] = inbuf[P + i]
<1>1. inbuf \in Seq(Nat) /\ Len(inbuf) \in Nat /\ P \in Nat \ {0} /\ P < Len(inbuf)
  BY SizesAssumption, LenProperties DEF TypeOK, TakePacket
<1>2. Packet = SubSeq(inbuf, 1, P) /\ inbuf' = SubSeq(inbuf, P + 1, Len(inbuf))
  BY <1>1 DEF TakePacket, Packet
<1> DEFINE numbers == Nat
<1>3. P \in 0..Len(inbuf) /\ inbuf \in Seq(numbers)
  BY <1>1
<1> HIDE DEF numbers
<1>4. /\ SubSeq(inbuf, 1, P) \in Seq(numbers) /\ Len(SubSeq(inbuf, 1, P)) = P
      /\ \A i \in 1..P : i \in 1..Len(inbuf) /\ SubSeq(inbuf, 1, P)[i] = inbuf[i]
      /\ SubSeq(inbuf, P + 1, Len(inbuf)) \in Seq(numbers)
      /\ Len(SubSeq(inbuf, P + 1, Len(inbuf))) = Len(inbuf) - P
      /\ \A i \in 1..Len(inbuf) - P :
           P + i \in 1..Len(inbuf) /\ SubSeq(inbuf, P + 1, Len(inbuf))[i] = inbuf[P + i]
  BY <1>3, Split, Zenon
<1>5. Packet \in Seq(Nat)
  BY <1>2, <1>4 DEF numbers
<1>6. Packet \in Seq(Int)
  BY <1>5, SeqMonotonic
<1> QED BY <1>1, <1>2, <1>3, <1>4, <1>5, <1>6 DEF numbers

\* What read_to_next_pcr adds to sv->buf is whole packets.
LEMMA StoredParts ==
  ASSUME TypeOK, TakePacket, NEW kind \in Kinds, NEW n \in Nat
  PROVE  /\ Stored(kind, n) \in Seq(Int) /\ Len(Stored(kind, n)) \in Nat
         /\ Packs(Len(Stored(kind, n)))
         /\ kind = "pcr" => Len(Stored(kind, n)) = P
<1>1. P \in Nat /\ P > 0
  BY SizesAssumption
<1>2. Packet \in Seq(Int) /\ Len(Packet) = P
  BY TakeParts
<1>3. P % P = 0
  <2>1. 0 \in Int /\ 0 \in 0..P - 1 /\ 0 + P = P
    BY <1>1
  <2> QED BY <1>1, <2>1, ModPeriod, ModSmall
<1>4. CASE kind \in {"pcr", "mapped"}
  BY <1>1, <1>2, <1>3, <1>4 DEF Stored, Packs
<1>5. CASE kind \notin {"pcr", "mapped"}
  <2>1. Stored(kind, n) = Made(n) /\ kind # "pcr"
    BY <1>5 DEF Stored
  <2>2. Made(n) \in Seq(Int) /\ Packs(Len(Made(n)))
    BY MadeBytes
  <2> QED BY <2>1, <2>2, LenProperties
<1> QED BY <1>4, <1>5

\* rb_read of a block.
LEMMA ReadBlockParts ==
  ASSUME TypeOK, ReadBlock
  PROVE  /\ blk' \in Seq(1..Len(content)) /\ Len(blk') = Block
         /\ outbuf' \in Seq(1..Len(content)) /\ Len(outbuf') = Len(outbuf) - Block
         /\ \A i \in 1..Block : i \in 1..Len(outbuf) /\ blk'[i] = outbuf[i]
         /\ \A i \in 1..Len(outbuf') :
              Block + i \in 1..Len(outbuf) /\ outbuf'[i] = outbuf[Block + i]
<1>1. /\ outbuf \in Seq(1..Len(content)) /\ Len(outbuf) \in Nat
      /\ Block \in Nat \ {0} /\ Block < Len(outbuf)
  BY SizesAssumption, LenProperties DEF TypeOK, ReadBlock
<1>2. blk' = SubSeq(outbuf, 1, Block) /\ outbuf' = SubSeq(outbuf, Block + 1, Len(outbuf))
  BY DEF ReadBlock
<1>3. Block \in 0..Len(outbuf)
  BY <1>1
<1> DEFINE seen == 1..Len(content)
<1>4. outbuf \in Seq(seen)
  BY <1>1
<1> HIDE DEF seen
<1>5. /\ SubSeq(outbuf, 1, Block) \in Seq(seen) /\ Len(SubSeq(outbuf, 1, Block)) = Block
      /\ \A i \in 1..Block : i \in 1..Len(outbuf) /\ SubSeq(outbuf, 1, Block)[i] = outbuf[i]
      /\ SubSeq(outbuf, Block + 1, Len(outbuf)) \in Seq(seen)
      /\ Len(SubSeq(outbuf, Block + 1, Len(outbuf))) = Len(outbuf) - Block
      /\ \A i \in 1..Len(outbuf) - Block :
           Block + i \in 1..Len(outbuf) /\ SubSeq(outbuf, Block + 1, Len(outbuf))[i] = outbuf[Block + i]
  BY <1>3, <1>4, Split, Zenon
<1>6. /\ blk' \in Seq(seen) /\ Len(blk') = Block
      /\ outbuf' \in Seq(seen) /\ Len(outbuf') = Len(outbuf) - Block
      /\ \A i \in 1..Block : i \in 1..Len(outbuf) /\ blk'[i] = outbuf[i]
      /\ \A i \in 1..Len(outbuf') :
           Block + i \in 1..Len(outbuf) /\ outbuf'[i] = outbuf[Block + i]
  BY <1>2, <1>5
<1> QED BY <1>6 DEF seen

\* write takes part of what is offered.
LEMMA WriteParts ==
  ASSUME TypeOK, NEW n \in 1..Block, Write(n)
  PROVE  /\ n <= Len(blk) - done
         /\ latest' \in Seq(1..Len(content)) /\ Len(latest') = n
         /\ \A i \in 1..n : done + i \in 1..Len(blk) /\ latest'[i] = blk[done + i]
<1>1. /\ blk \in Seq(1..Len(content)) /\ Len(blk) \in Nat /\ done \in 0..Len(blk)
      /\ n \in Nat \ {0}
  BY SizesAssumption, LenProperties DEF TypeOK
<1> DEFINE seen == 1..Len(content)
<1>2. blk \in Seq(seen) /\ done \in 0..Len(blk)
  BY <1>1
<1> HIDE DEF seen
<1>3. /\ Offered \in Seq(seen) /\ Len(Offered) = Len(blk) - done
      /\ \A i \in 1..Len(blk) - done :
           done + i \in 1..Len(blk) /\ Offered[i] = blk[done + i]
  BY <1>2, Split, Zenon DEF Offered
<1>4. latest' = SubSeq(Offered, 1, n) /\ n \in 0..Len(Offered)
  BY <1>1, <1>3 DEF Write
<1>5. /\ latest' \in Seq(seen) /\ Len(latest') = n
      /\ \A i \in 1..n : i \in 1..Len(Offered) /\ latest'[i] = Offered[i]
  BY <1>3, <1>4, Split, ZenonT(30)
<1>6. latest' \in Seq(1..Len(content))
  BY <1>5 DEF seen
<1> QED BY <1>1, <1>3, <1>4, <1>5, <1>6, SMTT(30)

-----------------------------------------------------------------------------
(* The device gets what outbuf accepts.                                    *)

\* outbuf and the block hold the numbers after those the device has taken.
Numbered ==
  /\ \A i \in 1..Len(outbuf) : outbuf[i] = Len(content) - Len(outbuf) + i
  /\ opc = "write" =>
       /\ Len(blk) = Block /\ done < Len(blk)
       /\ got + (Len(blk) - done) + Len(outbuf) = Len(content)
       /\ \A i \in 1..Len(blk) : blk[i] = got - done + i
  /\ opc # "write" => got + Len(outbuf) = Len(content)

DeviceInv == TypeOK /\ Numbered

LEMMA DeviceInit == Init => DeviceInv
<1> SUFFICES ASSUME Init PROVE DeviceInv
  OBVIOUS
<1>1. TypeOK
  <2>1. /\ Len(<< >>) = 0 /\ << >> \in Seq(Nat) /\ << >> \in Seq(Int)
        /\ << >> \in Seq(1..Len(content))
    BY EmptySeq
  <2>2. /\ InSize \in Nat /\ OutSize \in Nat /\ StreamLen \in Nat
        /\ MaxMade \in Nat /\ MaxFaults \in Nat
        /\ P \in Nat /\ P > 0 /\ 0 \in 0..P - 1
    BY SizesAssumption
  <2>3. outbuf \in Seq(1..Len(content)) /\ blk \in Seq(1..Len(content))
    BY <2>1, Zenon DEF Init
  <2>4. /\ inbuf \in Seq(Nat) /\ content \in Seq(Int) /\ latest \in Seq(Nat)
        /\ Len(inbuf) = 0 /\ Len(outbuf) = 0 /\ Len(blk) = 0
    BY <2>1, Zenon DEF Init
  <2>5. /\ sent \in 0..StreamLen /\ Len(inbuf) <= InSize /\ Len(outbuf) <= OutSize
        /\ made \in 0..MaxMade /\ faults \in 0..MaxFaults /\ first \in Nat
        /\ done \in 0..Len(blk) /\ got \in Nat
    BY <2>2, <2>4 DEF Init
  <2>6. /\ mpc = "init" /\ buf = << >> /\ opc = "open"
        /\ {inLost, inSkew, outCut} \subseteq BOOLEAN
    BY DEF Init
  <2>7. buf \in Seq(Int) /\ Len(buf) % P = 0
    BY <2>1, <2>2, <2>6, ModSmall
  <2> QED BY <2>3, <2>4, <2>5, <2>6, <2>7, SMT DEF TypeOK
<1>2. Numbered
  BY DEF Init, Numbered
<1> QED BY <1>1, <1>2 DEF DeviceInv

\* curl_callback does not touch the output.
LEMMA ReceiveDevice ==
  ASSUME DeviceInv, NEW n \in ChunkSizes, Receive(n)
  PROVE  DeviceInv'
<1>1. n \in Nat /\ sent' \in 0..StreamLen
  BY SizesAssumption DEF DeviceInv, TypeOK, Receive
<1>2. inbuf' \in Seq(Nat) /\ Len(inbuf') <= InSize
  BY ReceiveParts DEF DeviceInv
<1>3. /\ {inLost', inSkew', outCut'} \subseteq BOOLEAN
      /\ UNCHANGED <<muxVars, outputVars, outbuf>>
  BY DEF DeviceInv, TypeOK, Receive, muxVars
<1>4. TypeOK'
  BY <1>1, <1>2, <1>3 DEF DeviceInv, TypeOK, muxVars, outputVars
<1>5. Numbered'
  BY <1>3 DEF DeviceInv, Numbered, muxVars, outputVars
<1> QED BY <1>4, <1>5 DEF DeviceInv

\* Taking a packet from inbuf does not touch the output.
LEMMA TakeDevice ==
  ASSUME DeviceInv, TakePacket, UNCHANGED <<curlVars, content, outCut, outputVars, outbuf>>,
         mpc' \in {"init", "sync", "read", "emit"},
         buf' \in Seq(Int), Packs(Len(buf')),
         mpc' \in {"init", "sync"} => buf' = << >>,
         mpc' = "read" => Len(buf') >= P,
         mpc' = "emit" => Len(buf') > P,
         made' \in 0..MaxMade, first' \in Nat
  PROVE  DeviceInv'
<1>1. /\ inbuf' \in Seq(Nat) /\ Len(inbuf') <= InSize
  <2>1. /\ inbuf' \in Seq(Nat) /\ Len(inbuf') = Len(inbuf) - P
        /\ Len(inbuf) \in Nat /\ P \in Nat /\ InSize \in Nat /\ Len(inbuf) <= InSize
    BY TakeParts, LenProperties, SizesAssumption DEF DeviceInv, TypeOK
  <2> QED BY <2>1
<1>2. TypeOK'
  BY <1>1 DEF DeviceInv, TypeOK, curlVars, outputVars, Packs
<1>3. Numbered'
  BY DEF DeviceInv, Numbered, outputVars
<1> QED BY <1>2, <1>3 DEF DeviceInv

LEMMA InitServiceDevice ==
  ASSUME DeviceInv, InitService
  PROVE  DeviceInv'
<1>1. /\ TakePacket /\ mpc = "init" /\ mpc' \in {"init", "sync"}
      /\ UNCHANGED <<curlVars, buf, made, content, outCut, first, outputVars, outbuf>>
  BY DEF InitService
<1>2. /\ buf \in Seq(Int) /\ Packs(Len(buf)) /\ buf = << >>
      /\ made \in 0..MaxMade /\ first \in Nat
  BY <1>1 DEF DeviceInv, TypeOK, Packs
<1> QED BY <1>1, <1>2, TakeDevice

LEMMA SyncDevice ==
  ASSUME DeviceInv, NEW kind \in Kinds, SyncToPcr(kind)
  PROVE  DeviceInv'
<1>1. /\ TakePacket /\ mpc = "sync"
      /\ UNCHANGED <<curlVars, made, content, outCut, outputVars, outbuf>>
      /\ \/ mpc' = "read" /\ buf' = Packet /\ first' = Packet[1]
         \/ UNCHANGED <<mpc, buf, first>>
  BY DEF SyncToPcr
<1>2. /\ buf \in Seq(Int) /\ Packs(Len(buf)) /\ buf = << >>
      /\ made \in 0..MaxMade /\ first \in Nat
  BY <1>1 DEF DeviceInv, TypeOK, Packs
<1>3. CASE UNCHANGED <<mpc, buf, first>>
  BY <1>1, <1>2, <1>3, TakeDevice
<1>4. CASE mpc' = "read" /\ buf' = Packet /\ first' = Packet[1]
  <2>1. P \in Nat /\ P > 0
    BY SizesAssumption
  <2>2. Packet \in Seq(Nat) /\ Packet \in Seq(Int) /\ Len(Packet) = P
    BY <1>1, TakeParts DEF DeviceInv
  <2>3. Packet[1] \in Nat
    <3>1. 1 \in 1..Len(Packet)
      BY <2>1, <2>2
    <3> QED BY <2>2, <3>1, LenProperties
  <2>4. Packs(P)
    <3>1. 0 \in Int /\ 0 \in 0..P - 1 /\ 0 + P = P
      BY <2>1
    <3> QED BY <2>1, <3>1, ModPeriod, ModSmall DEF Packs
  <2>5. Len(buf') >= P
    BY <1>4, <2>1, <2>2
  <2> QED BY <1>1, <1>2, <1>4, <2>2, <2>3, <2>4, <2>5, TakeDevice
<1> QED BY <1>1, <1>3, <1>4

\* Packets one after the other are packets.
LEMMA PacksPlus ==
  ASSUME NEW m \in Nat, NEW n \in Nat, Packs(m), Packs(n)
  PROVE  Packs(m + n)
<1>1. P \in Nat /\ P > 0 /\ m \in Int /\ n \in Int /\ 0 \in Int /\ 0 \in 0..P - 1
      /\ 0 + n = n
  BY SizesAssumption
<1>2. m % P = 0 % P
  BY <1>1, ModSmall DEF Packs
<1>3. (m + n) % P = (0 + n) % P
  BY <1>1, <1>2, ModPlus, Zenon
<1> QED BY <1>1, <1>3 DEF Packs

LEMMA ReadDevice ==
  ASSUME DeviceInv, NEW kind \in Kinds, ReadToNextPcr(kind)
  PROVE  DeviceInv'
<1>1. /\ TakePacket /\ mpc = "read"
      /\ UNCHANGED <<curlVars, content, outCut, first, outputVars, outbuf>>
      /\ mpc' = IF kind = "pcr" THEN "emit" ELSE "read"
  BY DEF ReadToNextPcr
<1>2. PICK n \in 0..MaxMade - made : buf' = buf \o Stored(kind, n) /\ made' = made + n
  BY DEF ReadToNextPcr
<1>3. /\ buf \in Seq(Int) /\ Len(buf) \in Nat /\ Packs(Len(buf)) /\ Len(buf) >= P
      /\ made \in 0..MaxMade /\ first \in Nat /\ P \in Nat /\ P > 0 /\ MaxMade \in Nat
  BY <1>1, LenProperties, SizesAssumption DEF DeviceInv, TypeOK, Packs
<1>4. n \in Nat /\ made' \in 0..MaxMade
  BY <1>2, <1>3
<1> DEFINE new == Stored(kind, n)
<1>5. /\ new \in Seq(Int) /\ Len(new) \in Nat /\ Packs(Len(new))
      /\ kind = "pcr" => Len(new) = P
  BY <1>1, <1>4, StoredParts DEF DeviceInv
<1>6. buf' = buf \o new
  BY <1>2
<1> HIDE DEF new
<1>7. buf' \in Seq(Int) /\ Len(buf') = Len(buf) + Len(new)
  BY <1>3, <1>5, <1>6, Joined
<1>8. Packs(Len(buf'))
  BY <1>3, <1>5, <1>7, PacksPlus
<1>9. Len(buf') >= P /\ (kind = "pcr" => Len(buf') > P)
  BY <1>3, <1>5, <1>7, SMTT(30)
<1>10. /\ mpc' \in {"init", "sync", "read", "emit"} /\ mpc' \notin {"init", "sync"}
       /\ mpc' = "emit" => kind = "pcr"
  BY <1>1
<1>11. first' \in Nat
  BY <1>1, <1>3
<1> QED BY <1>1, <1>4, <1>7, <1>8, <1>9, <1>10, <1>11, TakeDevice

\* What a packet put into outbuf adds is numbered on.
LEMMA PutDevice ==
  ASSUME DeviceInv, NEW packet \in Seq(Int), Put(packet), UNCHANGED outputVars
  PROVE  /\ Numbered'
         /\ content' \in Seq(Int)
         /\ outbuf' \in Seq(1..Len(content')) /\ Len(outbuf') <= OutSize
         /\ blk' \in Seq(1..Len(content')) /\ done' \in 0..Len(blk')
         /\ outCut' \in BOOLEAN
<1>1. PICK took \in 0..Len(packet) :
           /\ content' \in Seq(Int) /\ Len(content') = Len(content) + took
           /\ outbuf' \in Seq(1..Len(content'))
           /\ Len(outbuf') = Len(outbuf) + took /\ Len(outbuf') <= OutSize
           /\ \A i \in 1..Len(outbuf) : outbuf'[i] = outbuf[i]
           /\ \A i \in 1..took : outbuf'[Len(outbuf) + i] = Len(content) + i
           /\ \A i \in 1..Len(outbuf') :
                i \in 1..Len(outbuf) \/ i - Len(outbuf) \in 1..took
           /\ outCut' = (outCut \/ took < Len(packet))
  BY PutParts DEF DeviceInv
<1>2. /\ took \in Nat /\ Len(content) \in Nat /\ Len(outbuf) \in Nat
      /\ content \in Seq(Int) /\ blk \in Seq(1..Len(content)) /\ done \in 0..Len(blk)
      /\ got \in Nat /\ Len(blk) \in Nat /\ outCut \in BOOLEAN
  BY LenProperties DEF DeviceInv, TypeOK
<1>3. UNCHANGED <<opc, blk, done, got>>
  BY DEF outputVars
<1>4. \A i \in 1..Len(outbuf') : outbuf'[i] = Len(content') - Len(outbuf') + i
  <2> TAKE i \in 1..Len(outbuf')
  <2>1. CASE i \in 1..Len(outbuf)
    BY <1>1, <1>2, <2>1 DEF DeviceInv, Numbered
  <2>2. CASE i - Len(outbuf) \in 1..took
    <3> DEFINE k == i - Len(outbuf)
    <3>1. k \in 1..took /\ Len(outbuf) + k = i
      BY <1>2, <2>2
    <3>2. outbuf'[Len(outbuf) + k] = Len(content) + k
      BY <1>1, <3>1
    <3> QED BY <1>1, <1>2, <3>1, <3>2
  <2> QED BY <1>1, <2>1, <2>2
<1>5. /\ opc' = "write" => /\ Len(blk') = Block /\ done' < Len(blk')
                           /\ got' + (Len(blk') - done') + Len(outbuf') = Len(content')
                           /\ \A i \in 1..Len(blk') : blk'[i] = got' - done' + i
      /\ opc' # "write" => got' + Len(outbuf') = Len(content')
  <2>1. Len(content') = Len(content) + took /\ Len(outbuf') = Len(outbuf) + took
    BY <1>1
  <2>2. CASE opc = "write"
    <3>1. /\ Len(blk) = Block /\ done < Len(blk)
          /\ got + (Len(blk) - done) + Len(outbuf) = Len(content)
          /\ \A i \in 1..Len(blk) : blk[i] = got - done + i
      BY <2>2 DEF DeviceInv, Numbered
    <3>2. got + (Len(blk) - done) + Len(outbuf') = Len(content')
      <4>1. /\ took \in Nat /\ Len(content) \in Nat /\ Len(outbuf) \in Nat
            /\ got \in Nat /\ Len(blk) \in Nat /\ done \in Int
        BY <1>2
      <4>2. got + (Len(blk) - done) + Len(outbuf) = Len(content)
        BY <3>1
      <4> DEFINE a == Len(blk) - done
                 b == Len(outbuf)
                 c == Len(content)
      <4>3. a \in Int /\ b \in Int /\ c \in Int /\ got + a + b = c
        BY <4>1, <4>2
      <4> HIDE DEF a, b, c
      <4>4. got + a + (b + took) = c + took
        BY <4>1, <4>3
      <4> QED BY <2>1, <4>4 DEF a, b, c
    <3> QED BY <1>3, <2>2, <3>1, <3>2
  <2>3. CASE opc # "write"
    <3>1. got + Len(outbuf) = Len(content)
      BY <2>3 DEF DeviceInv, Numbered
    <3>2. got + Len(outbuf') = Len(content')
      BY <1>2, <2>1, <3>1, SMTT(30)
    <3> QED BY <1>3, <2>3, <3>2
  <2> QED BY <2>2, <2>3
<1>6. blk' \in Seq(1..Len(content'))
  <2>1. 1..Len(content) \subseteq 1..Len(content')
    BY <1>1, <1>2
  <2> QED BY <1>2, <1>3, <2>1, SeqMonotonic
<1> QED BY <1>1, <1>2, <1>3, <1>4, <1>5, <1>6 DEF Numbered

LEMMA PadDevice ==
  ASSUME DeviceInv, Pad
  PROVE  DeviceInv'
<1>1. /\ Put(Made(1)) /\ made < MaxMade /\ made' = made + 1
      /\ UNCHANGED <<curlVars, mpc, buf, first, outputVars, inbuf>>
  BY DEF Pad
<1>2. /\ Numbered'
      /\ content' \in Seq(Int)
      /\ outbuf' \in Seq(1..Len(content')) /\ Len(outbuf') <= OutSize
      /\ blk' \in Seq(1..Len(content')) /\ done' \in 0..Len(blk')
      /\ outCut' \in BOOLEAN
  BY <1>1, OneMade, PutDevice
<1>3. made' \in 0..MaxMade
  BY <1>1, SizesAssumption DEF DeviceInv, TypeOK
<1>4. TypeOK'
  BY <1>1, <1>2, <1>3 DEF DeviceInv, TypeOK, curlVars, outputVars
<1> QED BY <1>2, <1>4 DEF DeviceInv

LEMMA EmitPacketDevice ==
  ASSUME DeviceInv, EmitPacket
  PROVE  DeviceInv'
<1>1. /\ Put(SubSeq(buf, 1, P)) /\ mpc = "emit"
      /\ buf' = SubSeq(buf, P + 1, Len(buf))
      /\ mpc' = IF Len(buf') = P THEN "read" ELSE "emit"
      /\ UNCHANGED <<curlVars, made, first, outputVars, inbuf>>
  BY DEF EmitPacket
<1>2. /\ SubSeq(buf, 1, P) \in Seq(Int)
      /\ buf' \in Seq(Int) /\ Len(buf') = Len(buf) - P /\ Len(buf) \in Nat
      /\ (Len(buf) - P) % P = 0 /\ Len(buf) - P >= P
  BY <1>1, FrontParts DEF DeviceInv
<1>3. /\ Numbered'
      /\ content' \in Seq(Int)
      /\ outbuf' \in Seq(1..Len(content')) /\ Len(outbuf') <= OutSize
      /\ blk' \in Seq(1..Len(content')) /\ done' \in 0..Len(blk')
      /\ outCut' \in BOOLEAN
  BY <1>1, <1>2, PutDevice
<1>4. /\ Len(buf') % P = 0 /\ mpc' \in {"read", "emit"}
      /\ mpc' = "read" => Len(buf') >= P
      /\ mpc' = "emit" => Len(buf') > P
  <2>1. P \in Nat
    BY SizesAssumption
  <2>2. Len(buf') % P = 0
    BY <1>2, Zenon
  <2>3. Len(buf') \in Nat /\ Len(buf') >= P
    BY <1>2, <2>1
  <2>4. mpc' = IF Len(buf') = P THEN "read" ELSE "emit"
    BY <1>1, Zenon
  <2>5. /\ mpc' \in {"read", "emit"}
        /\ mpc' = "read" => Len(buf') >= P
        /\ mpc' = "emit" => Len(buf') > P
    BY <2>1, <2>3, <2>4
  <2> QED BY <2>2, <2>5, Zenon
<1>5. TypeOK'
  BY <1>1, <1>2, <1>3, <1>4 DEF DeviceInv, TypeOK, curlVars, outputVars
<1> QED BY <1>3, <1>5 DEF DeviceInv

\* A block leaves outbuf with its numbers.
LEMMA ReadBlockDevice ==
  ASSUME DeviceInv, ReadBlock
  PROVE  DeviceInv'
<1>1. /\ blk' \in Seq(1..Len(content)) /\ Len(blk') = Block
      /\ outbuf' \in Seq(1..Len(content)) /\ Len(outbuf') = Len(outbuf) - Block
      /\ \A i \in 1..Block : i \in 1..Len(outbuf) /\ blk'[i] = outbuf[i]
      /\ \A i \in 1..Len(outbuf') :
           Block + i \in 1..Len(outbuf) /\ outbuf'[i] = outbuf[Block + i]
  BY ReadBlockParts DEF DeviceInv
<1>2. /\ opc = "read" /\ opc' = "write" /\ done' = 0
      /\ UNCHANGED <<curlVars, muxVars, faults, got, latest, inbuf>>
  BY DEF ReadBlock
<1>3. /\ Len(content) \in Nat /\ Len(outbuf) \in Nat /\ Len(outbuf) <= OutSize
      /\ Block \in Nat \ {0} /\ got \in Nat /\ OutSize \in Nat
  BY SizesAssumption, LenProperties DEF DeviceInv, TypeOK
<1>4. got + Len(outbuf) = Len(content)
  BY <1>2 DEF DeviceInv, Numbered
<1>5. TypeOK'
  BY <1>1, <1>2, <1>3 DEF DeviceInv, TypeOK, curlVars, muxVars
<1>6. \A i \in 1..Len(outbuf) : outbuf[i] = got + i
  BY <1>3, <1>4 DEF DeviceInv, Numbered
<1>7. \A i \in 1..Len(blk') : blk'[i] = got' - done' + i
  BY <1>1, <1>2, <1>3, <1>6
<1>8. \A i \in 1..Len(outbuf') : outbuf'[i] = Len(content') - Len(outbuf') + i
  <2> TAKE i \in 1..Len(outbuf')
  <2>1. /\ i \in Int /\ outbuf'[i] = got + (Block + i) /\ content' = content
        /\ Len(outbuf') = Len(outbuf) - Block
    BY <1>1, <1>2, <1>3, <1>6 DEF muxVars
  <2> QED BY <1>3, <1>4, <2>1, SMTT(30)
<1>9. got' + (Len(blk') - done') + Len(outbuf') = Len(content')
  <2>1. got' = got /\ done' = 0 /\ content' = content
    BY <1>2 DEF muxVars
  <2>2. got + (Block - 0) + (Len(outbuf) - Block) = Len(content)
    BY <1>3, <1>4
  <2> QED BY <1>1, <2>1, <2>2
<1>10. Numbered'
  BY <1>1, <1>2, <1>3, <1>7, <1>8, <1>9 DEF Numbered
<1> QED BY <1>5, <1>10 DEF DeviceInv

\* A write takes the next numbers.
LEMMA WriteDevice ==
  ASSUME DeviceInv, NEW n \in 1..Block, Write(n)
  PROVE  /\ DeviceInv'
         /\ got' = got + n /\ got' <= Len(content) /\ content' = content
         /\ latest' = [i \in 1..n |-> got + i]
<1>1. /\ n <= Len(blk) - done
      /\ latest' \in Seq(1..Len(content)) /\ Len(latest') = n
      /\ \A i \in 1..n : done + i \in 1..Len(blk) /\ latest'[i] = blk[done + i]
  BY WriteParts DEF DeviceInv
<1>2. /\ opc = "write" /\ got' = got + n /\ done' = done + n
      /\ opc' = IF done' < Len(blk) THEN "write" ELSE "read"
      /\ UNCHANGED <<curlVars, muxVars, blk, faults, inbuf, outbuf>>
  BY DEF Write
<1>3. /\ n \in Nat /\ Len(content) \in Nat /\ Len(outbuf) \in Nat
      /\ Len(blk) \in Nat /\ got \in Nat /\ done \in 0..Len(blk)
  BY SizesAssumption, LenProperties DEF DeviceInv, TypeOK
<1>4. /\ Len(blk) = Block /\ got + (Len(blk) - done) + Len(outbuf) = Len(content)
      /\ \A i \in 1..Len(blk) : blk[i] = got - done + i
  BY <1>2 DEF DeviceInv, Numbered
<1>5. latest' \in Seq(Nat)
  <2>1. 1..Len(content) \subseteq Nat
    OBVIOUS
  <2> QED BY <1>1, <2>1, SeqMonotonic
<1>6. TypeOK'
  <2>1. got' \in Nat /\ done' \in 0..Len(blk') /\ opc' \in {"read", "write"}
    BY <1>1, <1>2, <1>3
  <2> QED BY <1>2, <1>5, <2>1 DEF DeviceInv, TypeOK, curlVars, muxVars
<1>7. Numbered'
  <2>1. \A i \in 1..Len(outbuf') : outbuf'[i] = Len(content') - Len(outbuf') + i
    BY <1>2 DEF DeviceInv, Numbered, muxVars
  <2>2. /\ got' + (Len(blk') - done') + Len(outbuf') = Len(content')
        /\ \A i \in 1..Len(blk') : blk'[i] = got' - done' + i
    BY <1>2, <1>3, <1>4, SMTT(30) DEF muxVars
  <2>3. CASE done' < Len(blk')
    BY <1>2, <1>4, <2>1, <2>2, <2>3 DEF Numbered
  <2>4. CASE ~(done' < Len(blk'))
    <3>1. opc' = "read" /\ done' = Len(blk')
      BY <1>1, <1>2, <1>3, <2>4, SMTT(30)
    <3> QED BY <1>2, <1>3, <2>1, <2>2, <3>1 DEF Numbered, muxVars
  <2> QED BY <2>3, <2>4
<1>8. \A i \in 1..n : latest'[i] = got + i
  BY <1>1, <1>3, <1>4
<1>9. latest' = [i \in 1..n |-> got + i]
  <2>1. latest' \in [1..n -> Nat]
    BY <1>1, <1>5, LenProperties
  <2> QED BY <1>8, <2>1
<1>10. got' <= Len(content)
  BY <1>1, <1>2, <1>3, <1>4, SMTT(30)
<1> QED BY <1>2, <1>6, <1>7, <1>9, <1>10 DEF DeviceInv, muxVars

\* The steps that move no byte.
LEMMA IdleDevice ==
  ASSUME DeviceInv,
         Open("wait") \/ Open("gone") \/ Start \/ WriteNothing \/ UNCHANGED vars
  PROVE  DeviceInv' /\ UNCHANGED <<content, got, latest>>
<1>1. /\ UNCHANGED <<curlVars, muxVars, blk, done, got, latest, inbuf, outbuf>>
      /\ opc' \in {"open", "gone", "wait", "read", "write"}
      /\ opc' = "write" <=> opc = "write"
      /\ faults' \in 0..MaxFaults
  BY SizesAssumption, SMTT(30) DEF DeviceInv, TypeOK, Open, Start, WriteNothing, vars, outputVars
<1>2. TypeOK'
  BY <1>1 DEF DeviceInv, TypeOK, curlVars, muxVars
<1>3. Numbered'
  BY <1>1 DEF DeviceInv, Numbered, muxVars
<1> QED BY <1>1, <1>2, <1>3 DEF DeviceInv, muxVars

\* Every step keeps the numbers right.
LEMMA DeviceStep == DeviceInv /\ [Next]_vars => DeviceInv'
<1> SUFFICES ASSUME DeviceInv, [Next]_vars PROVE DeviceInv'
  OBVIOUS
<1>1. ASSUME NEW n \in ChunkSizes, Receive(n) PROVE DeviceInv'
  BY <1>1, ReceiveDevice
<1>2. CASE InitService \/ \E kind \in Kinds : SyncToPcr(kind) \/ ReadToNextPcr(kind)
  BY <1>2, InitServiceDevice, SyncDevice, ReadDevice
<1>3. CASE Pad
  BY <1>3, PadDevice
<1>4. CASE EmitPacket
  BY <1>4, EmitPacketDevice
<1>5. CASE ReadBlock
  BY <1>5, ReadBlockDevice
<1>6. ASSUME NEW n \in 1..Block, Write(n) PROVE DeviceInv'
  BY <1>6, WriteDevice
<1>7. CASE Open("wait") \/ Open("gone") \/ Start \/ WriteNothing \/ UNCHANGED vars
  BY <1>7, IdleDevice
<1> QED
  BY <1>1, <1>2, <1>3, <1>4, <1>5, <1>6, <1>7 DEF Next, Mux, Output

LEMMA DeviceInvariant == Spec => []DeviceInv
BY DeviceInit, DeviceStep, PTL DEF Spec

\* No buffer overflows and output_thread never offers write more than its
\* block, whatever is dropped, taken or refused on the way.
THEOREM TypeCorrect == Spec => []TypeOK
<1>1. DeviceInv => TypeOK
  BY DEF DeviceInv
<1> QED BY DeviceInvariant, <1>1, PTL

\* The bytes outbuf has accepted and the device has not taken fit into outbuf
\* and one block.
LEMMA Backlog ==
  DeviceInv => Len(content) - got <= OutSize + Block /\ got <= Len(content)
<1> SUFFICES ASSUME DeviceInv
             PROVE  Len(content) - got <= OutSize + Block /\ got <= Len(content)
  OBVIOUS
<1>1. /\ Len(content) \in Nat /\ Len(outbuf) \in Nat /\ Len(outbuf) <= OutSize
      /\ Block \in Nat /\ OutSize \in Nat /\ got \in Nat
      /\ Len(blk) \in Nat /\ done \in 0..Len(blk)
  BY SizesAssumption, LenProperties DEF DeviceInv, TypeOK
<1>2. CASE opc = "write"
  <2>1. /\ Len(blk) = Block /\ got + (Len(blk) - done) + Len(outbuf) = Len(content)
    BY <1>2 DEF DeviceInv, Numbered
  <2> QED BY <1>1, <2>1
<1>3. CASE opc # "write"
  <2>1. got + Len(outbuf) = Len(content)
    BY <1>3 DEF DeviceInv, Numbered
  <2> QED BY <1>1, <2>1
<1> QED BY <1>2, <1>3

\* An rb_write into outbuf is a Put of what fits.
LEMMA PutFifo ==
  ASSUME DeviceInv, DeviceInv', NEW packet \in Seq(Int), Put(packet),
         UNCHANGED outputVars
  PROVE  [Fifo!Next]_(Fifo!vars)
<1>1. PICK took \in 0..Len(packet) : Len(content') = Len(content) + took
  BY PutParts DEF DeviceInv
<1>2. /\ took \in Nat /\ Len(content) \in Nat /\ got \in Nat /\ got' = got
      /\ latest' = latest /\ OutSize + Block \in Nat
  BY SizesAssumption, LenProperties DEF DeviceInv, TypeOK, outputVars
<1>3. Len(content') - got' <= OutSize + Block
  <2>1. (Len(content) - got <= OutSize + Block /\ got <= Len(content))'
    BY Backlog, PTL
  <2> QED BY <2>1
<1>4. CASE took = 0
  <2>1. Len(content') = Len(content)
    BY <1>1, <1>2, <1>4
  <2> QED BY <1>2, <2>1 DEF Fifo!vars
<1>5. CASE took # 0
  <2>1. got <= Len(content)
    BY Backlog
  <2>2. took \in 1..OutSize + Block /\ Len(content) + took - got <= OutSize + Block
    BY <1>1, <1>2, <1>3, <1>5, <2>1
  <2>3. Fifo!Put(took)
    BY <1>1, <1>2, <2>2 DEF Fifo!Put
  <2> QED BY <2>2, <2>3 DEF Fifo!Next
<1> QED BY <1>4, <1>5

\* A write is a Get of what it takes.
LEMMA WriteFifo ==
  ASSUME DeviceInv, NEW n \in 1..Block, Write(n)
  PROVE  Fifo!Next
<1>1. /\ got' = got + n /\ got' <= Len(content) /\ content' = content
      /\ latest' = [i \in 1..n |-> got + i]
  BY WriteDevice
<1>2. n \in 1..OutSize + Block
  BY SizesAssumption
<1>3. Fifo!Get(n)
  BY <1>1 DEF Fifo!Get
<1> QED BY <1>2, <1>3 DEF Fifo!Next

\* Every step is one of the queue or leaves it alone.
LEMMA FifoStep == DeviceInv /\ DeviceInv' /\ [Next]_vars => [Fifo!Next]_(Fifo!vars)
<1> SUFFICES ASSUME DeviceInv, DeviceInv', [Next]_vars PROVE [Fifo!Next]_(Fifo!vars)
  OBVIOUS
<1>1. ASSUME NEW n \in ChunkSizes, Receive(n) PROVE UNCHANGED Fifo!vars
  BY <1>1 DEF Receive, muxVars, outputVars, Fifo!vars
<1>2. CASE InitService \/ \E kind \in Kinds : SyncToPcr(kind) \/ ReadToNextPcr(kind)
  BY <1>2 DEF InitService, SyncToPcr, ReadToNextPcr, outputVars, Fifo!vars
<1>3. CASE Pad
  BY <1>3, OneMade, PutFifo DEF Pad
<1>4. CASE EmitPacket
  BY <1>4, FrontParts, PutFifo DEF EmitPacket, DeviceInv
<1>5. CASE ReadBlock
  BY <1>5 DEF ReadBlock, muxVars, Fifo!vars
<1>6. ASSUME NEW n \in 1..Block, Write(n) PROVE Fifo!Next
  BY <1>6, WriteFifo
<1>7. CASE Open("wait") \/ Open("gone") \/ Start \/ WriteNothing \/ UNCHANGED vars
  BY <1>7, IdleDevice DEF Fifo!vars
<1> QED
  BY <1>1, <1>2, <1>3, <1>4, <1>5, <1>6, <1>7 DEF Next, Mux, Output

\* Short, zero and failed writes notwithstanding, the device takes every byte
\* that outbuf accepts, once and in order.
THEOREM DeviceTakesAll == Spec => DeviceIsFifo
<1>1. Init => Fifo!Init
  <2>1. Len(<< >>) = 0
    BY EmptySeq
  <2> QED BY <2>1 DEF Init, Fifo!Init
<1> QED
  BY <1>1, DeviceInvariant, FifoStep, PTL DEF Spec, DeviceIsFifo, Fifo!Spec

-----------------------------------------------------------------------------
(* No byte of a service overtakes another, and none is lost unnoticed.     *)

\* In each of the three places the bytes are in order, and the places are.
Ordered ==
  /\ Rising(content) /\ Rising(buf) /\ Rising(inbuf)
  /\ Before(content, buf) /\ Before(content, inbuf) /\ Before(buf, inbuf)
  /\ Below(content, sent) /\ Below(buf, sent) /\ Below(inbuf, sent)

\* The byte mux_thread reads next, if curl_callback has dropped none.
Front == sent - Len(inbuf)

\* What mux_thread has read is whole packets.  Of their bytes those that pass are
\* in sv->buf or have been output, once sync_to_pcr is done, and no others.
Covered ==
  ~inLost /\ ~outCut =>
    /\ Front \in Nat /\ Packs(Front)
    /\ \A i \in 1..Len(inbuf) : inbuf[i] = Front + i - 1
    /\ \A b \in 0..Front - 1 : In(b, content) \/ In(b, buf) <=> first <= b /\ Passes(b)
    /\ mpc \in {"init", "sync"} => first = StreamLen
    /\ mpc \in {"read", "emit"} => first <= Front

\* TypeOK's sequences as sequences of integers.
LEMMA Bytes ==
  ASSUME TypeOK
  PROVE  /\ content \in Seq(Int) /\ buf \in Seq(Int) /\ inbuf \in Seq(Int)
         /\ inbuf \in Seq(Nat) /\ sent \in Nat
         /\ Len(content) \in Nat /\ Len(buf) \in Nat /\ Len(inbuf) \in Nat
         /\ \A i \in 1..Len(content) : content[i] \in Int
         /\ \A i \in 1..Len(buf) : buf[i] \in Int
         /\ \A i \in 1..Len(inbuf) : inbuf[i] \in Nat
<1>1. content \in Seq(Int) /\ inbuf \in Seq(Nat) /\ buf \in Seq(Int)
  BY Zenon DEF TypeOK
<1>2. sent \in Nat
  <2>1. sent \in 0..StreamLen /\ StreamLen \in Nat
    BY SizesAssumption, Zenon DEF TypeOK
  <2> QED BY <2>1
<1>3. inbuf \in Seq(Int)
  BY <1>1, SeqMonotonic
<1> QED BY <1>1, <1>2, <1>3, LenProperties

\* A sequence cut in two.
LEMMA CutParts ==
  ASSUME NEW s \in Seq(Int), Rising(s), NEW n \in 0..Len(s), NEW v, NEW w,
         Len(s) \in Nat, Len(v) = n, Len(w) = Len(s) - n,
         \A i \in 1..n : i \in 1..Len(s) /\ v[i] = s[i],
         \A i \in 1..Len(s) - n : n + i \in 1..Len(s) /\ w[i] = s[n + i]
  PROVE  /\ Rising(v) /\ Rising(w) /\ Before(v, w)
         /\ \A u \in Seq(Int) : Before(u, s) => Before(u, v) /\ Before(u, w)
         /\ \A u \in Seq(Int) : Before(s, u) => Before(v, u) /\ Before(w, u)
         /\ \A m \in Int : Below(s, m) => Below(v, m) /\ Below(w, m)
         /\ \A b \in Int : In(b, s) <=> In(b, v) \/ In(b, w)
<1>1. /\ Len(v) = n /\ Len(w) = Len(s) - n /\ Len(s) \in Nat
      /\ \A i \in 1..n : i \in 1..Len(s) /\ v[i] = s[i]
      /\ \A i \in 1..Len(s) - n : n + i \in 1..Len(s) /\ w[i] = s[n + i]
  OBVIOUS
<1>2. Rising(v)
  BY <1>1 DEF Rising
<1>3. Rising(w)
  <2> SUFFICES ASSUME NEW i \in 1..Len(w), NEW j \in 1..Len(w), i < j, w[i] >= 0, w[j] >= 0
               PROVE  w[i] < w[j]
    BY DEF Rising
  <2>1. i \in 1..Len(s) - n /\ j \in 1..Len(s) - n
    BY <1>1
  <2>2. /\ n + i \in 1..Len(s) /\ n + j \in 1..Len(s)
        /\ w[i] = s[n + i] /\ w[j] = s[n + j]
    BY <1>1, <2>1, Zenon
  <2>3. n + i < n + j
    BY <2>1
  <2> QED BY <2>2, <2>3 DEF Rising
<1>4. Before(v, w)
  <2> SUFFICES ASSUME NEW i \in 1..Len(v), NEW j \in 1..Len(w), v[i] >= 0, w[j] >= 0
               PROVE  v[i] < w[j]
    BY DEF Before
  <2>1. /\ i \in 1..Len(s) /\ n + j \in 1..Len(s) /\ i < n + j
        /\ v[i] = s[i] /\ w[j] = s[n + j]
    BY <1>1, SMTT(30)
  <2> QED BY <2>1 DEF Rising
<1>5. ASSUME NEW u \in Seq(Int), Before(u, s) PROVE Before(u, v) /\ Before(u, w)
  BY <1>1, <1>5 DEF Before
<1>6. ASSUME NEW u \in Seq(Int), Before(s, u) PROVE Before(v, u) /\ Before(w, u)
  BY <1>1, <1>6 DEF Before
<1>7. ASSUME NEW m \in Int, Below(s, m) PROVE Below(v, m) /\ Below(w, m)
  BY <1>1, <1>7 DEF Below
<1>8. ASSUME NEW b \in Int, In(b, s) PROVE In(b, v) \/ In(b, w)
  <2>1. PICK i \in 1..Len(s) : s[i] = b
    BY <1>8 DEF In
  <2>2. CASE i <= n
    <3>1. i \in 1..Len(v) /\ v[i] = b
      BY <1>1, <2>1, <2>2
    <3> QED BY <3>1 DEF In
  <2>3. CASE n < i
    <3>1. i - n \in 1..Len(w) /\ n + (i - n) = i
      BY <1>1, <2>3
    <3>2. w[i - n] = b
      BY <1>1, <2>1, <3>1
    <3> QED BY <3>1, <3>2 DEF In
  <2> QED BY <2>2, <2>3
<1>9. ASSUME NEW b \in Int, In(b, v) \/ In(b, w) PROVE In(b, s)
  BY <1>1, <1>9 DEF In
<1> QED BY <1>2, <1>3, <1>4, <1>5, <1>6, <1>7, <1>8, <1>9

LEMMA CutOrder ==
  ASSUME NEW s \in Seq(Int), Rising(s), NEW n \in 0..Len(s)
  PROVE  LET v == SubSeq(s, 1, n)
             w == SubSeq(s, n + 1, Len(s))
         IN  /\ Rising(v) /\ Rising(w) /\ Before(v, w)
             /\ \A u \in Seq(Int) : Before(u, s) => Before(u, v) /\ Before(u, w)
             /\ \A u \in Seq(Int) : Before(s, u) => Before(v, u) /\ Before(w, u)
             /\ \A m \in Int : Below(s, m) => Below(v, m) /\ Below(w, m)
             /\ \A b \in Int : In(b, s) <=> In(b, v) \/ In(b, w)
<1> DEFINE v == SubSeq(s, 1, n)
           w == SubSeq(s, n + 1, Len(s))
<1>1. /\ Len(v) = n /\ Len(w) = Len(s) - n /\ Len(s) \in Nat
      /\ \A i \in 1..n : i \in 1..Len(s) /\ v[i] = s[i]
      /\ \A i \in 1..Len(s) - n : n + i \in 1..Len(s) /\ w[i] = s[n + i]
  BY Split, LenProperties
<1> HIDE DEF v, w
<1>2. /\ Rising(v) /\ Rising(w) /\ Before(v, w)
      /\ \A u \in Seq(Int) : Before(u, s) => Before(u, v) /\ Before(u, w)
      /\ \A u \in Seq(Int) : Before(s, u) => Before(v, u) /\ Before(w, u)
      /\ \A m \in Int : Below(s, m) => Below(v, m) /\ Below(w, m)
      /\ \A b \in Int : In(b, s) <=> In(b, v) \/ In(b, w)
  BY <1>1, CutParts, ZenonT(30)
<1> QED BY <1>2, Zenon DEF v, w

\* Packets of the program's own hold no byte of the source.
LEMMA MadeOrder ==
  ASSUME NEW n \in Nat
  PROVE  /\ Made(n) \in Seq(Int) /\ Rising(Made(n))
         /\ \A m \in Nat : Below(Made(n), m)
         /\ \A u \in Seq(Int) : Before(u, Made(n)) /\ Before(Made(n), u)
         /\ \A b \in Nat : ~In(b, Made(n))
<1>1. /\ Made(n) \in Seq(Int)
      /\ \A i \in 1..Len(Made(n)) : Made(n)[i] \in Int /\ Made(n)[i] < 0
  BY MadeBytes
<1> DEFINE s == Made(n)
<1>2. s \in Seq(Int) /\ \A i \in 1..Len(s) : s[i] \in Int /\ s[i] < 0
  BY <1>1
<1> HIDE DEF s
<1>3. Rising(s)
  BY <1>2, SMTT(30) DEF Rising
<1>4. \A m \in Nat : Below(s, m)
  BY <1>2, SMTT(30) DEF Below
<1>5. \A u \in Seq(Int) : Before(u, s) /\ Before(s, u)
  BY <1>2, SMTT(30) DEF Before
<1>6. \A b \in Nat : ~In(b, s)
  BY <1>2, SMTT(30) DEF In
<1> QED BY <1>2, <1>3, <1>4, <1>5, <1>6 DEF s

\* What curl_callback adds is above everything sent before.
LEMMA ReceiveOrder ==
  ASSUME TypeOK, Ordered, Covered, NEW n \in ChunkSizes, Receive(n)
  PROVE  Ordered' /\ Covered'
<1>1. PICK took \in 0..n :
           /\ took = Fitting(n, InSize - Len(inbuf))
           /\ inbuf' \in Seq(Nat) /\ Len(inbuf') = Len(inbuf) + took
           /\ \A i \in 1..Len(inbuf) : inbuf'[i] = inbuf[i]
           /\ \A i \in 1..took : inbuf'[Len(inbuf) + i] = sent + i - 1
           /\ \A i \in 1..Len(inbuf') :
                i \in 1..Len(inbuf) \/ i - Len(inbuf) \in 1..took
  BY ReceiveParts
<1>2. /\ sent' = sent + n /\ inLost' = (inLost \/ took < n)
      /\ UNCHANGED <<content, buf, outCut, mpc, first>>
  BY <1>1 DEF Receive, muxVars
<1>3. /\ sent \in Nat /\ n \in Nat \ {0} /\ took \in Nat
      /\ Len(content) \in Nat /\ Len(buf) \in Nat /\ Len(inbuf) \in Nat
      /\ \A i \in 1..Len(content) : content[i] \in Int
      /\ \A i \in 1..Len(buf) : buf[i] \in Int
      /\ \A i \in 1..Len(inbuf) : inbuf[i] \in Nat
  BY Bytes, SizesAssumption
<1>4. \A i \in 1..Len(inbuf') :
        \/ i \in 1..Len(inbuf) /\ inbuf'[i] = inbuf[i] /\ inbuf[i] < sent
        \/ i \notin 1..Len(inbuf) /\ inbuf'[i] = sent + (i - Len(inbuf)) - 1
  <2> TAKE i \in 1..Len(inbuf')
  <2>1. CASE i \in 1..Len(inbuf)
    BY <1>1, <2>1 DEF Ordered, Below
  <2>2. CASE i \notin 1..Len(inbuf)
    <3> DEFINE k == i - Len(inbuf)
    <3>1. k \in 1..took /\ Len(inbuf) + k = i
      BY <1>1, <1>3, <2>2
    <3>2. inbuf'[Len(inbuf) + k] = sent + k - 1
      BY <1>1, <3>1
    <3> QED BY <2>2, <3>1, <3>2
  <2> QED BY <2>1, <2>2
<1>5. Rising(inbuf')
  <2> SUFFICES ASSUME NEW i \in 1..Len(inbuf'), NEW j \in 1..Len(inbuf'), i < j
               PROVE  inbuf'[i] < inbuf'[j]
    BY DEF Rising
  <2>1. CASE j \in 1..Len(inbuf)
    <3>1. i \in 1..Len(inbuf)
      BY <1>3, <2>1
    <3>2. inbuf[i] < inbuf[j]
      BY <1>3, <2>1, <3>1, SMTT(30) DEF Ordered, Rising
    <3> QED BY <1>1, <2>1, <3>1, <3>2
  <2>2. CASE j \notin 1..Len(inbuf) /\ i \in 1..Len(inbuf)
    <3>1. inbuf'[j] = sent + (j - Len(inbuf)) - 1 /\ inbuf'[i] < sent
      BY <1>4, <2>2
    <3>2. inbuf'[i] \in Int
      BY <1>1, <1>3, <2>2, SMTT(30)
    <3>3. j \in Int /\ Len(inbuf) < j
      BY <1>1, <1>3, <2>2
    <3> QED BY <1>3, <3>1, <3>2, <3>3, SMTT(30)
  <2>3. CASE j \notin 1..Len(inbuf) /\ i \notin 1..Len(inbuf)
    BY <1>3, <1>4, <2>3
  <2> QED BY <2>1, <2>2, <2>3
<1>6. /\ Before(content, inbuf') /\ Before(buf, inbuf')
  <2>1. \A j \in 1..Len(inbuf') :
          (j \in 1..Len(inbuf) /\ inbuf'[j] = inbuf[j]) \/ inbuf'[j] >= sent
    BY <1>3, <1>4, <1>1, SMTT(30)
  <2>2. \A i \in 1..Len(content) : content[i] < sent
    BY DEF Ordered, Below
  <2>3. \A i \in 1..Len(buf) : buf[i] < sent
    BY DEF Ordered, Below
  <2>4. \A j \in 1..Len(inbuf') : inbuf'[j] \in Nat
    BY <1>1, LenProperties
  <2>5. Before(content, inbuf')
    BY <1>3, <2>1, <2>2, <2>4, SMTT(30) DEF Ordered, Before
  <2>6. Before(buf, inbuf')
    BY <1>3, <2>1, <2>3, <2>4, SMTT(30) DEF Ordered, Before
  <2> QED BY <2>5, <2>6
<1>7. Below(content, sent') /\ Below(buf, sent') /\ Below(inbuf', sent')
  <2>1. \A s \in {content, buf} : Below(s, sent) => Below(s, sent')
    BY <1>2, <1>3, SMTT(30) DEF Below
  <2>2. ASSUME NEW i \in 1..Len(inbuf') PROVE inbuf'[i] < sent'
    <3>1. CASE i \in 1..Len(inbuf)
      <4>1. inbuf'[i] = inbuf[i] /\ inbuf[i] < sent /\ inbuf[i] \in Nat
        BY <1>3, <1>4, <3>1
      <4> QED BY <1>2, <1>3, <4>1, SMTT(30)
    <3>2. CASE i \notin 1..Len(inbuf)
      <4>1. inbuf'[i] = sent + (i - Len(inbuf)) - 1
        BY <1>4, <3>2
      <4>2. i \in Int /\ i - Len(inbuf) <= took
        BY <1>1, <1>3
      <4> QED BY <1>2, <1>3, <4>1, <4>2
    <3> QED BY <3>1, <3>2
  <2>3. Below(inbuf', sent')
    BY <2>2 DEF Below
  <2> QED BY <2>1, <2>3 DEF Ordered
<1>8. Ordered'
  BY <1>2, <1>5, <1>6, <1>7 DEF Ordered
<1>9. Covered'
  <2> SUFFICES ASSUME ~inLost', ~outCut'
               PROVE  /\ Front' = Front /\ Front \in Nat /\ Packs(Front)
                      /\ \A i \in 1..Len(inbuf') : inbuf'[i] = Front + i - 1
                      /\ \A b \in 0..Front - 1 :
                           In(b, content) \/ In(b, buf) <=> first <= b /\ Passes(b)
                      /\ mpc \in {"init", "sync"} => first = StreamLen
                      /\ mpc \in {"read", "emit"} => first <= Front
    BY <1>2 DEF Covered
  <2>1. took = n /\ ~inLost /\ ~outCut
    <3>1. ~inLost /\ ~(took < n) /\ ~outCut
      BY <1>2, Zenon
    <3> QED BY <1>3, <3>1
  <2>2. /\ Front \in Nat /\ Packs(Front)
        /\ \A i \in 1..Len(inbuf) : inbuf[i] = Front + i - 1
        /\ \A b \in 0..Front - 1 : In(b, content) \/ In(b, buf) <=> first <= b /\ Passes(b)
        /\ mpc \in {"init", "sync"} => first = StreamLen
        /\ mpc \in {"read", "emit"} => first <= Front
    BY <2>1, Zenon DEF Covered
  <2>3. Front' = Front
    BY <1>1, <1>2, <1>3, <2>1 DEF Front
  <2>4. \A i \in 1..Len(inbuf') : inbuf'[i] = Front + i - 1
    BY <1>1, <1>3, <1>4, <2>2 DEF Front
  <2> QED BY <2>2, <2>3, <2>4
<1> QED BY <1>8, <1>9

\* What is read from inbuf, and what stays there.
LEMMA TakeOrder ==
  ASSUME TypeOK, Ordered, TakePacket
  PROVE  /\ Packet \in Seq(Int) /\ inbuf' \in Seq(Int)
         /\ Rising(Packet) /\ Rising(inbuf') /\ Before(Packet, inbuf')
         /\ Before(content, Packet) /\ Before(content, inbuf')
         /\ Before(buf, Packet) /\ Before(buf, inbuf')
         /\ Below(Packet, sent) /\ Below(inbuf', sent)
<1>1. /\ Packet = SubSeq(inbuf, 1, P) /\ inbuf' = SubSeq(inbuf, P + 1, Len(inbuf))
      /\ P \in 0..Len(inbuf) /\ Packet \in Seq(Int) /\ inbuf' \in Seq(Nat)
  BY TakeParts
<1>2. inbuf' \in Seq(Int)
  BY <1>1, SeqMonotonic
<1>3. /\ inbuf \in Seq(Int) /\ content \in Seq(Int) /\ buf \in Seq(Int)
      /\ sent \in Nat /\ sent \in Int
  BY Bytes
<1>4. Rising(inbuf)
  BY DEF Ordered
<1>5. /\ Rising(Packet) /\ Rising(inbuf') /\ Before(Packet, inbuf')
      /\ \A u \in Seq(Int) : Before(u, inbuf) => Before(u, Packet) /\ Before(u, inbuf')
      /\ \A m \in Int : Below(inbuf, m) => Below(Packet, m) /\ Below(inbuf', m)
  <2> DEFINE v == SubSeq(inbuf, 1, P)
             w == SubSeq(inbuf, P + 1, Len(inbuf))
  <2>1. /\ Rising(v) /\ Rising(w) /\ Before(v, w)
        /\ \A u \in Seq(Int) : Before(u, inbuf) => Before(u, v) /\ Before(u, w)
        /\ \A m \in Int : Below(inbuf, m) => Below(v, m) /\ Below(w, m)
    BY <1>1, <1>3, <1>4, CutOrder, Zenon
  <2> QED BY <1>1, <2>1, Zenon
<1> QED BY <1>1, <1>2, <1>3, <1>5 DEF Ordered

\* Whatever of the packet goes into sv->buf, the order stays.
LEMMA StoreOrder ==
  ASSUME TypeOK, Ordered, TakePacket, UNCHANGED <<sent, content>>,
         NEW new \in Seq(Int), buf' = buf \o new,
         Rising(new), Before(content, new), Before(buf, new), Before(new, inbuf'),
         Below(new, sent)
  PROVE  Ordered'
<1>1. /\ inbuf' \in Seq(Int) /\ Rising(inbuf') /\ Before(content, inbuf')
      /\ Before(buf, inbuf') /\ Below(inbuf', sent)
  BY TakeOrder
<1>2. content \in Seq(Int) /\ buf \in Seq(Int) /\ sent \in Nat
  BY Bytes
<1>3. Rising(buf \o new)
  BY <1>2, RisingConcat DEF Ordered
<1>4. Before(content, buf \o new) /\ Before(buf \o new, inbuf')
  BY <1>1, <1>2, ConcatParts DEF Ordered
<1>5. Below(buf \o new, sent)
  BY <1>2, BelowConcat DEF Ordered
<1> QED BY <1>1, <1>3, <1>4, <1>5 DEF Ordered

\* What read_to_next_pcr adds is in order.
LEMMA StoredOrder ==
  ASSUME TypeOK, Ordered, TakePacket, NEW kind \in Kinds, NEW n \in Nat
  PROVE  /\ Stored(kind, n) \in Seq(Int) /\ Rising(Stored(kind, n))
         /\ Before(content, Stored(kind, n)) /\ Before(buf, Stored(kind, n))
         /\ Before(Stored(kind, n), inbuf') /\ Below(Stored(kind, n), sent)
<1>1. CASE kind \in {"pcr", "mapped"}
  <2>1. Stored(kind, n) = Packet
    BY <1>1 DEF Stored
  <2> QED BY <2>1, TakeOrder
<1>2. CASE kind \notin {"pcr", "mapped"}
  <2>1. Stored(kind, n) = Made(n)
    BY <1>2 DEF Stored
  <2>2. content \in Seq(Int) /\ buf \in Seq(Int) /\ inbuf' \in Seq(Int) /\ sent \in Nat
    BY Bytes, TakeOrder
  <2> QED BY <2>1, <2>2, MadeOrder
<1> QED BY <1>1, <1>2

\* The packets that are read, and what becomes of them, keep the order.
LEMMA ReadingOrder ==
  ASSUME TypeOK, Ordered,
         InitService \/ \E kind \in Kinds : SyncToPcr(kind) \/ ReadToNextPcr(kind)
  PROVE  Ordered'
<1>1. TakePacket /\ UNCHANGED <<sent, content>>
  BY DEF InitService, SyncToPcr, ReadToNextPcr, curlVars
<1>2. /\ inbuf' \in Seq(Int) /\ Rising(inbuf') /\ Before(content, inbuf')
      /\ Before(buf, inbuf') /\ Below(inbuf', sent)
      /\ Rising(Packet) /\ Before(Packet, inbuf') /\ Before(content, Packet)
      /\ Below(Packet, sent)
  BY <1>1, TakeOrder
<1>3. CASE buf' = buf
  BY <1>1, <1>2, <1>3 DEF Ordered
<1>4. CASE buf' = Packet
  BY <1>1, <1>2, <1>4 DEF Ordered
<1>5. ASSUME NEW kind \in Kinds, ReadToNextPcr(kind) PROVE Ordered'
  <2>1. PICK n \in 0..MaxMade - made : buf' = buf \o Stored(kind, n)
    BY <1>5 DEF ReadToNextPcr
  <2>2. n \in Nat
    BY SizesAssumption DEF TypeOK
  <2> QED BY <1>1, <2>1, <2>2, StoredOrder, StoreOrder
<1> QED BY <1>3, <1>4, <1>5 DEF InitService, SyncToPcr

\* A byte of a packet passes if the packet does.
LEMMA PassesAll ==
  ASSUME NEW f \in Nat, Packs(f), NEW b \in f..f + P - 1
  PROVE  Passes(b) <=> f \in Pcrs \cup Mapped
<1>1. P \in Nat /\ P > 0
  BY SizesAssumption
<1>2. PICK c \in 0..P - 1 : b = f + c
  <2>1. b - f \in 0..P - 1 /\ b = f + (b - f)
    BY <1>1
  <2> QED BY <2>1
<1>3. f % P = 0 % P /\ f \in Int /\ 0 \in Int /\ c \in Int /\ 0 + c = c
  <2>1. 0 \in 0..P - 1
    BY <1>1
  <2>2. 0 % P = 0
    BY <1>1, <2>1, ModSmall
  <2> QED BY <2>2 DEF Packs
<1>4. (f + c) % P = (0 + c) % P
  BY <1>1, <1>3, ModPlus, Zenon
<1>5. c % P = c
  BY <1>1, ModSmall
<1>6. b % P = c
  BY <1>2, <1>3, <1>4, <1>5
<1>7. b - c = f
  BY <1>2
<1>8. b - (b % P) = f
  BY <1>6, <1>7
<1> QED BY <1>8, Zenon DEF Passes

\* As long as nothing is dropped, the packet read is the next one of the source.
LEMMA TakeFront ==
  ASSUME TypeOK, Ordered, Covered, ~inLost, ~outCut, TakePacket, UNCHANGED sent
  PROVE  /\ Front \in Nat /\ Packs(Front) /\ Front + P <= sent
         /\ Front' = Front + P /\ Packs(Front')
         /\ \A i \in 1..Len(inbuf') : inbuf'[i] = Front' + i - 1
         /\ KindsOf(Packet) = {KindOf(Front)} /\ Packet[1] = Front
         /\ \A b \in 0..Front + P - 1 :
              /\ In(b, Packet) <=> Front <= b
              /\ Front <= b => ~In(b, content) /\ ~In(b, buf)
<1>1. /\ Front \in Nat /\ Packs(Front)
      /\ \A i \in 1..Len(inbuf) : inbuf[i] = Front + i - 1
  BY Zenon DEF Covered
<1>2. /\ Packet \in Seq(Nat) /\ Len(Packet) = P
      /\ Len(inbuf') = Len(inbuf) - P /\ P < Len(inbuf)
      /\ \A i \in 1..P : i \in 1..Len(inbuf) /\ Packet[i] = inbuf[i]
      /\ \A i \in 1..Len(inbuf') :
           P + i \in 1..Len(inbuf) /\ inbuf'[i] = inbuf[P + i]
  BY TakeParts
<1>3. P \in Nat /\ P > 0 /\ Len(inbuf) \in Nat /\ sent \in Nat
  BY SizesAssumption, Bytes
<1>4. Front' = Front + P /\ Front + P <= sent
  BY <1>2, <1>3 DEF Front
<1>5. Packs(Front')
  <2>1. Front \in Int
    BY <1>1
  <2>2. (Front + P) % P = Front % P
    BY <1>3, <2>1, ModPeriod, Zenon
  <2> QED BY <1>1, <1>4, <2>2 DEF Packs
<1>6. \A i \in 1..Len(inbuf') : inbuf'[i] = Front' + i - 1
  <2> TAKE i \in 1..Len(inbuf')
  <2>1. P + i \in 1..Len(inbuf) /\ inbuf'[i] = inbuf[P + i]
    BY <1>2
  <2>2. inbuf'[i] = Front + (P + i) - 1
    BY <1>1, <2>1
  <2>3. i \in Int
    OBVIOUS
  <2> QED BY <1>1, <1>3, <1>4, <2>2, <2>3
<1>7. \A i \in 1..P : Packet[i] = Front + i - 1
  BY <1>1, <1>2
<1>8. Packet[1] = Front
  BY <1>1, <1>3, <1>7
<1>9. KindsOf(Packet) = {KindOf(Front)}
  <2>1. Packet \in [1..P -> Nat]
    BY <1>2, LenProperties
  <2>2. Packet = [i \in 1..P |-> Front + i - 1]
    BY <1>7, <2>1
  <2>3. Whole(Packet)
    BY <1>1, <1>8, <2>2 DEF Whole, Packs
  <2> QED BY <1>8, <2>3 DEF KindsOf
<1>10. ASSUME NEW b \in 0..Front + P - 1
       PROVE  In(b, Packet) <=> Front <= b
  <2>1. ASSUME Front <= b PROVE In(b, Packet)
    <3>1. b - Front + 1 \in 1..P /\ Front + (b - Front + 1) - 1 = b
      BY <1>1, <1>3, <2>1
    <3>2. Packet[b - Front + 1] = b /\ b - Front + 1 \in 1..Len(Packet)
      BY <1>2, <1>7, <3>1
    <3> QED BY <3>2 DEF In
  <2>2. ASSUME In(b, Packet) PROVE Front <= b
    <3>1. PICK i \in 1..P : Packet[i] = b
      BY <1>2, <2>2 DEF In
    <3>2. b = Front + i - 1
      BY <1>7, <3>1
    <3> QED BY <1>1, <3>1, <3>2
  <2> QED BY <2>1, <2>2
<1>11. ASSUME NEW b \in 0..Front + P - 1, Front <= b
       PROVE  ~In(b, content) /\ ~In(b, buf)
  <2>1. 1 \in 1..Len(inbuf) /\ inbuf[1] = Front /\ Front >= 0
    BY <1>1, <1>2, <1>3
  <2>2. Before(content, inbuf) /\ Before(buf, inbuf)
    BY DEF Ordered
  <2>3. \A i \in 1..Len(content) : content[i] >= 0 => content[i] < Front
    BY <2>1, <2>2 DEF Before
  <2>4. \A i \in 1..Len(buf) : buf[i] >= 0 => buf[i] < Front
    BY <2>1, <2>2 DEF Before
  <2>5. b >= 0 /\ ~(b < Front)
    BY <1>1, <1>11
  <2> QED BY <2>3, <2>4, <2>5 DEF In
<1> QED BY <1>1, <1>4, <1>5, <1>6, <1>8, <1>9, <1>10, <1>11

\* What read_to_next_pcr keeps are the bytes that pass.
LEMMA StoredPasses ==
  ASSUME TypeOK, Ordered, Covered, ~inLost, ~outCut, TakePacket, UNCHANGED sent,
         NEW kind \in Kinds, kind \in KindsOf(Packet), NEW n \in Nat
  PROVE  \A b \in 0..Front + P - 1 : In(b, Stored(kind, n)) <=> Front <= b /\ Passes(b)
<1>1. /\ Front \in Nat /\ Packs(Front) /\ KindsOf(Packet) = {KindOf(Front)}
      /\ \A b \in 0..Front + P - 1 : In(b, Packet) <=> Front <= b
  BY TakeFront
<1>2. kind = KindOf(Front)
  BY <1>1
<1>3. kind \in {"pcr", "mapped"} <=> Front \in Pcrs \cup Mapped
  BY <1>2 DEF KindOf
<1>4. P \in Nat
  BY SizesAssumption
<1> SUFFICES ASSUME NEW b \in 0..Front + P - 1
             PROVE  In(b, Stored(kind, n)) <=> Front <= b /\ Passes(b)
  OBVIOUS
<1>5. Front <= b => (Passes(b) <=> Front \in Pcrs \cup Mapped)
  <2> SUFFICES ASSUME Front <= b PROVE Passes(b) <=> Front \in Pcrs \cup Mapped
    OBVIOUS
  <2>1. b \in Front..Front + P - 1
    BY <1>1, <1>4
  <2> QED BY <1>1, <2>1, PassesAll
<1>6. CASE kind \in {"pcr", "mapped"}
  <2>1. Stored(kind, n) = Packet
    BY <1>6 DEF Stored
  <2> QED BY <1>1, <1>3, <1>5, <1>6, <2>1
<1>7. CASE kind \notin {"pcr", "mapped"}
  <2>1. Stored(kind, n) = Made(n)
    BY <1>7 DEF Stored
  <2>2. b \in Nat
    BY <1>1, <1>4
  <2>3. ~In(b, Made(n))
    BY <2>2, MadeOrder
  <2> QED BY <1>3, <1>5, <1>7, <2>1, <2>3
<1> QED BY <1>6, <1>7

\* Before sync_to_pcr is done nothing is kept.
LEMMA DroppedCovered ==
  ASSUME TypeOK, Ordered, Covered, TakePacket, mpc \in {"init", "sync"},
         mpc' \in {"init", "sync"},
         UNCHANGED <<sent, inLost, outCut, content, buf, first>>
  PROVE  Covered'
<1> SUFFICES ASSUME ~inLost, ~outCut
             PROVE  /\ Front' \in Nat /\ Packs(Front')
                    /\ \A i \in 1..Len(inbuf') : inbuf'[i] = Front' + i - 1
                    /\ \A b \in 0..Front' - 1 :
                         In(b, content) \/ In(b, buf) <=> first <= b /\ Passes(b)
                    /\ first = StreamLen
  BY Zenon DEF Covered
<1>1. /\ Front \in Nat /\ Front + P <= sent
      /\ Front' = Front + P /\ Packs(Front')
      /\ \A i \in 1..Len(inbuf') : inbuf'[i] = Front' + i - 1
      /\ \A b \in 0..Front + P - 1 : Front <= b => ~In(b, content) /\ ~In(b, buf)
  BY TakeFront
<1>2. /\ first = StreamLen
      /\ \A b \in 0..Front - 1 : In(b, content) \/ In(b, buf) <=> first <= b /\ Passes(b)
  BY Zenon DEF Covered
<1>3. sent \in 0..StreamLen /\ StreamLen \in Nat /\ P \in Nat
  BY SizesAssumption DEF TypeOK
<1>4. ASSUME NEW b \in 0..Front' - 1
      PROVE  In(b, content) \/ In(b, buf) <=> first <= b /\ Passes(b)
  <2>1. b \in 0..Front + P - 1 /\ ~(first <= b)
    BY <1>1, <1>2, <1>3
  <2>2. CASE b < Front
    <3>1. b \in 0..Front - 1
      BY <1>1, <1>3, <2>1, <2>2
    <3> QED BY <1>2, <3>1
  <2>3. CASE Front <= b
    BY <1>1, <2>1, <2>3
  <2> QED BY <1>1, <1>3, <2>1, <2>2, <2>3
<1> QED BY <1>1, <1>2, <1>3, <1>4

LEMMA SyncCovered ==
  ASSUME TypeOK, Ordered, Covered, NEW kind \in Kinds, SyncToPcr(kind)
  PROVE  Covered'
<1>1. /\ TakePacket /\ mpc = "sync" /\ kind \in KindsOf(Packet)
      /\ IF kind = "pcr" THEN mpc' = "read" /\ buf' = Packet /\ first' = Packet[1]
                         ELSE UNCHANGED <<mpc, buf, first>>
      /\ UNCHANGED <<sent, inLost, outCut, content>>
  BY DEF SyncToPcr, curlVars
<1>2. CASE kind # "pcr"
  BY <1>1, <1>2, DroppedCovered
<1>3. CASE kind = "pcr"
  <2> SUFFICES ASSUME ~inLost, ~outCut
               PROVE  /\ Front' \in Nat /\ Packs(Front')
                      /\ \A i \in 1..Len(inbuf') : inbuf'[i] = Front' + i - 1
                      /\ \A b \in 0..Front' - 1 :
                           In(b, content) \/ In(b, buf') <=> first' <= b /\ Passes(b)
                      /\ mpc' = "read" /\ first' <= Front'
    BY <1>1, <1>3, Zenon DEF Covered
  <2>1. /\ Front \in Nat /\ Packs(Front) /\ Front + P <= sent
        /\ Front' = Front + P /\ Packs(Front')
        /\ \A i \in 1..Len(inbuf') : inbuf'[i] = Front' + i - 1
        /\ KindsOf(Packet) = {KindOf(Front)} /\ Packet[1] = Front
        /\ \A b \in 0..Front + P - 1 :
             /\ In(b, Packet) <=> Front <= b
             /\ Front <= b => ~In(b, content) /\ ~In(b, buf)
    BY <1>1, TakeFront
  <2>2. /\ first = StreamLen
        /\ \A b \in 0..Front - 1 :
             In(b, content) \/ In(b, buf) <=> first <= b /\ Passes(b)
    BY <1>1, Zenon DEF Covered
  <2>3. sent \in 0..StreamLen /\ StreamLen \in Nat /\ P \in Nat
    BY SizesAssumption DEF TypeOK
  <2>4. Front \in Pcrs \cup Mapped
    BY <1>1, <1>3, <2>1 DEF KindOf
  <2>5. ASSUME NEW b \in 0..Front' - 1
        PROVE  In(b, content) \/ In(b, buf') <=> first' <= b /\ Passes(b)
    <3>1. b \in 0..Front + P - 1 /\ first' = Front /\ buf' = Packet
      BY <1>1, <1>3, <2>1, <2>3
    <3>2. CASE b < Front
      <4>1. b \in 0..Front - 1 /\ ~(StreamLen <= b) /\ ~(Front <= b)
        BY <2>1, <2>3, <3>1, <3>2
      <4>2. ~In(b, content) /\ ~In(b, Packet)
        BY <2>1, <2>2, <3>1, <4>1
      <4> QED BY <3>1, <4>1, <4>2
    <3>3. CASE Front <= b
      <4>1. b \in Front..Front + P - 1
        BY <2>1, <2>3, <3>1, <3>3
      <4>2. Passes(b)
        BY <2>1, <2>4, <4>1, PassesAll
      <4>3. In(b, Packet)
        BY <2>1, <3>1, <3>3
      <4> QED BY <3>1, <3>3, <4>2, <4>3
    <3> QED BY <2>1, <2>3, <3>1, <3>2, <3>3
  <2> QED BY <1>1, <1>3, <2>1, <2>3, <2>5
<1> QED BY <1>2, <1>3

LEMMA ReadCovered ==
  ASSUME TypeOK, Ordered, Covered, NEW kind \in Kinds, ReadToNextPcr(kind)
  PROVE  Covered'
<1>1. /\ TakePacket /\ mpc = "read" /\ kind \in KindsOf(Packet)
      /\ mpc' \in {"read", "emit"}
      /\ UNCHANGED <<sent, inLost, outCut, content, first>>
  BY DEF ReadToNextPcr, curlVars
<1>2. PICK n \in 0..MaxMade - made : buf' = buf \o Stored(kind, n)
  BY DEF ReadToNextPcr
<1>3. n \in Nat
  BY SizesAssumption DEF TypeOK
<1> SUFFICES ASSUME ~inLost, ~outCut
             PROVE  /\ Front' \in Nat /\ Packs(Front')
                    /\ \A i \in 1..Len(inbuf') : inbuf'[i] = Front' + i - 1
                    /\ \A b \in 0..Front' - 1 :
                         In(b, content) \/ In(b, buf') <=> first <= b /\ Passes(b)
                    /\ first <= Front'
  BY <1>1, Zenon DEF Covered
<1>4. /\ Front \in Nat /\ Front' = Front + P /\ Packs(Front')
      /\ \A i \in 1..Len(inbuf') : inbuf'[i] = Front' + i - 1
      /\ \A b \in 0..Front + P - 1 : Front <= b => ~In(b, content) /\ ~In(b, buf)
  BY <1>1, TakeFront
<1>5. \A b \in 0..Front + P - 1 : In(b, Stored(kind, n)) <=> Front <= b /\ Passes(b)
  BY <1>1, <1>3, StoredPasses
<1>6. /\ first <= Front
      /\ \A b \in 0..Front - 1 : In(b, content) \/ In(b, buf) <=> first <= b /\ Passes(b)
  BY <1>1, Zenon DEF Covered
<1>7. P \in Nat /\ first \in Nat /\ buf \in Seq(Int)
  BY SizesAssumption, Bytes DEF TypeOK
<1>8. Stored(kind, n) \in Seq(Int)
  BY <1>1, <1>3, StoredParts
<1>9. ASSUME NEW b \in 0..Front' - 1
      PROVE  In(b, content) \/ In(b, buf') <=> first <= b /\ Passes(b)
  <2>1. b \in 0..Front + P - 1 /\ b \in Int
    BY <1>4, <1>7
  <2>2. In(b, buf') <=> In(b, buf) \/ In(b, Stored(kind, n))
    BY <1>2, <1>7, <1>8, <2>1, ConcatParts
  <2>3. CASE b < Front
    <3>1. b \in 0..Front - 1 /\ ~(Front <= b)
      BY <1>4, <1>7, <2>1, <2>3
    <3> QED BY <1>5, <1>6, <2>1, <2>2, <3>1
  <2>4. CASE Front <= b
    <3>1. first <= b
      BY <1>4, <1>6, <1>7, <2>1, <2>4
    <3> QED BY <1>4, <1>5, <2>1, <2>2, <2>4, <3>1
  <2> QED BY <1>4, <1>7, <2>1, <2>3, <2>4
<1>10. Front' \in Nat /\ first <= Front'
  BY <1>4, <1>6, <1>7
<1> QED BY <1>4, <1>9, <1>10

\* A packet put into outbuf joins what was put before it.
LEMMA PutOrder ==
  ASSUME TypeOK, NEW packet \in Seq(Int), Put(packet),
         Rising(content), Rising(packet), Before(content, packet),
         Below(content, sent), Below(packet, sent)
  PROVE  /\ Rising(content') /\ Below(content', sent)
         /\ \A u \in Seq(Int) :
              Before(content, u) /\ Before(packet, u) => Before(content', u)
         /\ ~outCut' =>
              ~outCut /\ \A b \in Int : In(b, content') <=> In(b, content) \/ In(b, packet)
<1>1. PICK took \in 0..Len(packet) :
           /\ content' = content \o SubSeq(packet, 1, took)
           /\ outCut' = (outCut \/ took < Len(packet))
  BY PutParts
<1> DEFINE part == SubSeq(packet, 1, took)
<1>2. content \in Seq(Int) /\ Len(packet) \in Nat
  BY Bytes, LenProperties
<1>3. /\ part \in Seq(Int) /\ Len(part) = took
      /\ \A i \in 1..Len(part) : i \in 1..Len(packet) /\ part[i] = packet[i]
  BY Split
<1>4. Rising(part) /\ Before(content, part)
  BY <1>2, RisingPart, BeforePart
<1>5. \A u \in Seq(Int) : Before(packet, u) => Before(part, u)
  BY BeforePart
<1>6. content' = content \o part
  BY <1>1
<1> HIDE DEF part
<1>7. Rising(content')
  BY <1>2, <1>3, <1>4, <1>6, RisingConcat
<1>8. Below(content', sent)
  <2>1. Below(part, sent)
    BY <1>3 DEF Below
  <2>2. sent \in Int
    BY Bytes
  <2> QED BY <1>2, <1>3, <1>6, <2>1, <2>2, BelowConcat
<1>9. \A u \in Seq(Int) :
        Before(content, u) /\ Before(packet, u) => Before(content', u)
  BY <1>2, <1>3, <1>5, <1>6, ConcatParts
<1>10. ASSUME ~outCut'
       PROVE  ~outCut /\ \A b \in Int : In(b, content') <=> In(b, content) \/ In(b, packet)
  <2>1. ~outCut /\ ~(took < Len(packet))
    BY <1>1, <1>10, Zenon
  <2>2. took = Len(packet)
    BY <1>2, <2>1
  <2>3. \A b \in Int : In(b, part) <=> In(b, packet)
    BY <1>3, <2>2 DEF In
  <2>4. \A b \in Int : In(b, content') <=> In(b, content) \/ In(b, part)
    BY <1>2, <1>3, <1>6, ConcatParts
  <2> QED BY <2>1, <2>3, <2>4
<1> QED BY <1>7, <1>8, <1>9, <1>10

\* Null packets are no bytes of the service.
LEMMA PadOrder ==
  ASSUME TypeOK, Ordered, Covered, Pad
  PROVE  Ordered' /\ Covered'
<1>1. Put(Made(1)) /\ UNCHANGED <<sent, inLost, inbuf, mpc, buf, first>>
  BY DEF Pad, curlVars
<1>2. 1 \in Nat
  OBVIOUS
<1>3. /\ content \in Seq(Int) /\ buf \in Seq(Int) /\ inbuf \in Seq(Int) /\ sent \in Nat
  BY Bytes
<1>4. /\ Made(1) \in Seq(Int) /\ Rising(Made(1)) /\ Below(Made(1), sent)
      /\ \A u \in Seq(Int) : Before(u, Made(1)) /\ Before(Made(1), u)
      /\ \A b \in Nat : ~In(b, Made(1))
  BY <1>2, <1>3, MadeOrder
<1>5. /\ Rising(content') /\ Below(content', sent)
      /\ \A u \in Seq(Int) : Before(content, u) => Before(content', u)
      /\ ~outCut' =>
           ~outCut /\ \A b \in Int : In(b, content') <=> In(b, content) \/ In(b, Made(1))
  <2>1. Rising(content) /\ Below(content, sent)
    BY DEF Ordered
  <2> QED BY <1>1, <1>3, <1>4, <2>1, PutOrder, Zenon
<1>6. Ordered'
  BY <1>1, <1>3, <1>5 DEF Ordered
<1>7. ~outCut' => ~outCut /\ \A b \in Nat : In(b, content') <=> In(b, content)
  BY <1>4, <1>5
<1>8. Front' = Front
  BY <1>1 DEF Front
<1>9. Covered'
  <2> SUFFICES ASSUME ~inLost, ~outCut'
               PROVE  /\ Front \in Nat /\ Packs(Front)
                      /\ \A i \in 1..Len(inbuf) : inbuf[i] = Front + i - 1
                      /\ \A b \in 0..Front - 1 :
                           In(b, content') \/ In(b, buf) <=> first <= b /\ Passes(b)
                      /\ mpc \in {"init", "sync"} => first = StreamLen
                      /\ mpc \in {"read", "emit"} => first <= Front
    BY <1>1, <1>8, Zenon DEF Covered
  <2>1. /\ Front \in Nat /\ Packs(Front)
        /\ \A i \in 1..Len(inbuf) : inbuf[i] = Front + i - 1
        /\ \A b \in 0..Front - 1 : In(b, content) \/ In(b, buf) <=> first <= b /\ Passes(b)
        /\ mpc \in {"init", "sync"} => first = StreamLen
        /\ mpc \in {"read", "emit"} => first <= Front
    BY <1>7, Zenon DEF Covered
  <2>2. \A b \in 0..Front - 1 : b \in Nat
    BY <2>1
  <2> QED BY <1>7, <2>1, <2>2
<1> QED BY <1>6, <1>9

\* The packet at the front of sv->buf is the next one to be output.
LEMMA EmitPacketOrder ==
  ASSUME TypeOK, Ordered, Covered, EmitPacket
  PROVE  Ordered' /\ Covered'
<1> DEFINE v == SubSeq(buf, 1, P)
<1>1. /\ Put(v) /\ mpc = "emit" /\ mpc' \in {"read", "emit"}
      /\ buf' = SubSeq(buf, P + 1, Len(buf))
      /\ UNCHANGED <<sent, inLost, inbuf, first>>
  BY DEF EmitPacket, curlVars
<1>2. /\ content \in Seq(Int) /\ buf \in Seq(Int) /\ inbuf \in Seq(Int)
      /\ sent \in Nat /\ sent \in Int
  BY Bytes
<1>3. P \in 0..Len(buf) /\ v \in Seq(Int) /\ buf' \in Seq(Int)
  BY <1>1, FrontParts
<1>4. /\ Rising(v) /\ Rising(buf') /\ Before(v, buf')
      /\ \A u \in Seq(Int) : Before(u, buf) => Before(u, v) /\ Before(u, buf')
      /\ \A u \in Seq(Int) : Before(buf, u) => Before(v, u) /\ Before(buf', u)
      /\ \A m \in Int : Below(buf, m) => Below(v, m) /\ Below(buf', m)
      /\ \A b \in Int : In(b, buf) <=> In(b, v) \/ In(b, buf')
  <2> DEFINE w == SubSeq(buf, P + 1, Len(buf))
  <2>1. Rising(buf)
    BY DEF Ordered
  <2>2. /\ Rising(v) /\ Rising(w) /\ Before(v, w)
        /\ \A u \in Seq(Int) : Before(u, buf) => Before(u, v) /\ Before(u, w)
        /\ \A u \in Seq(Int) : Before(buf, u) => Before(v, u) /\ Before(w, u)
        /\ \A m \in Int : Below(buf, m) => Below(v, m) /\ Below(w, m)
        /\ \A b \in Int : In(b, buf) <=> In(b, v) \/ In(b, w)
    BY <1>2, <1>3, <2>1, CutOrder, Zenon
  <2> QED BY <1>1, <2>2, Zenon
<1> HIDE DEF v
<1>5. /\ Before(content, v) /\ Before(content, buf') /\ Before(v, inbuf)
      /\ Before(buf', inbuf) /\ Below(v, sent) /\ Below(buf', sent)
  BY <1>2, <1>4 DEF Ordered
<1>6. /\ Rising(content') /\ Below(content', sent)
      /\ \A u \in Seq(Int) : Before(content, u) /\ Before(v, u) => Before(content', u)
      /\ ~outCut' =>
           ~outCut /\ \A b \in Int : In(b, content') <=> In(b, content) \/ In(b, v)
  <2>1. Rising(content) /\ Below(content, sent)
    BY DEF Ordered
  <2> QED BY <1>1, <1>3, <1>4, <1>5, <2>1, PutOrder, Zenon
<1>7. Ordered'
  BY <1>1, <1>2, <1>3, <1>4, <1>5, <1>6 DEF Ordered
<1>8. ~outCut' =>
        ~outCut /\ \A b \in Int : In(b, content') \/ In(b, buf') <=> In(b, content) \/ In(b, buf)
  BY <1>4, <1>6
<1>9. Front' = Front
  BY <1>1 DEF Front
<1>10. Covered'
  <2> SUFFICES ASSUME ~inLost, ~outCut'
               PROVE  /\ Front \in Nat /\ Packs(Front)
                      /\ \A i \in 1..Len(inbuf) : inbuf[i] = Front + i - 1
                      /\ \A b \in 0..Front - 1 :
                           In(b, content') \/ In(b, buf') <=> first <= b /\ Passes(b)
                      /\ first <= Front
    BY <1>1, <1>9, Zenon DEF Covered
  <2>1. /\ Front \in Nat /\ Packs(Front)
        /\ \A i \in 1..Len(inbuf) : inbuf[i] = Front + i - 1
        /\ \A b \in 0..Front - 1 : In(b, content) \/ In(b, buf) <=> first <= b /\ Passes(b)
        /\ first <= Front
    BY <1>1, <1>8, Zenon DEF Covered
  <2>2. \A b \in 0..Front - 1 : b \in Int
    BY <2>1
  <2> QED BY <1>8, <2>1, <2>2
<1> QED BY <1>7, <1>10

\* output_thread only takes from outbuf.
LEMMA OutputOrder ==
  ASSUME Ordered, Covered, Output \/ UNCHANGED vars
  PROVE  Ordered' /\ Covered'
<1>1. UNCHANGED <<curlVars, muxVars, inbuf>>
  BY DEF Output, Open, Start, ReadBlock, Write, WriteNothing, vars
<1> QED BY <1>1 DEF Ordered, Covered, Front, curlVars, muxVars

LEMMA OrderInvariant == Spec => [](Ordered /\ Covered)
<1>1. Init => Ordered /\ Covered
  <2> SUFFICES ASSUME Init PROVE Ordered /\ Covered
    OBVIOUS
  <2>1. /\ sent = 0 /\ mpc = "init" /\ first = StreamLen /\ Len(inbuf) = 0
        /\ 1..Len(content) = {} /\ 1..Len(buf) = {} /\ 1..Len(inbuf) = {}
    BY EmptySeq DEF Init
  <2>2. Ordered
    BY <2>1, SMTT(30) DEF Ordered, Rising, Before, Below
  <2>3. Front = 0 /\ Packs(0)
    <3>1. P \in Nat /\ P > 0 /\ 0 \in 0..P - 1
      BY SizesAssumption
    <3> QED BY <2>1, <3>1, ModSmall DEF Front, Packs
  <2>4. 0..Front - 1 = {}
    BY <2>3
  <2> QED BY <2>1, <2>2, <2>3, <2>4 DEF Covered
<1>2. TypeOK /\ (Ordered /\ Covered) /\ [Next]_vars => (Ordered /\ Covered)'
  <2> SUFFICES ASSUME TypeOK, Ordered, Covered, [Next]_vars
               PROVE  Ordered' /\ Covered'
    OBVIOUS
  <2>1. ASSUME NEW n \in ChunkSizes, Receive(n) PROVE Ordered' /\ Covered'
    BY <2>1, ReceiveOrder
  <2>2. CASE InitService
    <3>1. /\ TakePacket /\ mpc = "init" /\ mpc' \in {"init", "sync"}
          /\ UNCHANGED <<sent, inLost, outCut, content, buf, first>>
      BY <2>2 DEF InitService, curlVars
    <3> QED BY <2>2, <3>1, DroppedCovered, ReadingOrder
  <2>3. ASSUME NEW kind \in Kinds, SyncToPcr(kind) PROVE Ordered' /\ Covered'
    BY <2>3, SyncCovered, ReadingOrder
  <2>4. ASSUME NEW kind \in Kinds, ReadToNextPcr(kind) PROVE Ordered' /\ Covered'
    BY <2>4, ReadCovered, ReadingOrder
  <2>5. CASE Pad \/ EmitPacket
    BY <2>5, PadOrder, EmitPacketOrder
  <2>6. CASE Output \/ UNCHANGED vars
    BY <2>6, OutputOrder
  <2> QED BY <2>1, <2>2, <2>3, <2>4, <2>5, <2>6 DEF Next, Mux
<1> QED BY <1>1, <1>2, TypeCorrect, PTL DEF Spec

\* Way is the three places in turn.
LEMMA WayParts ==
  ASSUME TypeOK
  PROVE  /\ content \o buf \in Seq(Int) /\ Way \in Seq(Int)
         /\ Way = (content \o buf) \o inbuf
<1>1. content \in Seq(Int) /\ buf \in Seq(Int) /\ inbuf \in Seq(Int)
  BY Bytes
<1>2. content \o buf \in Seq(Int)
  BY <1>1, Joined
<1>3. Way = (content \o buf) \o inbuf
  BY DEF Way
<1> QED BY <1>1, <1>2, <1>3, Joined

\* Whatever rb_write drops in curl_callback or in mux_thread, no byte of a
\* service is output twice or after a later one.
THEOREM NothingOvertakes == Spec => []InOrder
<1>1. TypeOK /\ Ordered => InOrder
  <2> SUFFICES ASSUME TypeOK, Ordered PROVE InOrder
    OBVIOUS
  <2>1. content \in Seq(Int) /\ buf \in Seq(Int) /\ inbuf \in Seq(Int)
    BY Bytes
  <2>2. Rising(content \o buf)
    BY <2>1, RisingConcat DEF Ordered
  <2>3. Before(content \o buf, inbuf)
    BY <2>1, ConcatParts DEF Ordered
  <2>4. Rising((content \o buf) \o inbuf)
    BY <2>1, <2>2, <2>3, WayParts, RisingConcat DEF Ordered
  <2> QED BY <2>4, WayParts DEF InOrder, Rising
<1> QED BY <1>1, TypeCorrect, OrderInvariant, PTL

\* As long as both rb_writes take all they are given, mux_thread passes on the
\* mapped packets from the first PCR on and no other, whatever the buffer it
\* collects them in, and has what it has not read still before it.
THEOREM OnlyMappedPass == Spec => []Intact
<1>1. TypeOK /\ Covered => Intact
  <2> SUFFICES ASSUME TypeOK, Covered, ~inLost, ~outCut, NEW b \in 0..sent - 1
               PROVE  IF b < sent - Len(inbuf)
                        THEN In(b, content \o buf) <=> first <= b /\ Passes(b)
                        ELSE In(b, inbuf)
    BY DEF Intact, In
  <2>1. /\ content \in Seq(Int) /\ buf \in Seq(Int) /\ b \in Int
        /\ Len(inbuf) \in Nat /\ sent \in Nat
    BY Bytes
  <2>2. /\ Front \in Nat /\ \A i \in 1..Len(inbuf) : inbuf[i] = Front + i - 1
        /\ \A c \in 0..Front - 1 : In(c, content) \/ In(c, buf) <=> first <= c /\ Passes(c)
    BY Zenon DEF Covered
  <2>3. CASE b < Front
    <3>1. b \in 0..Front - 1
      BY <2>1, <2>2, <2>3
    <3>2. In(b, content \o buf) <=> In(b, content) \/ In(b, buf)
      BY <2>1, ConcatParts
    <3> QED BY <2>2, <2>3, <3>1, <3>2 DEF Front
  <2>4. CASE ~(b < Front)
    <3>1. b - Front + 1 \in 1..Len(inbuf) /\ Front + (b - Front + 1) - 1 = b
      BY <2>1, <2>2, <2>4 DEF Front
    <3>2. inbuf[b - Front + 1] = b
      BY <2>2, <3>1
    <3>3. In(b, inbuf)
      BY <3>1, <3>2 DEF In
    <3> QED BY <2>4, <3>3 DEF Front
  <2> QED BY <2>3, <2>4
<1> QED BY <1>1, TypeCorrect, OrderInvariant, PTL

-----------------------------------------------------------------------------
(* Packets stay packets.                                                   *)

\* Byte i of s is byte i of a packet, or of a row of packets.
InPhase(s) == \A i \in 1..Len(s) : s[i] % P = (i - 1) % P

\* What mux_thread reads next is the beginning of a packet, what it keeps is
\* packets, and outbuf ends with the end of one.
Phased ==
  /\ ~inSkew => InPhase(buf) /\ InPhase(inbuf) /\ Len(inbuf) % P = sent % P
  /\ ~outCut => Packs(Len(content))

\* Packets one after the other.
LEMMA JoinPhase ==
  ASSUME NEW s \in Seq(Int), NEW t \in Seq(Int), Packs(Len(s)), InPhase(s), InPhase(t)
  PROVE  InPhase(s \o t)
<1> DEFINE st == s \o t
<1>1. /\ Len(s) \in Nat /\ Len(t) \in Nat /\ Len(st) = Len(s) + Len(t)
      /\ \A i \in 1..Len(s) : st[i] = s[i]
      /\ \A i \in 1..Len(st) :
           \/ i \in 1..Len(s)
           \/ i - Len(s) \in 1..Len(t) /\ st[i] = t[i - Len(s)]
  BY Joined
<1> HIDE DEF st
<1>2. P \in Nat /\ P > 0
  BY SizesAssumption
<1>3. ASSUME NEW i \in 1..Len(st) PROVE st[i] % P = (i - 1) % P
  <2>1. CASE i \in 1..Len(s)
    BY <1>1, <2>1 DEF InPhase
  <2>2. CASE i \notin 1..Len(s)
    <3> DEFINE c == i - Len(s) - 1
    <3>1. /\ c \in Int /\ c + 1 \in 1..Len(t) /\ i - Len(s) = c + 1
          /\ Len(s) + c = i - 1 /\ (c + 1) - 1 = 0 + c
      BY <1>1, <2>2
    <3>2. st[i] = t[c + 1]
      BY <1>1, <2>2, <3>1
    <3> HIDE DEF c
    <3>3. t[c + 1] % P = ((c + 1) - 1) % P
      BY <3>1, Zenon DEF InPhase
    <3>4. Len(s) % P = 0 % P
      <4>1. 0 \in 0..P - 1
        BY <1>2
      <4>2. 0 % P = 0
        BY <1>2, <4>1, ModSmall
      <4> QED BY <4>2, Zenon DEF Packs
    <3>5. (Len(s) + c) % P = (0 + c) % P
      <4>1. Len(s) \in Int /\ 0 \in Int
        BY <1>1
      <4> QED BY <1>2, <3>1, <3>4, <4>1, ModPlus, Zenon
    <3> QED BY <3>1, <3>2, <3>3, <3>5, Zenon
  <2> QED BY <2>1, <2>2
<1> QED BY <1>3 DEF InPhase, st

\* The packet at the front of a sequence, and the others.
LEMMA CutPhase ==
  ASSUME NEW s \in Seq(Int), NEW n \in 0..Len(s), n = P, InPhase(s)
  PROVE  InPhase(SubSeq(s, 1, n)) /\ InPhase(SubSeq(s, n + 1, Len(s)))
<1> DEFINE v == SubSeq(s, 1, n)
           w == SubSeq(s, n + 1, Len(s))
<1>1. /\ Len(v) = n /\ Len(w) = Len(s) - n /\ Len(s) \in Nat
      /\ \A i \in 1..n : i \in 1..Len(s) /\ v[i] = s[i]
      /\ \A i \in 1..Len(s) - n : n + i \in 1..Len(s) /\ w[i] = s[n + i]
  BY Split, LenProperties, SMTT(30)
<1> HIDE DEF v, w
<1>2. /\ Len(v) = P /\ Len(w) = Len(s) - P
      /\ \A i \in 1..P : i \in 1..Len(s) /\ v[i] = s[i]
      /\ \A i \in 1..Len(s) - P : P + i \in 1..Len(s) /\ w[i] = s[P + i]
  BY <1>1, Zenon
<1>3. P \in Nat /\ P > 0
  BY SizesAssumption
<1>4. InPhase(v)
  BY <1>2, Zenon DEF InPhase
<1>5. ASSUME NEW i \in 1..Len(w) PROVE w[i] % P = (i - 1) % P
  <2>1. P + i \in 1..Len(s) /\ w[i] = s[P + i]
    BY <1>2, Zenon
  <2>2. w[i] % P = ((P + i) - 1) % P
    BY <2>1, Zenon DEF InPhase
  <2> DEFINE x == i - 1
  <2>3. x \in Int /\ (P + i) - 1 = x + P
    BY <1>3
  <2>4. (x + P) % P = x % P
    BY <1>3, <2>3, ModPeriod, Zenon
  <2> QED BY <2>2, <2>3, <2>4, Zenon
<1> QED BY <1>4, <1>5 DEF InPhase, v, w

LEMMA MadePhase ==
  ASSUME NEW n \in Nat
  PROVE  InPhase(Made(n))
<1>1. P \in Nat /\ P > 0
  BY SizesAssumption
<1>2. Len(Made(n)) \in Nat
  BY MadeBytes, LenProperties
<1>3. ASSUME NEW i \in 1..Len(Made(n)) PROVE Made(n)[i] % P = (i - 1) % P
  <2>1. PICK r \in 0..P - 1 : r = (i - 1) % P
    BY <1>1, <1>2, DivMod
  <2>2. Made(n)[i] = r - P
    BY <2>1, MadeBytes
  <2>3. r \in Int
    BY <1>1
  <2>4. (r - P) % P = r % P
    BY <1>1, <2>3, ModPeriod, Zenon
  <2>5. r % P = r
    BY <1>1, ModSmall, Zenon
  <2> QED BY <2>1, <2>2, <2>4, <2>5, Zenon
<1> QED BY <1>3 DEF InPhase

LEMMA ReceivePhase ==
  ASSUME TypeOK, Phased, NEW n \in ChunkSizes, Receive(n)
  PROVE  Phased'
<1>1. PICK took \in 0..n :
           /\ took = Fitting(n, InSize - Len(inbuf))
           /\ inbuf' \in Seq(Nat) /\ Len(inbuf') = Len(inbuf) + took
           /\ \A i \in 1..Len(inbuf) : inbuf'[i] = inbuf[i]
           /\ \A i \in 1..took : inbuf'[Len(inbuf) + i] = sent + i - 1
           /\ \A i \in 1..Len(inbuf') :
                i \in 1..Len(inbuf) \/ i - Len(inbuf) \in 1..took
  BY ReceiveParts
<1>2. /\ sent' = sent + n /\ inSkew' = (inSkew \/ (n - took) % P # 0)
      /\ content' = content /\ buf' = buf /\ outCut' = outCut
  BY <1>1 DEF Receive, muxVars
<1>3. /\ sent \in Nat /\ n \in Nat /\ took \in Nat /\ Len(inbuf) \in Nat
      /\ P \in Nat /\ P > 0
  BY Bytes, SizesAssumption
<1>4. SUFFICES ASSUME ~inSkew'
               PROVE  InPhase(inbuf') /\ Len(inbuf') % P = sent' % P
  BY <1>2 DEF Phased, InPhase
<1>5. ~inSkew /\ (n - took) % P = 0
  BY <1>2, <1>4, Zenon
<1>6. InPhase(inbuf) /\ Len(inbuf) % P = sent % P
  BY <1>5 DEF Phased
<1>7. InPhase(inbuf')
  <2> SUFFICES ASSUME NEW i \in 1..Len(inbuf') PROVE inbuf'[i] % P = (i - 1) % P
    BY DEF InPhase
  <2>1. CASE i \in 1..Len(inbuf)
    BY <1>1, <1>6, <2>1 DEF InPhase
  <2>2. CASE i - Len(inbuf) \in 1..took
    <3> DEFINE c == i - Len(inbuf) - 1
    <3>1. c \in Int /\ c + 1 \in 1..took /\ Len(inbuf) + (c + 1) = i /\ Len(inbuf) + c = i - 1
      BY <1>3, <2>2
    <3> HIDE DEF c
    <3>2. inbuf'[i] = sent + (c + 1) - 1
      BY <1>1, <3>1
    <3>3. (Len(inbuf) + c) % P = (sent + c) % P
      <4>1. Len(inbuf) \in Int /\ sent \in Int
        BY <1>3
      <4> QED BY <1>3, <1>6, <3>1, <4>1, ModPlus, Zenon
    <3>4. inbuf'[i] = sent + c
      BY <1>3, <3>1, <3>2
    <3> QED BY <3>1, <3>3, <3>4
  <2> QED BY <1>1, <2>1, <2>2
<1>8. Len(inbuf') % P = sent' % P
  <2> DEFINE k == (n - took) \div P
             x == sent + took
  <2>1. k \in Int /\ n - took = P * k
    <3>1. n - took \in Int
      BY <1>3
    <3>2. k \in Int /\ n - took = P * k + ((n - took) % P)
      BY <1>3, <3>1, DivMod
    <3> HIDE DEF k
    <3>3. P * k \in Int
      BY <1>3, <3>2
    <3> QED BY <1>5, <3>2, <3>3
  <2> HIDE DEF k
  <2>2. (Len(inbuf) + took) % P = x % P
    <3>1. Len(inbuf) \in Int /\ sent \in Int /\ took \in Int
      BY <1>3
    <3> QED BY <1>3, <1>6, <3>1, ModPlus, Zenon
  <2>3. x \in Int /\ x + P * k = sent + n
    BY <1>3, <2>1
  <2> HIDE DEF x
  <2>4. (x + P * k) % P = x % P
    BY <1>3, <2>1, <2>3, ModMultiple
  <2> QED BY <1>1, <1>2, <2>2, <2>3, <2>4
<1> QED BY <1>7, <1>8

\* What is read from inbuf, and what stays there.
LEMMA TakePhase ==
  ASSUME TypeOK, InPhase(inbuf), Len(inbuf) % P = sent % P, TakePacket
  PROVE  InPhase(Packet) /\ InPhase(inbuf') /\ Len(inbuf') % P = sent % P
<1>1. /\ Packet = SubSeq(inbuf, 1, P) /\ inbuf' = SubSeq(inbuf, P + 1, Len(inbuf))
      /\ P \in 0..Len(inbuf) /\ Len(inbuf') = Len(inbuf) - P
  BY TakeParts
<1>2. P \in Nat /\ P > 0 /\ Len(inbuf) \in Int /\ inbuf \in Seq(Int)
  BY Bytes, SizesAssumption
<1>3. /\ InPhase(SubSeq(inbuf, 1, P))
      /\ InPhase(SubSeq(inbuf, P + 1, Len(inbuf)))
  BY <1>1, <1>2, CutPhase, Zenon
<1>4. (Len(inbuf) - P) % P = Len(inbuf) % P
  BY <1>2, ModPeriod, Zenon
<1> QED BY <1>1, <1>3, <1>4, Zenon

LEMMA ReadingPhase ==
  ASSUME TypeOK, Phased,
         InitService \/ \E kind \in Kinds : SyncToPcr(kind) \/ ReadToNextPcr(kind)
  PROVE  Phased' /\ UNCHANGED <<content, outCut, inSkew>>
<1>1. TakePacket /\ UNCHANGED <<sent, inSkew, content, outCut>>
  BY DEF InitService, SyncToPcr, ReadToNextPcr, curlVars
<1>2. SUFFICES ASSUME ~inSkew
               PROVE  InPhase(buf') /\ InPhase(inbuf') /\ Len(inbuf') % P = sent % P
  BY <1>1 DEF Phased
<1>3. InPhase(buf) /\ InPhase(inbuf) /\ Len(inbuf) % P = sent % P
  BY <1>2, Zenon DEF Phased
<1>4. InPhase(Packet) /\ InPhase(inbuf') /\ Len(inbuf') % P = sent % P
  BY <1>1, <1>3, TakePhase, Zenon
<1>5. ASSUME NEW kind \in Kinds, ReadToNextPcr(kind) PROVE InPhase(buf')
  <2>1. PICK n \in 0..MaxMade - made : buf' = buf \o Stored(kind, n)
    BY <1>5 DEF ReadToNextPcr
  <2>2. n \in Nat
    BY <2>1
  <2>3. InPhase(Stored(kind, n))
    BY <1>4, <2>2, MadePhase, Zenon DEF Stored
  <2>4. Stored(kind, n) \in Seq(Int) /\ buf \in Seq(Int)
    BY <1>1, <2>2, StoredParts, Bytes
  <2>5. Packs(Len(buf))
    BY Zenon DEF TypeOK, Packs
  <2> QED BY <1>3, <2>1, <2>3, <2>4, <2>5, JoinPhase, Zenon
<1>6. CASE buf' = buf \/ buf' = Packet
  BY <1>3, <1>4, <1>6, Zenon
<1> QED BY <1>4, <1>5, <1>6 DEF InitService, SyncToPcr

\* What is put into outbuf.
LEMMA PutPhase ==
  ASSUME TypeOK, Phased, NEW packet \in Seq(Int), Len(packet) = P, Put(packet), ~outCut'
  PROVE  /\ ~outCut /\ Packs(Len(content'))
         /\ InPhase(content) /\ InPhase(packet) => InPhase(content')
<1>1. PICK took \in 0..Len(packet) :
           /\ content' = content \o SubSeq(packet, 1, took)
           /\ Len(content') = Len(content) + took
           /\ outCut' = (outCut \/ took < Len(packet))
  BY PutParts
<1>2. P \in Nat /\ P > 0 /\ content \in Seq(Int) /\ Len(content) \in Int
  BY Bytes, SizesAssumption
<1>3. took = P /\ ~outCut
  <2>1. ~outCut /\ ~(took < Len(packet))
    BY <1>1, Zenon
  <2> QED BY <1>2, <2>1
<1>4. SubSeq(packet, 1, took) = packet
  <2>1. Len(packet) = took
    BY <1>3
  <2> QED BY <2>1, SubSeqFull, Zenon
<1>5. Packs(Len(content))
  BY <1>3 DEF Phased
<1>6. Packs(Len(content'))
  <2>1. (Len(content) + P) % P = Len(content) % P
    BY <1>2, ModPeriod, Zenon
  <2> QED BY <1>1, <1>3, <1>5, <2>1, Zenon DEF Packs
<1>7. content' = content \o packet
  BY <1>1, <1>4
<1> QED BY <1>2, <1>3, <1>5, <1>6, <1>7, JoinPhase, Zenon

LEMMA PhaseInvariant == Spec => [](Phased /\ Aligned)
<1>1. Init => Phased /\ Aligned
  <2> SUFFICES ASSUME Init PROVE Phased /\ Aligned
    OBVIOUS
  <2>1. /\ sent = 0 /\ Len(content) = 0 /\ Len(buf) = 0 /\ Len(inbuf) = 0
    BY EmptySeq DEF Init
  <2>2. 0 % P = 0
    BY SizesAssumption, ModSmall
  <2> QED BY <2>1, <2>2 DEF Phased, Packs, Aligned, InPhase
<1>2. TypeOK /\ (Phased /\ Aligned) /\ [Next]_vars => (Phased /\ Aligned)'
  <2> SUFFICES ASSUME TypeOK, Phased, Aligned, [Next]_vars
               PROVE  Phased' /\ Aligned'
    OBVIOUS
  <2>1. ASSUME NEW n \in ChunkSizes, Receive(n) PROVE Phased' /\ Aligned'
    <3>1. content' = content /\ outCut' = outCut /\ (~inSkew' => ~inSkew)
      BY <2>1, Zenon DEF Receive, muxVars
    <3>2. Aligned'
      BY <3>1, Zenon DEF Aligned
    <3> QED BY <2>1, <3>2, ReceivePhase
  <2>2. CASE InitService \/ \E kind \in Kinds : SyncToPcr(kind) \/ ReadToNextPcr(kind)
    BY <2>2, ReadingPhase, Zenon DEF Aligned
  <2>3. CASE Pad
    <3>1. Put(Made(1)) /\ UNCHANGED <<sent, inSkew, buf, inbuf>>
      BY <2>3 DEF Pad, curlVars
    <3>2. InPhase(Made(1))
      BY MadePhase
    <3>3. ~outCut' => ~outCut /\ Packs(Len(content')) /\ (InPhase(content) => InPhase(content'))
      BY <3>1, <3>2, OneMade, PutPhase, Zenon
    <3>4. Phased'
      BY <3>1, <3>3 DEF Phased
    <3>5. Aligned'
      BY <3>1, <3>3, Zenon DEF Aligned, InPhase
    <3> QED BY <3>4, <3>5
  <2>4. CASE EmitPacket
    <3> DEFINE v == SubSeq(buf, 1, P)
               w == SubSeq(buf, P + 1, Len(buf))
    <3>1. /\ Put(v) /\ mpc = "emit" /\ buf' = w /\ UNCHANGED <<sent, inSkew, inbuf>>
      BY <2>4 DEF EmitPacket, curlVars
    <3>2. /\ P \in 0..Len(buf) /\ buf \in Seq(Int) /\ v \in Seq(Int) /\ Len(v) = P
      BY <3>1, FrontParts
    <3>3. ~inSkew => InPhase(v) /\ InPhase(w)
      BY <3>2, CutPhase, Zenon DEF Phased
    <3> HIDE DEF v, w
    <3>4. ~outCut' => /\ ~outCut /\ Packs(Len(content'))
                      /\ InPhase(content) /\ InPhase(v) => InPhase(content')
      BY <3>1, <3>2, PutPhase, Zenon
    <3>5. Phased'
      BY <3>1, <3>3, <3>4 DEF Phased
    <3>6. Aligned'
      BY <3>1, <3>3, <3>4, Zenon DEF Aligned, InPhase
    <3> QED BY <3>5, <3>6
  <2>5. CASE Output \/ UNCHANGED vars
    <3>1. UNCHANGED <<curlVars, muxVars, inbuf>>
      BY <2>5 DEF Output, Open, Start, ReadBlock, Write, WriteNothing, vars
    <3> QED BY <3>1 DEF Phased, Aligned, InPhase, curlVars, muxVars
  <2> QED BY <2>1, <2>2, <2>3, <2>4, <2>5 DEF Next, Mux
<1> QED BY <1>1, <1>2, TypeCorrect, PTL DEF Spec

\* Unless bytes are dropped that are no whole packets, the output consists of
\* whole packets, however curl cuts the stream into chunks.
THEOREM PacketsStayWhole == Spec => []Aligned
BY PhaseInvariant, PTL
=============================================================================
