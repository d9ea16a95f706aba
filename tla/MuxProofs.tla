----------------------------- MODULE MuxProofs -----------------------------
(***************************************************************************)
(* Proofs about the main output loop, for every number of services and     *)
(* every choice of streams, periods and capacity.                          *)
(*                                                                         *)
(* Beside the types there are four invariants.  Queued: the packets in a   *)
(* buffer are consecutive and the next one is the one after the latest     *)
(* output.  Rises: the positions in a buffer do not fall.  Scheduled: the  *)
(* last of them belongs to the PCR read last, which is what makes a        *)
(* refill, which computes the position of the kept packet anew, leave it   *)
(* where it was.  Timely: whatever waits is due no earlier than what has   *)
(* been output, a table no later than a period after it.                   *)
(***************************************************************************)
EXTENDS Mux, Arithmetic, SequenceTheorems

-----------------------------------------------------------------------------
(* Positions.                                                              *)

\* CDiv is a number, and is exact on multiples whatever their sign.
LEMMA CDivInt ==
  ASSUME NEW a \in Int, NEW b \in Nat, b > 0
  PROVE  CDiv(a, b) \in Int
<1>1. a \div b \in Int
  BY DivMod
<1>2. -a \in Int /\ (-a) \div b \in Int
  BY DivMod
<1> QED BY <1>1, <1>2 DEF CDiv

LEMMA CDivExact ==
  ASSUME NEW q \in Int, NEW b \in Nat, b > 0
  PROVE  CDiv(b * q, b) = q
<1>1. (b * q) \div b = q
  BY DivExact
<1>2. -q \in Int /\ (b * (-q)) \div b = -q
  <2>1. -q \in Int
    OBVIOUS
  <2> QED BY <2>1, DivExact
<1>3. -(b * q) = b * (-q) /\ -(-q) = q
  OBVIOUS
<1>4. (-(b * q)) \div b = -q
  BY <1>2, <1>3
<1> QED BY <1>1, <1>3, <1>4 DEF CDiv

\* On numbers that are not negative CDiv keeps the order.
LEMMA CDivMonotone ==
  ASSUME NEW x \in Int, NEW y \in Int, 0 <= x, x <= y, NEW b \in Nat, b > 0
  PROVE  0 <= CDiv(x, b) /\ CDiv(x, b) <= CDiv(y, b)
<1>1. CDiv(x, b) = x \div b /\ CDiv(y, b) = y \div b
  BY DEF CDiv
<1>2. x \div b <= y \div b
  BY DivMonotone
<1>3. 0 <= x \div b
  <2>1. b * 0 <= x
    OBVIOUS
  <2> QED BY <2>1, DivAtLeast
<1> QED BY <1>1, <1>2, <1>3

LEMMA WrapInt ==
  ASSUME NEW x \in Int
  PROVE  Wrap64(x) \in Int
<1>1. Int64 \in Nat /\ Int64 > 0
  BY StreamAssumption
<1>2. Int64 \div 2 \in Int /\ x + (Int64 \div 2) \in Int
  BY <1>1
<1>3. (x + (Int64 \div 2)) % Int64 \in Int
  BY <1>1, <1>2, DivMod
<1> QED BY <1>2, <1>3 DEF Wrap64

\* What int64_t holds does not wrap.
LEMMA WrapIdentity ==
  ASSUME NEW x \in Nat, x < Int64 \div 2
  PROVE  Wrap64(x) = x
<1> DEFINE h == Int64 \div 2
<1>1. Int64 \in Nat /\ Int64 > 0 /\ h \in Int /\ 2 * h <= Int64 /\ 0 <= h
  BY StreamAssumption
<1>2. x < h
  OBVIOUS
<1>3. Wrap64(x) = ((x + h) % Int64) - h
  BY DEF Wrap64
<1> HIDE DEF h
<1>4. x + h \in 0..Int64 - 1
  BY <1>1, <1>2
<1>5. (x + h) % Int64 = x + h
  BY <1>1, <1>4, ModSmall
<1> QED BY <1>1, <1>3, <1>5

\* The position of a packet is a number.
LEMMA PositionInt ==
  ASSUME NEW first \in Int, NEW second \in Int, NEW start \in Int,
         NEW j \in Int, NEW n \in Nat, n > 1
  PROVE  Position(first, second, start, j, n) \in Int
<1> DEFINE a == CDiv(j * (second - first), n - 1)
           x == (first + a - start) * Capacity
<1>1. a \in Int
  <2>1. j * (second - first) \in Int /\ n - 1 \in Nat /\ n - 1 > 0
    OBVIOUS
  <2> QED BY <2>1, CDivInt
<1>2. Capacity \in Int /\ Clock \in Nat /\ Clock > 0
  BY StreamAssumption
<1> HIDE DEF a
<1>3. x \in Int
  BY <1>1, <1>2
<1> HIDE DEF x
<1>4. Wrap64(x) \in Int
  BY <1>3, WrapInt
<1>5. CDiv(Wrap64(x), Clock) \in Int
  BY <1>2, <1>4, CDivInt
<1> QED BY <1>5 DEF Position, x, a

\* Where a PCR of a service goes: what mux_thread computes for its packet.
PcrPosition(pcr, start) == CDiv(Wrap64((pcr - start) * Capacity), Clock)

\* The first packet is at the position of the first PCR, the last at that of
\* the second, whether or not the PCR has wrapped in between.
LEMMA PositionEnds ==
  ASSUME NEW first \in Int, NEW second \in Int, NEW start \in Int,
         NEW n \in Nat, n > 1
  PROVE  /\ Position(first, second, start, 0, n) = PcrPosition(first, start)
         /\ Position(first, second, start, n - 1, n) = PcrPosition(second, start)
<1> DEFINE m == n - 1
           d == second - first
<1>1. m \in Nat /\ m > 0 /\ d \in Int
  OBVIOUS
<1>2. CDiv(0 * d, m) = 0
  <2>1. 0 * d = m * 0
    BY <1>1
  <2> QED BY <1>1, <2>1, CDivExact
<1>3. CDiv(m * d, m) = d
  BY <1>1, CDivExact
<1>4. first + 0 - start = first - start /\ first + d - start = second - start
  OBVIOUS
<1> QED BY <1>2, <1>3, <1>4 DEF Position, PcrPosition

\* Between PCRs that have not wrapped the positions do not fall.
LEMMA PositionMonotone ==
  ASSUME NEW first \in Int, NEW second \in Int, NEW start \in Int,
         NEW n \in Nat, n > 1, NEW i \in 0..n - 1, NEW j \in 0..n - 1, i <= j,
         start <= first, first <= second,
         (second - start) * Capacity < Int64 \div 2
  PROVE  Position(first, second, start, i, n) <= Position(first, second, start, j, n)
<1> DEFINE m == n - 1
           d == second - first
           a == CDiv(i * d, m)
           b == CDiv(j * d, m)
           x == (first + a - start) * Capacity
           y == (first + b - start) * Capacity
<1>1. /\ m \in Nat /\ m > 0 /\ d \in Nat /\ i \in Nat /\ j \in Nat
      /\ i <= j /\ j <= m
      /\ Capacity \in Nat /\ Clock \in Nat /\ Clock > 0
  BY StreamAssumption
<1>2. 0 <= a /\ a <= b /\ b <= d /\ a \in Int /\ b \in Int
  <2>1. 0 <= i * d /\ i * d <= j * d /\ j * d <= m * d
    <3>1. 0 * d <= i * d /\ i * d <= j * d /\ j * d <= m * d
      <4> HIDE DEF d, m
      <4> QED BY <1>1, TimesMonotone
    <3> QED BY <1>1, <3>1
  <2>2. i * d \in Int /\ j * d \in Int /\ m * d \in Int
    BY <1>1
  <2>3. CDiv(m * d, m) = d
    BY <1>1, CDivExact
  <2> DEFINE id == i * d
             jd == j * d
             md == m * d
  <2> HIDE DEF id, jd, md, m
  <2>4. /\ 0 <= CDiv(id, m) /\ CDiv(id, m) <= CDiv(jd, m) /\ CDiv(jd, m) <= CDiv(md, m)
        /\ CDiv(id, m) \in Int /\ CDiv(jd, m) \in Int
    <3>1. /\ 0 <= id /\ id <= jd /\ jd <= md /\ 0 <= jd
          /\ id \in Int /\ jd \in Int /\ md \in Int
      BY <2>1, <2>2 DEF id, jd, md
    <3> QED BY <1>1, <3>1, CDivMonotone, CDivInt
  <2> QED BY <2>3, <2>4 DEF id, jd, md
<1> HIDE DEF a, b
<1>3. /\ 0 <= first + a - start /\ first + a - start <= first + b - start
      /\ first + b - start <= second - start
      /\ first + a - start \in Int /\ first + b - start \in Int /\ second - start \in Int
  BY <1>2
<1>4. 0 <= x /\ x <= y /\ y <= (second - start) * Capacity /\ x \in Int /\ y \in Int
  <2> DEFINE u == first + a - start
             v == first + b - start
             w == second - start
  <2>1. 0 <= u /\ u <= v /\ v <= w /\ u \in Int /\ v \in Int /\ w \in Int
    BY <1>3
  <2> HIDE DEF u, v, w
  <2>2. 0 * Capacity <= u * Capacity /\ u * Capacity <= v * Capacity /\ v * Capacity <= w * Capacity
    BY <1>1, <2>1, TimesMonotone
  <2>3. 0 * Capacity = 0 /\ u * Capacity \in Int /\ v * Capacity \in Int
    BY <1>1, <2>1
  <2> QED BY <2>2, <2>3 DEF u, v, w
<1> HIDE DEF x, y
<1>5. Wrap64(x) = x /\ Wrap64(y) = y
  <2>1. /\ (second - start) * Capacity \in Int /\ Int64 \div 2 \in Int
    BY <1>1, StreamAssumption
  <2>2. x \in Nat /\ y \in Nat /\ x < Int64 \div 2 /\ y < Int64 \div 2
    BY <1>4, <2>1
  <2> QED BY <2>2, WrapIdentity
<1>6. CDiv(x, Clock) <= CDiv(y, Clock)
  BY <1>1, <1>4, CDivMonotone
<1> QED BY <1>5, <1>6 DEF Position, x, y, a, b

-----------------------------------------------------------------------------
(* What a refill and an output do.                                         *)

Packets == [kind : Kinds, id : Nat]

\* One place of a function set anew.
LEMMA Updated ==
  ASSUME NEW A, NEW B, NEW f \in [A -> B], NEW x \in A, NEW y \in B
  PROVE  /\ [f EXCEPT ![x] = y] \in [A -> B]
         /\ [f EXCEPT ![x] = y][x] = y
         /\ \A z \in A : z # x => [f EXCEPT ![x] = y][z] = f[z]
OBVIOUS

\* TypeOK, service by service.
LEMMA ServiceTypes ==
  ASSUME TypeOK, NEW s \in Services
  PROVE  /\ buf[s] \in Seq(Packets) /\ bitpos[s] \in Seq(Int)
         /\ Len(buf[s]) \in Nat /\ Len(bitpos[s]) = Len(buf[s])
         /\ packets_written[s] \in Nat /\ packets_written[s] < Len(buf[s])
         /\ packets_written[s] + 1 \in 1..Len(buf[s])
         /\ \A i \in 1..Len(buf[s]) :
              buf[s][i] \in Packets /\ buf[s][i].id \in Nat /\ bitpos[s][i] \in Int
         /\ buf[s][1].id \in Nat /\ sent[s] \in Nat
         /\ start_pcr[s] \in Nat /\ first_pcr[s] \in Nat /\ second_pcr[s] \in Nat
<1>1. /\ buf[s] \in Seq(Packets) /\ bitpos[s] \in Seq(Int)
      /\ Len(bitpos[s]) = Len(buf[s])
      /\ packets_written[s] \in Nat /\ packets_written[s] < Len(buf[s])
  BY DEF TypeOK, Packets
<1>2. /\ Len(buf[s]) \in Nat
      /\ \A i \in 1..Len(buf[s]) : buf[s][i] \in Packets
      /\ \A i \in 1..Len(bitpos[s]) : bitpos[s][i] \in Int
  BY <1>1, LenProperties, ElementOfSeq
<1>3. \A p \in Packets : p.id \in Nat
  BY DEF Packets
<1>4. /\ start_pcr[s] \in Nat /\ first_pcr[s] \in Nat /\ second_pcr[s] \in Nat
      /\ sent[s] \in Nat
  BY StreamAssumption DEF TypeOK
<1>5. packets_written[s] + 1 \in 1..Len(buf[s]) /\ 1 \in 1..Len(buf[s])
  BY <1>1, <1>2, SMTT(30)
<1> QED BY <1>1, <1>2, <1>3, <1>4, <1>5

\* What a service has after read_to_next_pcr.
LEMMA RefillParts ==
  ASSUME TypeOK, NEW s \in Services, NEW chunk \in Chunks, NEW delta \in PcrDeltas,
         Refill(s, chunk, delta)
  PROVE  \E n \in Nat :
           /\ n > 1
           /\ buf'[s] \in Seq(Packets) /\ Len(buf'[s]) = n
           /\ bitpos'[s] \in Seq(Int) /\ Len(bitpos'[s]) = n
           /\ buf'[s][1] = Kept(s)
           /\ \A i \in 1..n : buf'[s][i].id = Kept(s).id + i - 1
           /\ second_pcr'[s] \in 0..PcrPeriod - 1 /\ first_pcr'[s] = second_pcr[s]
           /\ packets_written'[s] = 0
           /\ \A i \in 1..n :
                bitpos'[s][i] =
                  Position(first_pcr'[s], second_pcr'[s], start_pcr[s], i - 1, n)
<1> DEFINE m == Len(chunk)
           n == m + 2
           new == Arrived(s, chunk)
           second == (second_pcr[s] + delta) % PcrPeriod
           newbuf == <<Kept(s)>> \o new
<1>1. /\ chunk \in Seq({"es", "eit_more", "eit_last"})
      /\ m \in Nat /\ \A i \in 1..m : chunk[i] \in Kinds
  <2>1. chunk \in Seq({"es", "eit_more", "eit_last"})
    BY StreamAssumption
  <2>2. m \in Nat /\ \A i \in 1..m : chunk[i] \in {"es", "eit_more", "eit_last"}
    BY <2>1, LenProperties, ElementOfSeq
  <2> QED BY <2>1, <2>2 DEF Kinds
<1>2. /\ Kept(s) \in Packets /\ Kept(s).id \in Nat
  <2>1. Len(buf[s]) \in 1..Len(buf[s])
    BY ServiceTypes
  <2> QED BY <2>1, ServiceTypes DEF Kept
<1>3. new = [i \in 1..m + 1 |->
               [kind |-> IF i <= m THEN chunk[i] ELSE "es", id |-> Kept(s).id + i]]
  BY DEF Arrived, Kept
<1> HIDE DEF m, new
<1>4. /\ new \in Seq(Packets) /\ Len(new) = m + 1
      /\ \A i \in 1..m + 1 : new[i].id = Kept(s).id + i
  <2>1. \A i \in 1..m + 1 :
          [kind |-> IF i <= m THEN chunk[i] ELSE "es", id |-> Kept(s).id + i] \in Packets
    BY <1>1, <1>2 DEF Packets, Kinds
  <2> QED BY <1>1, <1>3, <2>1
<1>5. <<Kept(s)>> \in Seq(Packets) /\ Len(<<Kept(s)>>) = 1 /\ <<Kept(s)>>[1] = Kept(s)
  BY <1>2
<1>6. /\ newbuf \in Seq(Packets) /\ Len(newbuf) = n
      /\ \A i \in 1..n : newbuf[i] = IF i <= 1 THEN Kept(s) ELSE new[i - 1]
  <2>1. /\ <<Kept(s)>> \o new \in Seq(Packets)
        /\ Len(<<Kept(s)>> \o new) = Len(<<Kept(s)>>) + Len(new)
        /\ \A i \in 1 .. Len(<<Kept(s)>>) + Len(new) :
             (<<Kept(s)>> \o new)[i] =
               IF i <= Len(<<Kept(s)>>) THEN <<Kept(s)>>[i] ELSE new[i - Len(<<Kept(s)>>)]
    BY <1>4, <1>5, ConcatProperties, Zenon
  <2> QED BY <1>1, <1>4, <1>5, <2>1
<1>7. /\ buf'[s] = newbuf /\ packets_written'[s] = 0
      /\ first_pcr'[s] = second_pcr[s] /\ second_pcr'[s] = second
      /\ bitpos'[s] = [i \in 1..Len(newbuf) |->
           Position(second_pcr[s], second, start_pcr[s], i - 1, Len(newbuf))]
  BY DEF Refill, TypeOK, new
<1>8. second \in 0..PcrPeriod - 1
  BY ServiceTypes, StreamAssumption, DivMod
<1> HIDE DEF newbuf, second
<1>9. /\ bitpos'[s] \in Seq(Int) /\ Len(bitpos'[s]) = n
      /\ \A i \in 1..n : bitpos'[s][i] =
           Position(second_pcr[s], second, start_pcr[s], i - 1, n)
  <2>1. n \in Nat /\ n > 1
    BY <1>1
  <2>2. second_pcr[s] \in Int /\ second \in Int /\ start_pcr[s] \in Int
    BY <1>8, ServiceTypes, StreamAssumption
  <2>3. \A i \in 1..n :
          Position(second_pcr[s], second, start_pcr[s], i - 1, n) \in Int
    <3> HIDE DEF n
    <3> TAKE i \in 1..n
    <3>1. i - 1 \in Int
      OBVIOUS
    <3> QED BY <2>1, <2>2, <3>1, PositionInt, Zenon
  <2> QED BY <1>6, <1>7, <2>1, <2>3
<1>10. \A i \in 1..n : newbuf[i].id = Kept(s).id + i - 1
  <2> TAKE i \in 1..n
  <2>1. CASE i = 1
    BY <1>1, <1>2, <1>6, <2>1
  <2>2. CASE i # 1
    <3>1. i - 1 \in 1..m + 1 /\ ~(i <= 1)
      BY <1>1, <2>2
    <3>2. newbuf[i] = new[i - 1]
      BY <1>6, <3>1
    <3>3. new[i - 1].id = Kept(s).id + (i - 1)
      BY <1>4, <3>1
    <3> QED BY <1>2, <3>2, <3>3
  <2> QED BY <2>1, <2>2
<1>11. newbuf[1] = Kept(s) /\ n \in Nat /\ n > 1
  BY <1>1, <1>6
<1> HIDE DEF n
<1>12. /\ n \in Nat /\ n > 1
       /\ buf'[s] \in Seq(Packets) /\ Len(buf'[s]) = n
       /\ bitpos'[s] \in Seq(Int) /\ Len(bitpos'[s]) = n
       /\ buf'[s][1] = Kept(s)
       /\ \A i \in 1..n : buf'[s][i].id = Kept(s).id + i - 1
       /\ second_pcr'[s] \in 0..PcrPeriod - 1 /\ first_pcr'[s] = second_pcr[s]
       /\ packets_written'[s] = 0
       /\ \A i \in 1..n :
            bitpos'[s][i] =
              Position(first_pcr'[s], second_pcr'[s], start_pcr[s], i - 1, n)
  BY <1>6, <1>7, <1>8, <1>9, <1>10, <1>11, Zenon
<1> QED BY <1>12, Zenon

\* A refill leaves the other services alone.
LEMMA RefillOthers ==
  ASSUME TypeOK, NEW s \in Services, NEW chunk \in Chunks, NEW delta \in PcrDeltas,
         Refill(s, chunk, delta), NEW r \in Services, r # s
  PROVE  /\ buf'[r] = buf[r] /\ bitpos'[r] = bitpos[r]
         /\ packets_written'[r] = packets_written[r]
         /\ first_pcr'[r] = first_pcr[r] /\ second_pcr'[r] = second_pcr[r]
BY DEF TypeOK, Refill

\* Padding never takes the output back.
LEMMA PadToNat ==
  ASSUME TypeOK, NEW b \in Int
  PROVE  PadTo(b) \in Nat /\ output_bitpos <= PadTo(b) /\ b <= PadTo(b)
<1>1. PacketBits \in Nat /\ PacketBits > 0 /\ output_bitpos \in Nat
  BY StreamAssumption DEF TypeOK
<1>2. CASE b <= output_bitpos
  BY <1>1, <1>2 DEF PadTo
<1>3. CASE ~(b <= output_bitpos)
  <2> DEFINE x == b - output_bitpos + PacketBits - 1
             q == x \div PacketBits
             r == x % PacketBits
  <2>1. q \in Int /\ r \in 0..PacketBits - 1 /\ x = PacketBits * q + r
    BY <1>1, DivMod
  <2>2. PadTo(b) = output_bitpos + PacketBits * q
    BY <1>3 DEF PadTo
  <2> HIDE DEF q, r
  <2>3. PacketBits * q = b - output_bitpos + PacketBits - 1 - r
    BY <1>1, <2>1
  <2>4. PadTo(b) = b + PacketBits - 1 - r
    BY <1>1, <2>1, <2>2, <2>3
  <2> QED BY <1>1, <1>3, <2>1, <2>4
<1> QED BY <1>2, <1>3

-----------------------------------------------------------------------------
(* Types.                                                                  *)

LEMMA TypeInit == Init => TypeOK
<1> SUFFICES ASSUME Init PROVE TypeOK
  OBVIOUS
<1> DEFINE first == [kind |-> "unmapped", id |-> 1]
<1>1. first \in [kind : Kinds, id : Nat]
  BY DEF Kinds
<1> HIDE DEF first
<1>2. /\ <<first>> \in Seq([kind : Kinds, id : Nat]) /\ Len(<<first>>) = 1
      /\ <<0>> \in Seq(Int) /\ Len(<<0>>) = 1
  BY <1>1
<1>3. buf = [s \in Services |-> <<first>>]
  BY DEF Init, first
<1>4. /\ buf \in [Services -> Seq([kind : Kinds, id : Nat])]
      /\ bitpos \in [Services -> Seq(Int)]
      /\ packets_written \in [Services -> Nat]
      /\ \A s \in Services :
           Len(bitpos[s]) = Len(buf[s]) /\ packets_written[s] < Len(buf[s])
  BY <1>2, <1>3 DEF Init
<1>5. /\ start_pcr \in [Services -> 0..PcrPeriod - 1]
      /\ first_pcr \in [Services -> 0..PcrPeriod - 1]
      /\ second_pcr \in [Services -> 0..PcrPeriod - 1]
      /\ pcrs \in [Services -> 0..MaxPcrs]
  <2>1. 0 \in 0..PcrPeriod - 1 /\ 0 \in 0..MaxPcrs
    BY StreamAssumption
  <2>2. start_pcr \in [Services -> 0..PcrPeriod - 1]
    BY StreamAssumption, Zenon DEF Init
  <2> QED BY <2>1, <2>2, Zenon DEF Init
<1>6. /\ next_bitpos \in [Tables -> Nat] /\ output_bitpos \in Nat /\ eit_cc \in 0..15
      /\ due \in Int /\ at \in Nat /\ sent \in [Services -> Nat]
      /\ openEit \in Services \cup {NoService}
  BY DEF Init
<1> QED BY <1>4, <1>5, <1>6 DEF TypeOK

LEMMA RefillType ==
  ASSUME TypeOK, NEW s \in Services, NEW chunk \in Chunks, NEW delta \in PcrDeltas,
         Refill(s, chunk, delta)
  PROVE  TypeOK'
<1>1. PICK n \in Nat :
           /\ n > 1
           /\ buf'[s] \in Seq(Packets) /\ Len(buf'[s]) = n
           /\ bitpos'[s] \in Seq(Int) /\ Len(bitpos'[s]) = n
           /\ second_pcr'[s] \in 0..PcrPeriod - 1 /\ first_pcr'[s] = second_pcr[s]
           /\ packets_written'[s] = 0
  BY RefillParts
<1>2. /\ buf' = [buf EXCEPT ![s] = buf'[s]]
      /\ bitpos' = [bitpos EXCEPT ![s] = bitpos'[s]]
      /\ packets_written' = [packets_written EXCEPT ![s] = 0]
      /\ first_pcr' = [first_pcr EXCEPT ![s] = second_pcr[s]]
      /\ second_pcr' = [second_pcr EXCEPT ![s] = second_pcr'[s]]
      /\ pcrs' = [pcrs EXCEPT ![s] = @ + 1] /\ pcrs[s] < MaxPcrs
      /\ UNCHANGED <<start_pcr, outVars>>
  BY DEF TypeOK, Refill
<1>3. /\ buf' \in [Services -> Seq(Packets)]
      /\ bitpos' \in [Services -> Seq(Int)]
      /\ packets_written' \in [Services -> Nat]
  <2>1. /\ buf \in [Services -> Seq(Packets)] /\ bitpos \in [Services -> Seq(Int)]
        /\ packets_written \in [Services -> Nat] /\ 0 \in Nat
    BY DEF TypeOK, Packets
  <2>2. [buf EXCEPT ![s] = buf'[s]] \in [Services -> Seq(Packets)]
    BY <1>1, <2>1, Updated, Zenon
  <2>3. [bitpos EXCEPT ![s] = bitpos'[s]] \in [Services -> Seq(Int)]
    BY <1>1, <2>1, Updated, Zenon
  <2>4. [packets_written EXCEPT ![s] = 0] \in [Services -> Nat]
    BY <2>1, Updated, Zenon
  <2> QED BY <1>2, <2>2, <2>3, <2>4, Zenon
<1>4. \A r \in Services :
        Len(bitpos'[r]) = Len(buf'[r]) /\ packets_written'[r] < Len(buf'[r])
  <2> TAKE r \in Services
  <2>1. CASE r = s
    BY <1>1, <2>1
  <2>2. CASE r # s
    BY <2>2, RefillOthers DEF TypeOK
  <2> QED BY <2>1, <2>2
<1>5. /\ first_pcr' \in [Services -> 0..PcrPeriod - 1]
      /\ second_pcr' \in [Services -> 0..PcrPeriod - 1]
      /\ pcrs' \in [Services -> 0..MaxPcrs]
  <2>1. second_pcr[s] \in 0..PcrPeriod - 1 /\ pcrs[s] + 1 \in 0..MaxPcrs
    BY <1>2, StreamAssumption, SMTT(30) DEF TypeOK
  <2>2. /\ first_pcr \in [Services -> 0..PcrPeriod - 1]
        /\ second_pcr \in [Services -> 0..PcrPeriod - 1]
        /\ pcrs \in [Services -> 0..MaxPcrs]
    BY DEF TypeOK
  <2>3. [first_pcr EXCEPT ![s] = second_pcr[s]] \in [Services -> 0..PcrPeriod - 1]
    BY <2>1, <2>2, Updated, Zenon
  <2>4. [second_pcr EXCEPT ![s] = second_pcr'[s]] \in [Services -> 0..PcrPeriod - 1]
    BY <1>1, <2>2, Updated, Zenon
  <2>5. [pcrs EXCEPT ![s] = pcrs[s] + 1] \in [Services -> 0..MaxPcrs]
    BY <2>1, <2>2, Updated, Zenon
  <2> QED BY <1>2, <2>3, <2>4, <2>5, Zenon
<1> QED BY <1>2, <1>3, <1>4, <1>5 DEF TypeOK, outVars, Packets

LEMMA EmitPacketType ==
  ASSUME TypeOK, NEW s \in Services, EmitPacket(s)
  PROVE  TypeOK'
<1>1. /\ packets_written' = [packets_written EXCEPT ![s] = @ + 1]
      /\ sent' = [sent EXCEPT ![s] = NextPacket(s).id]
      /\ Output(Pending(s), 1) /\ ~Needs(s)
      /\ eit_cc' = IF IsEit(NextPacket(s).kind) THEN (eit_cc + 1) % 16 ELSE eit_cc
      /\ openEit' \in {s, NoService, openEit}
      /\ UNCHANGED <<buf, bitpos, first_pcr, second_pcr, pcrs, start_pcr, next_bitpos>>
  BY DEF EmitPacket, Ready
<1>2. NextPacket(s).id \in Nat /\ Pending(s) \in Int
  BY ServiceTypes DEF NextPacket, Pending
<1>3. /\ packets_written[s] + 1 < Len(buf[s]) /\ packets_written[s] \in Nat
  BY <1>1, ServiceTypes DEF Needs
<1>4. output_bitpos' \in Nat /\ due' \in Int /\ at' \in Nat
  <2>1. /\ output_bitpos' = PadTo(Pending(s)) + 1 * PacketBits
        /\ due' = Pending(s) /\ at' = PadTo(Pending(s))
    BY <1>1 DEF Output
  <2>2. PacketBits \in Nat
    BY StreamAssumption
  <2> QED BY <1>2, <2>1, <2>2, PadToNat
<1>5. eit_cc' \in 0..15
  BY <1>1 DEF TypeOK
<1>6. /\ packets_written' \in [Services -> Nat] /\ sent' \in [Services -> Nat]
      /\ \A r \in Services : packets_written'[r] < Len(buf'[r])
  <2>1. packets_written \in [Services -> Nat] /\ sent \in [Services -> Nat]
    BY DEF TypeOK
  <2>2. sent' \in [Services -> Nat]
    BY <1>1, <1>2, <2>1, Updated, Zenon
  <2>3. /\ packets_written' \in [Services -> Nat]
        /\ packets_written'[s] = packets_written[s] + 1
        /\ \A r \in Services : r # s => packets_written'[r] = packets_written[r]
    <3>1. packets_written[s] + 1 \in Nat
      BY <1>3
    <3> QED BY <1>1, <2>1, <3>1, Updated, Zenon
  <2> QED BY <1>1, <1>3, <2>2, <2>3 DEF TypeOK
<1> QED BY <1>1, <1>4, <1>5, <1>6 DEF TypeOK

LEMMA EmitTableType ==
  ASSUME TypeOK, NEW t \in Tables, EmitTable(t)
  PROVE  TypeOK'
<1>1. /\ Output(next_bitpos[t], TableLen[t])
      /\ next_bitpos' = [next_bitpos EXCEPT ![t] = NextTime(t)]
      /\ UNCHANGED <<svcVars, start_pcr, eit_cc, sent, openEit>>
  BY DEF EmitTable
<1>2. next_bitpos[t] \in Nat /\ NextTime(t) \in Nat
  BY StreamAssumption, SMTT(30) DEF TypeOK, NextTime
<1>3. output_bitpos' \in Nat /\ due' \in Int /\ at' \in Nat
  <2>1. /\ output_bitpos' = PadTo(next_bitpos[t]) + TableLen[t] * PacketBits
        /\ due' = next_bitpos[t] /\ at' = PadTo(next_bitpos[t])
    BY <1>1 DEF Output
  <2>2. TableLen[t] * PacketBits \in Nat
    BY StreamAssumption
  <2>3. PadTo(next_bitpos[t]) \in Nat
    BY <1>2, PadToNat
  <2> QED BY <1>2, <2>1, <2>2, <2>3
<1>4. next_bitpos' \in [Tables -> Nat]
  BY <1>1, <1>2 DEF TypeOK
<1> QED BY <1>1, <1>3, <1>4 DEF TypeOK, svcVars

\* The loop compares and outputs only packets it has read: bitpos and buf are
\* never indexed beyond what read_to_next_pcr has put there.
THEOREM TypeCorrect == Spec => []TypeOK
<1>1. TypeOK /\ [Next]_vars => TypeOK'
  <2> SUFFICES ASSUME TypeOK, [Next]_vars PROVE TypeOK'
    OBVIOUS
  <2>1. ASSUME NEW s \in Services, NEW chunk \in Chunks, NEW delta \in PcrDeltas,
               Refill(s, chunk, delta)
        PROVE  TypeOK'
    BY <2>1, RefillType
  <2>2. ASSUME NEW s \in Services, EmitPacket(s) PROVE TypeOK'
    BY <2>2, EmitPacketType
  <2>3. ASSUME NEW t \in Tables, EmitTable(t) PROVE TypeOK'
    BY <2>3, EmitTableType
  <2>4. CASE UNCHANGED vars
    BY <2>4 DEF TypeOK, vars, svcVars, outVars
  <2> QED BY <2>1, <2>2, <2>3, <2>4 DEF Next
<1> QED BY TypeInit, <1>1, PTL DEF Spec

-----------------------------------------------------------------------------
(* Every packet once.                                                      *)

\* The buffer holds consecutive packets, the next one being next.
Queued ==
  \A s \in Services :
    /\ \A i \in 1..Len(buf[s]) : buf[s][i].id = buf[s][1].id + i - 1
    /\ buf[s][1].id + packets_written[s] = sent[s] + 1

LEMMA QueuedStep == TypeOK /\ Queued /\ [Next]_vars => Queued'
<1> SUFFICES ASSUME TypeOK, Queued, [Next]_vars PROVE Queued'
  OBVIOUS
<1>1. ASSUME NEW s \in Services, NEW chunk \in Chunks, NEW delta \in PcrDeltas,
             Refill(s, chunk, delta)
      PROVE  Queued'
  <2>1. PICK n \in Nat :
             /\ n > 1
             /\ Len(buf'[s]) = n
             /\ buf'[s][1] = Kept(s)
             /\ \A i \in 1..n : buf'[s][i].id = Kept(s).id + i - 1
             /\ packets_written'[s] = 0
    BY <1>1, RefillParts
  <2>2. /\ Len(buf[s]) \in Nat /\ Len(buf[s]) \in 1..Len(buf[s])
        /\ packets_written[s] + 1 = Len(buf[s]) /\ packets_written[s] \in Nat
        /\ buf[s][1].id \in Nat /\ sent[s] \in Nat
    <3>1. Len(buf[s]) - packets_written[s] = 1
      BY <1>1 DEF Refill, Needs
    <3>2. /\ Len(buf[s]) \in Nat /\ packets_written[s] \in Nat
          /\ buf[s][1].id \in Nat /\ sent[s] \in Nat
      BY ServiceTypes
    <3> QED BY <3>1, <3>2
  <2>3. Kept(s).id = sent[s] + 1
    <3>1. buf[s][Len(buf[s])].id = buf[s][1].id + Len(buf[s]) - 1
      BY <2>2 DEF Queued
    <3>2. buf[s][1].id + packets_written[s] = sent[s] + 1
      BY DEF Queued
    <3> QED BY <2>2, <3>1, <3>2, SMTT(30) DEF Kept
  <2>4. sent' = sent
    BY <1>1 DEF Refill, outVars
  <2>5. ASSUME NEW r \in Services
        PROVE  /\ \A i \in 1..Len(buf'[r]) : buf'[r][i].id = buf'[r][1].id + i - 1
               /\ buf'[r][1].id + packets_written'[r] = sent'[r] + 1
    <3>1. CASE r = s
      <4>1. buf'[s][1].id = sent[s] + 1 /\ sent[s] \in Nat
        BY <2>1, <2>2, <2>3
      <4>2. \A i \in 1..Len(buf'[s]) : buf'[s][i].id = buf'[s][1].id + i - 1
        BY <2>1
      <4> QED BY <2>1, <2>4, <3>1, <4>1, <4>2, SMTT(30)
    <3>2. CASE r # s
      BY <1>1, <2>4, <3>2, RefillOthers DEF Queued
    <3> QED BY <3>1, <3>2
  <2> QED BY <2>5 DEF Queued
<1>2. ASSUME NEW s \in Services, EmitPacket(s) PROVE Queued'
  <2>1. /\ packets_written' = [packets_written EXCEPT ![s] = @ + 1]
        /\ sent' = [sent EXCEPT ![s] = NextPacket(s).id]
        /\ buf' = buf
    BY <1>2 DEF EmitPacket
  <2>2. /\ packets_written[s] + 1 \in 1..Len(buf[s]) /\ packets_written[s] \in Nat
        /\ buf[s][1].id \in Nat /\ sent[s] \in Nat
    BY ServiceTypes
  <2>3. NextPacket(s).id = sent[s] + 1
    <3>1. buf[s][packets_written[s] + 1].id = buf[s][1].id + (packets_written[s] + 1) - 1
      BY <2>2 DEF Queued
    <3>2. buf[s][1].id + packets_written[s] = sent[s] + 1
      BY DEF Queued
    <3> QED BY <2>2, <3>1, <3>2 DEF NextPacket
  <2>4. /\ packets_written'[s] = packets_written[s] + 1 /\ sent'[s] = sent[s] + 1
        /\ \A r \in Services : r # s =>
             packets_written'[r] = packets_written[r] /\ sent'[r] = sent[r]
    BY <2>1, <2>3 DEF TypeOK
  <2>5. buf[s][1].id + (packets_written[s] + 1) = (sent[s] + 1) + 1
    <3>1. buf[s][1].id + packets_written[s] = sent[s] + 1
      BY DEF Queued
    <3> QED BY <2>2, <3>1, SMTT(30)
  <2> QED BY <2>1, <2>4, <2>5 DEF Queued
<1>3. ASSUME NEW t \in Tables, EmitTable(t) PROVE Queued'
  BY <1>3 DEF EmitTable, svcVars, Queued
<1>4. CASE UNCHANGED vars
  BY <1>4 DEF vars, svcVars, outVars, Queued
<1> QED BY <1>1, <1>2, <1>3, <1>4 DEF Next

\* Across refills, which move the last packet to the start of the buffer, every
\* packet of a service is output once and in order.
THEOREM EveryPacketOnce == Spec => []InSequence
<1>1. Init => Queued
  <2> SUFFICES ASSUME Init, NEW s \in Services
               PROVE  /\ \A i \in 1..Len(buf[s]) : buf[s][i].id = buf[s][1].id + i - 1
                      /\ buf[s][1].id + packets_written[s] = sent[s] + 1
    BY DEF Queued
  <2>1. Len(buf[s]) = 1 /\ buf[s][1].id = 1 /\ packets_written[s] = 0 /\ sent[s] = 0
    BY DEF Init
  <2> QED BY <2>1
<1>2. TypeOK /\ Queued => InSequence
  <2> SUFFICES ASSUME TypeOK, Queued, NEW s \in Services
               PROVE  NextPacket(s).id = sent[s] + 1
    BY DEF InSequence
  <2>1. /\ packets_written[s] + 1 \in 1..Len(buf[s]) /\ packets_written[s] \in Nat
        /\ buf[s][1].id \in Nat /\ sent[s] \in Nat
    BY ServiceTypes
  <2>2. buf[s][packets_written[s] + 1].id = buf[s][1].id + (packets_written[s] + 1) - 1
    BY <2>1 DEF Queued
  <2>3. buf[s][1].id + packets_written[s] = sent[s] + 1
    BY DEF Queued
  <2> QED BY <2>1, <2>2, <2>3 DEF NextPacket
<1> QED BY <1>1, <1>2, QueuedStep, TypeCorrect, PTL DEF Spec

-----------------------------------------------------------------------------
(* Everything in its turn.                                                 *)

\* The PCRs have not wrapped since the first and the positions fit int64_t:
\* what mux_pcr_wrap and mux_overflow show the loop to depend on.
Unwrapped ==
  \A s \in Services :
    /\ start_pcr[s] <= second_pcr[s] /\ first_pcr[s] <= second_pcr[s]
    /\ (second_pcr[s] - start_pcr[s]) * Capacity < Int64 \div 2

\* Positions do not fall within a buffer.
Rises ==
  \A s \in Services : \A i, j \in 1..Len(buf[s]) :
    i <= j => bitpos[s][i] <= bitpos[s][j]

\* The last packet of a buffer is where its PCR belongs.
Scheduled ==
  \A s \in Services :
    bitpos[s][Len(buf[s])] = PcrPosition(second_pcr[s], start_pcr[s])

\* A refill keeps the position of the packet it keeps.
LEMMA RefillSchedule ==
  ASSUME TypeOK, Scheduled, NEW s \in Services, NEW chunk \in Chunks,
         NEW delta \in PcrDeltas, Refill(s, chunk, delta)
  PROVE  /\ Scheduled'
         /\ \A r \in Services : Pending(r)' = Pending(r)
<1>1. PICK n \in Nat :
           /\ n > 1
           /\ Len(buf'[s]) = n /\ Len(bitpos'[s]) = n
           /\ second_pcr'[s] \in 0..PcrPeriod - 1 /\ first_pcr'[s] = second_pcr[s]
           /\ packets_written'[s] = 0
           /\ \A i \in 1..n :
                bitpos'[s][i] =
                  Position(first_pcr'[s], second_pcr'[s], start_pcr[s], i - 1, n)
  BY RefillParts
<1>2. start_pcr' = start_pcr /\ Len(buf[s]) - packets_written[s] = 1
  BY DEF Refill, Needs
<1>3. /\ second_pcr[s] \in Int /\ second_pcr'[s] \in Int /\ start_pcr[s] \in Int
      /\ packets_written[s] \in Nat /\ Len(buf[s]) \in Nat
  BY <1>1, ServiceTypes, StreamAssumption
<1>4. 1 - 1 = 0 /\ 1 \in 1..n /\ n \in 1..n /\ packets_written[s] + 1 = Len(buf[s])
  BY <1>1, <1>2, <1>3
<1>5. /\ bitpos'[s][1] = PcrPosition(second_pcr[s], start_pcr[s])
      /\ bitpos'[s][n] = PcrPosition(second_pcr'[s], start_pcr[s])
  <2>1. /\ Position(second_pcr[s], second_pcr'[s], start_pcr[s], 0, n)
             = PcrPosition(second_pcr[s], start_pcr[s])
        /\ Position(second_pcr[s], second_pcr'[s], start_pcr[s], n - 1, n)
             = PcrPosition(second_pcr'[s], start_pcr[s])
    <3> DEFINE first == second_pcr[s]
               second == second_pcr'[s]
               start == start_pcr[s]
    <3>1. first \in Int /\ second \in Int /\ start \in Int /\ n \in Nat /\ n > 1
      BY <1>1, <1>3
    <3> HIDE DEF first, second, start
    <3>2. /\ Position(first, second, start, 0, n) = PcrPosition(first, start)
          /\ Position(first, second, start, n - 1, n) = PcrPosition(second, start)
      BY <3>1, PositionEnds
    <3> QED BY <3>2 DEF first, second, start
  <2>2. /\ bitpos'[s][1] = Position(second_pcr[s], second_pcr'[s], start_pcr[s], 1 - 1, n)
        /\ bitpos'[s][n] = Position(second_pcr[s], second_pcr'[s], start_pcr[s], n - 1, n)
    BY <1>1, <1>4, Zenon
  <2> QED BY <1>4, <2>1, <2>2, Zenon
<1>6. Scheduled'
  <2> SUFFICES ASSUME NEW r \in Services
               PROVE  bitpos'[r][Len(buf'[r])] = PcrPosition(second_pcr'[r], start_pcr[r])
    BY <1>2 DEF Scheduled, PcrPosition
  <2>1. CASE r = s
    BY <1>1, <1>5, <2>1, Zenon
  <2>2. CASE r # s
    BY <2>2, RefillOthers, Zenon DEF Scheduled
  <2> QED BY <2>1, <2>2
<1>7. \A r \in Services : Pending(r)' = Pending(r)
  <2> TAKE r \in Services
  <2>1. CASE r = s
    <3>1. 0 + 1 = 1
      OBVIOUS
    <3>2. Pending(r)' = bitpos'[s][1]
      BY <1>1, <2>1, <3>1, Zenon DEF Pending
    <3>3. Pending(r) = bitpos[s][Len(buf[s])]
      BY <1>4, <2>1, Zenon DEF Pending
    <3> QED BY <1>5, <3>2, <3>3, Zenon DEF Scheduled
  <2>2. CASE r # s
    BY <2>2, RefillOthers, Zenon DEF Pending
  <2> QED BY <2>1, <2>2
<1> QED BY <1>6, <1>7

\* The positions a refill computes do not fall, unless the PCR has wrapped.
LEMMA RefillRises ==
  ASSUME TypeOK, Rises, NEW s \in Services, NEW chunk \in Chunks,
         NEW delta \in PcrDeltas, Refill(s, chunk, delta), Unwrapped, Unwrapped'
  PROVE  Rises'
<1>1. PICK n \in Nat :
           /\ n > 1
           /\ Len(buf'[s]) = n
           /\ second_pcr'[s] \in 0..PcrPeriod - 1 /\ first_pcr'[s] = second_pcr[s]
           /\ \A i \in 1..n :
                bitpos'[s][i] =
                  Position(first_pcr'[s], second_pcr'[s], start_pcr[s], i - 1, n)
  BY RefillParts
<1>2. start_pcr' = start_pcr
  BY DEF Refill
<1>3. /\ first_pcr'[s] \in Int /\ second_pcr'[s] \in Int /\ start_pcr[s] \in Int
      /\ start_pcr[s] <= first_pcr'[s] /\ first_pcr'[s] <= second_pcr'[s]
      /\ (second_pcr'[s] - start_pcr[s]) * Capacity < Int64 \div 2
  <2>1. second_pcr[s] \in Int /\ second_pcr'[s] \in Int /\ start_pcr[s] \in Int
    BY <1>1, ServiceTypes, StreamAssumption
  <2>2. start_pcr[s] <= second_pcr[s]
    BY Zenon DEF Unwrapped
  <2>3. /\ first_pcr'[s] <= second_pcr'[s]
        /\ (second_pcr'[s] - start_pcr[s]) * Capacity < Int64 \div 2
    BY <1>2, Zenon DEF Unwrapped
  <2> QED BY <1>1, <2>1, <2>2, <2>3, Zenon
<1>4. ASSUME NEW i \in 1..n, NEW j \in 1..n, i <= j
      PROVE  bitpos'[s][i] <= bitpos'[s][j]
  <2>1. i - 1 \in 0..n - 1 /\ j - 1 \in 0..n - 1 /\ i - 1 <= j - 1
    BY <1>1, <1>4
  <2> DEFINE k == i - 1
             l == j - 1
  <2> HIDE DEF k, l
  <2>2. Position(first_pcr'[s], second_pcr'[s], start_pcr[s], k, n)
          <= Position(first_pcr'[s], second_pcr'[s], start_pcr[s], l, n)
    <3>1. k \in 0..n - 1 /\ l \in 0..n - 1 /\ k <= l
      BY <2>1 DEF k, l
    <3> QED BY <1>1, <1>3, <3>1, PositionMonotone, Zenon
  <2> QED BY <1>1, <2>2, Zenon DEF k, l
<1>5. ASSUME NEW r \in Services, NEW i \in 1..Len(buf'[r]), NEW j \in 1..Len(buf'[r]),
             i <= j
      PROVE  bitpos'[r][i] <= bitpos'[r][j]
  <2>1. CASE r = s
    BY <1>1, <1>4, <1>5, <2>1
  <2>2. CASE r # s
    <3>1. buf'[r] = buf[r] /\ bitpos'[r] = bitpos[r]
      BY <2>2, RefillOthers
    <3> QED BY <1>5, <3>1, Zenon DEF Rises
  <2> QED BY <2>1, <2>2
<1> QED BY <1>5 DEF Rises

\* If a table is due before position b, one of them is output first.
LEMMA SomePsi ==
  ASSUME TypeOK, NEW b \in Int, \A t \in Tables : ~NextPsi(t, b)
  PROVE  \A t \in Tables : next_bitpos[t] > b
<1>1. Tables = {1, 2, 3, 4} /\ \A t \in Tables : next_bitpos[t] \in Int
  BY DEF Tables, TypeOK
<1>2. \A t \in {1, 2, 3, 4} :
        ~ /\ next_bitpos[t] <= b
          /\ \A u \in {1, 2, 3, 4} :
               \/ next_bitpos[t] < next_bitpos[u]
               \/ next_bitpos[t] = next_bitpos[u] /\ u <= t
  BY <1>1 DEF NextPsi
<1> DEFINE w == next_bitpos[1]
           x == next_bitpos[2]
           y == next_bitpos[3]
           z == next_bitpos[4]
<1>3. /\ w \in Int /\ x \in Int /\ y \in Int /\ z \in Int
      /\ ~(w <= b /\ w < x /\ w < y /\ w < z)
      /\ ~(x <= b /\ x <= w /\ x < y /\ x < z)
      /\ ~(y <= b /\ y <= w /\ y <= x /\ y < z)
      /\ ~(z <= b /\ z <= w /\ z <= x /\ z <= y)
  BY <1>1, <1>2
<1> HIDE DEF w, x, y, z
<1>4. w > b /\ x > b /\ y > b /\ z > b
  BY <1>3
<1> QED BY <1>1, <1>4 DEF w, x, y, z

\* The loop's own order: whatever is due first goes first.
Timely ==
  /\ \A s \in Services : due <= Pending(s)
  /\ \A t \in Tables : due <= next_bitpos[t] /\ next_bitpos[t] <= due + Freq[t]

LEMMA TimelyStep ==
  TypeOK /\ Rises /\ Scheduled /\ Timely /\ Unwrapped /\ Unwrapped' /\ [Next]_vars
    => (Rises /\ Scheduled /\ Timely)'
<1> SUFFICES ASSUME TypeOK, Rises, Scheduled, Timely, Unwrapped, Unwrapped', [Next]_vars
             PROVE  Rises' /\ Scheduled' /\ Timely'
  OBVIOUS
<1>1. ASSUME NEW s \in Services, NEW chunk \in Chunks, NEW delta \in PcrDeltas,
             Refill(s, chunk, delta)
      PROVE  Rises' /\ Scheduled' /\ Timely'
  <2>1. UNCHANGED <<due, next_bitpos>>
    BY <1>1 DEF Refill, outVars
  <2>2. Scheduled' /\ \A r \in Services : Pending(r)' = Pending(r)
    BY <1>1, RefillSchedule
  <2>3. Timely'
    BY <2>1, <2>2 DEF Timely
  <2> QED BY <1>1, <2>2, <2>3, RefillRises
<1>2. ASSUME NEW s \in Services, EmitPacket(s)
      PROVE  Rises' /\ Scheduled' /\ Timely'
  <2>1. /\ MostUrgent(s) /\ \A t \in Tables : ~NextPsi(t, Pending(s))
        /\ ~Needs(s) /\ due' = Pending(s)
        /\ packets_written' = [packets_written EXCEPT ![s] = @ + 1]
        /\ UNCHANGED <<buf, bitpos, second_pcr, start_pcr, next_bitpos>>
    BY <1>2 DEF EmitPacket, Output, Ready
  <2>2. \A r \in Services : Pending(r) \in Int
    BY ServiceTypes DEF Pending
  <2>3. due <= Pending(s)
    BY DEF Timely
  <2>4. \A r \in Services : Pending(s) <= Pending(r)
    BY <2>1, <2>2 DEF MostUrgent
  <2>5. Pending(s) <= Pending(s)'
    <3> DEFINE k == packets_written[s] + 1
    <3>1. Pending(s) = bitpos[s][k] /\ Pending(s)' = bitpos[s][k + 1]
      BY <2>1 DEF Pending, TypeOK
    <3>2. k \in 1..Len(buf[s]) /\ k + 1 \in 1..Len(buf[s]) /\ k <= k + 1
      <4>1. Len(buf[s]) - packets_written[s] # 1
        BY <2>1 DEF Needs
      <4>2. /\ Len(buf[s]) \in Nat /\ packets_written[s] \in Nat
            /\ packets_written[s] < Len(buf[s])
        BY ServiceTypes
      <4> QED BY <4>1, <4>2, SMTT(30)
    <3> HIDE DEF k
    <3>3. bitpos[s][k] <= bitpos[s][k + 1]
      BY <3>2, Zenon DEF Rises
    <3> QED BY <3>1, <3>3
  <2>6. \A r \in Services : r # s => Pending(r)' = Pending(r)
    BY <2>1 DEF Pending, TypeOK
  <2>7. \A t \in Tables : next_bitpos[t] > Pending(s)
    BY <2>1, <2>2, SomePsi
  <2>8. Timely'
    <3>1. \A r \in Services : due' <= Pending(r)'
      BY <2>1, <2>4, <2>5, <2>6
    <3>2. \A t \in Tables : due' <= next_bitpos[t] /\ next_bitpos[t] <= due' + Freq[t]
      <4> TAKE t \in Tables
      <4>1. /\ next_bitpos[t] \in Int /\ Freq[t] \in Int /\ due \in Int /\ due' \in Int
        BY <2>1, <2>2, StreamAssumption DEF TypeOK
      <4>2. next_bitpos[t] <= due + Freq[t]
        BY DEF Timely
      <4>3. due <= due' /\ next_bitpos[t] > due'
        BY <2>1, <2>3, <2>7
      <4> QED BY <4>1, <4>2, <4>3
    <3> QED BY <2>1, <3>1, <3>2 DEF Timely
  <2>9. Rises' /\ Scheduled'
    BY <2>1 DEF Rises, Scheduled, PcrPosition
  <2> QED BY <2>8, <2>9
<1>3. ASSUME NEW t \in Tables, EmitTable(t)
      PROVE  Rises' /\ Scheduled' /\ Timely'
  <2>1. /\ due' = next_bitpos[t]
        /\ next_bitpos' = [next_bitpos EXCEPT ![t] = next_bitpos[t] + Freq[t]]
        /\ UNCHANGED <<buf, bitpos, packets_written, second_pcr, start_pcr>>
    BY <1>3 DEF EmitTable, Output, NextTime, svcVars
  <2>2. PICK s \in Services : MostUrgent(s) /\ NextPsi(t, Pending(s))
    BY <1>3 DEF EmitTable
  <2>3. \A r \in Services : Pending(r) \in Int /\ Pending(r)' = Pending(r)
    BY <2>1, ServiceTypes DEF Pending
  <2>4. \A u \in Tables : next_bitpos[u] \in Int /\ Freq[u] \in Nat
    BY StreamAssumption DEF TypeOK
  <2>5. \A r \in Services : next_bitpos[t] <= Pending(r)
    BY <2>2, <2>3, <2>4 DEF MostUrgent, NextPsi
  <2>6. \A u \in Tables : next_bitpos[t] <= next_bitpos[u]
    BY <2>2, <2>4 DEF NextPsi
  <2>7. due <= next_bitpos[t] /\ due \in Int
    BY DEF Timely, TypeOK
  <2>8. \A u \in Tables : due' <= next_bitpos'[u] /\ next_bitpos'[u] <= due' + Freq[u]
    <3> TAKE u \in Tables
    <3>1. next_bitpos'[u] = IF u = t THEN next_bitpos[t] + Freq[t] ELSE next_bitpos[u]
      BY <2>1 DEF TypeOK
    <3>2. next_bitpos[u] <= due + Freq[u]
      BY DEF Timely
    <3> QED BY <2>1, <2>4, <2>6, <2>7, <3>1, <3>2
  <2>9. Timely'
    BY <2>1, <2>3, <2>5, <2>8 DEF Timely
  <2>10. Rises' /\ Scheduled'
    BY <2>1 DEF Rises, Scheduled, PcrPosition
  <2> QED BY <2>9, <2>10
<1>4. CASE UNCHANGED vars
  BY <1>4 DEF vars, svcVars, outVars, Rises, Scheduled, Timely, Pending, PcrPosition
<1> QED BY <1>1, <1>2, <1>3, <1>4 DEF Next

LEMMA ScheduleInit == Init => Rises /\ Scheduled /\ Timely
<1> SUFFICES ASSUME Init PROVE Rises /\ Scheduled /\ Timely
  OBVIOUS
<1>1. \A s \in Services : /\ Len(buf[s]) = 1 /\ bitpos[s][1] = 0
                          /\ packets_written[s] = 0 /\ start_pcr[s] \in Int
                          /\ second_pcr[s] = start_pcr[s]
  <2> TAKE s \in Services
  <2>1. start_pcr[s] \in StartPcrs
    BY Zenon DEF Init
  <2>2. start_pcr[s] \in Int
    <3>1. StartPcrs \subseteq 0..PcrPeriod - 1 /\ 0..PcrPeriod - 1 \subseteq Int
      BY StreamAssumption
    <3> QED BY <2>1, <3>1, Zenon
  <2> QED BY <2>2 DEF Init
<1>2. \A s \in Services : PcrPosition(second_pcr[s], start_pcr[s]) = 0
  <2> TAKE s \in Services
  <2>1. (second_pcr[s] - start_pcr[s]) * Capacity = 0
    BY <1>1, StreamAssumption
  <2>2. Wrap64(0) = 0
    <3> DEFINE h == Int64 \div 2
    <3>1. Int64 \in Nat /\ Int64 > 0 /\ h \in Int /\ 0 <= h /\ h < Int64
      BY StreamAssumption
    <3>2. Wrap64(0) = ((0 + h) % Int64) - h
      BY DEF Wrap64
    <3> HIDE DEF h
    <3>3. 0 + h = h /\ h \in 0..Int64 - 1
      BY <3>1
    <3>4. (0 + h) % Int64 = h
      BY <3>1, <3>3, ModSmall
    <3> QED BY <3>1, <3>2, <3>4
  <2>3. Clock \in Nat /\ Clock > 0 /\ 0 = Clock * 0
    BY StreamAssumption
  <2>4. CDiv(0, Clock) = 0
    BY <2>3, CDivExact
  <2> QED BY <2>1, <2>2, <2>4 DEF PcrPosition
<1>3. Rises
  <2> SUFFICES ASSUME NEW s \in Services, NEW i \in 1..Len(buf[s]), NEW j \in 1..Len(buf[s])
               PROVE  bitpos[s][i] <= bitpos[s][j]
    BY DEF Rises
  <2>1. i = 1 /\ j = 1
    <3>1. i \in 1..1 /\ j \in 1..1
      BY <1>1, Zenon
    <3> QED BY <3>1
  <2>2. bitpos[s][1] = 0
    BY <1>1
  <2> QED BY <2>1, <2>2
<1>4. Scheduled
  BY <1>1, <1>2 DEF Scheduled
<1>5. \A s \in Services : Pending(s) = 0
  BY <1>1 DEF Pending
<1>6. due = 0 /\ \A t \in Tables : next_bitpos[t] = 0 /\ Freq[t] \in Nat
  BY StreamAssumption DEF Init
<1> QED BY <1>3, <1>4, <1>5, <1>6 DEF Timely

LEMMA ScheduleInvariant == Spec /\ []Unwrapped => [](Rises /\ Scheduled /\ Timely)
BY ScheduleInit, TimelyStep, TypeCorrect, PTL DEF Spec

\* As long as no PCR wraps and the position arithmetic does not overflow,
\* nothing is output out of its turn: no waiting packet or table is due before
\* what went out last, over all services and tables and across refills.
THEOREM TurnsKept == Spec /\ []Unwrapped => []NeverOvertaken
<1>1. TypeOK /\ Timely => NeverOvertaken
  <2> SUFFICES ASSUME TypeOK, Timely PROVE NeverOvertaken
    OBVIOUS
  <2>1. due \in Int /\ \A s \in Services : Pending(s) \in Int
    BY ServiceTypes DEF TypeOK, Pending
  <2>2. \A t \in Tables : next_bitpos[t] \in Int
    BY DEF TypeOK
  <2> QED BY <2>1, <2>2 DEF Timely, NeverOvertaken
<1> QED BY <1>1, ScheduleInvariant, TypeCorrect, PTL

\* Under the same condition each table is scheduled again within its period of
\* what goes out.
THEOREM TablesReturn == Spec /\ []Unwrapped => []CadenceKept
<1>1. Timely => CadenceKept
  BY DEF Timely, CadenceKept
<1> QED BY <1>1, ScheduleInvariant, PTL

\* How far the PCRs have got.
Grown(d) ==
  \A s \in Services :
    /\ start_pcr[s] \in StartPcrs
    /\ start_pcr[s] <= second_pcr[s] /\ first_pcr[s] <= second_pcr[s]
    /\ second_pcr[s] <= start_pcr[s] + pcrs[s] * d

\* A stream that ends before its PCR wraps, and before the positions leave
\* int64_t, meets the condition of the two theorems above.
THEOREM ShortStreams ==
  ASSUME NEW d \in Nat, \A delta \in PcrDeltas : delta <= d,
         \A start \in StartPcrs : start + MaxPcrs * d < PcrPeriod,
         (MaxPcrs * d) * Capacity < Int64 \div 2
  PROVE  Spec => []Unwrapped
<1>1. Init => Grown(d)
  <2> SUFFICES ASSUME Init, NEW s \in Services
               PROVE  /\ start_pcr[s] \in StartPcrs
                      /\ start_pcr[s] <= second_pcr[s] /\ first_pcr[s] <= second_pcr[s]
                      /\ second_pcr[s] <= start_pcr[s] + pcrs[s] * d
    BY DEF Grown
  <2>1. /\ start_pcr[s] \in StartPcrs /\ second_pcr[s] = start_pcr[s]
        /\ first_pcr[s] = 0 /\ pcrs[s] = 0
    BY Zenon DEF Init
  <2>2. StartPcrs \subseteq 0..PcrPeriod - 1 /\ 0..PcrPeriod - 1 \subseteq Nat
    BY StreamAssumption
  <2>3. start_pcr[s] \in Nat
    BY <2>1, <2>2, Zenon
  <2> QED BY <2>1, <2>3
<1>2. ASSUME TypeOK, Grown(d), NEW s \in Services, NEW chunk \in Chunks,
             NEW delta \in PcrDeltas, Refill(s, chunk, delta)
      PROVE  Grown(d)'
  <2>1. /\ pcrs[s] < MaxPcrs /\ pcrs' = [pcrs EXCEPT ![s] = pcrs[s] + 1]
        /\ first_pcr' = [first_pcr EXCEPT ![s] = second_pcr[s]]
        /\ second_pcr' = [second_pcr EXCEPT ![s] = (second_pcr[s] + delta) % PcrPeriod]
        /\ start_pcr' = start_pcr
    BY <1>2 DEF Refill
  <2>2. /\ pcrs'[s] = pcrs[s] + 1 /\ first_pcr'[s] = second_pcr[s]
        /\ second_pcr'[s] = (second_pcr[s] + delta) % PcrPeriod
        /\ \A r \in Services : r # s =>
             /\ pcrs'[r] = pcrs[r]
             /\ first_pcr'[r] = first_pcr[r] /\ second_pcr'[r] = second_pcr[r]
    BY <1>2, <2>1 DEF TypeOK
  <2>3. /\ start_pcr[s] \in Nat /\ second_pcr[s] \in Nat /\ pcrs[s] \in Nat
        /\ pcrs[s] + 1 <= MaxPcrs /\ MaxPcrs \in Nat
        /\ delta \in Nat /\ delta <= d /\ PcrPeriod \in Nat /\ PcrPeriod > 0
    <3>1. pcrs[s] \in 0..MaxPcrs
      BY <1>2 DEF TypeOK
    <3>2. start_pcr[s] \in Nat /\ second_pcr[s] \in Nat
      BY <1>2, ServiceTypes
    <3> QED BY <2>1, <3>1, <3>2, StreamAssumption
  <2>4. /\ start_pcr[s] <= second_pcr[s] /\ start_pcr[s] \in StartPcrs
        /\ second_pcr[s] <= start_pcr[s] + pcrs[s] * d
    BY <1>2 DEF Grown
  <2>5. second_pcr[s] + delta <= start_pcr[s] + (pcrs[s] + 1) * d
    <3>1. (pcrs[s] + 1) * d = pcrs[s] * d + d /\ pcrs[s] * d \in Int
      BY <2>3
    <3> QED BY <2>3, <2>4, <3>1
  <2>6. start_pcr[s] + (pcrs[s] + 1) * d < PcrPeriod
    <3>1. (pcrs[s] + 1) * d <= MaxPcrs * d
      BY <2>3, TimesMonotone
    <3>2. (pcrs[s] + 1) * d \in Int /\ MaxPcrs * d \in Int
      BY <2>3
    <3>3. start_pcr[s] + MaxPcrs * d < PcrPeriod
      BY <2>4
    <3> QED BY <2>3, <3>1, <3>2, <3>3
  <2>7. second_pcr'[s] = second_pcr[s] + delta
    <3>1. (pcrs[s] + 1) * d \in Int
      BY <2>3
    <3>2. second_pcr[s] + delta \in 0..PcrPeriod - 1
      BY <2>3, <2>5, <2>6, <3>1
    <3>3. (second_pcr[s] + delta) % PcrPeriod = second_pcr[s] + delta
      BY <2>3, <3>2, ModSmall, Zenon
    <3> QED BY <2>2, <3>3
  <2>8. ASSUME NEW r \in Services
        PROVE  /\ start_pcr'[r] \in StartPcrs
               /\ start_pcr'[r] <= second_pcr'[r] /\ first_pcr'[r] <= second_pcr'[r]
               /\ second_pcr'[r] <= start_pcr'[r] + pcrs'[r] * d
    <3>1. CASE r = s
      <4>1. start_pcr'[s] = start_pcr[s]
        BY <2>1
      <4>2. /\ start_pcr[s] <= second_pcr[s] + delta
            /\ second_pcr[s] <= second_pcr[s] + delta
        BY <2>3, <2>4
      <4> QED BY <2>2, <2>4, <2>5, <2>7, <3>1, <4>1, <4>2, Zenon
    <3>2. CASE r # s
      BY <1>2, <2>1, <2>2, <3>2 DEF Grown
    <3> QED BY <3>1, <3>2
  <2> QED BY <2>8 DEF Grown
<1>3. TypeOK /\ Grown(d) /\ [Next]_vars => Grown(d)'
  <2>1. ASSUME NEW s \in Services, EmitPacket(s), Grown(d) PROVE Grown(d)'
    BY <2>1 DEF EmitPacket, Grown
  <2>2. ASSUME NEW t \in Tables, EmitTable(t), Grown(d) PROVE Grown(d)'
    BY <2>2 DEF EmitTable, svcVars, Grown
  <2>3. ASSUME UNCHANGED vars, Grown(d) PROVE Grown(d)'
    BY <2>3 DEF vars, svcVars, Grown
  <2> QED BY <1>2, <2>1, <2>2, <2>3 DEF Next
<1>4. TypeOK /\ Grown(d) => Unwrapped
  <2> SUFFICES ASSUME TypeOK, Grown(d), NEW s \in Services
               PROVE  /\ start_pcr[s] <= second_pcr[s] /\ first_pcr[s] <= second_pcr[s]
                      /\ (second_pcr[s] - start_pcr[s]) * Capacity < Int64 \div 2
    BY DEF Unwrapped
  <2>1. /\ start_pcr[s] <= second_pcr[s] /\ first_pcr[s] <= second_pcr[s]
        /\ second_pcr[s] <= start_pcr[s] + pcrs[s] * d
    BY DEF Grown
  <2>2. /\ start_pcr[s] \in Nat /\ second_pcr[s] \in Nat
        /\ pcrs[s] \in Nat /\ pcrs[s] <= MaxPcrs /\ MaxPcrs \in Nat
        /\ Capacity \in Nat /\ Int64 \div 2 \in Int
    <3>1. pcrs[s] \in 0..MaxPcrs
      BY DEF TypeOK
    <3> QED BY <3>1, ServiceTypes, StreamAssumption
  <2> DEFINE x == second_pcr[s] - start_pcr[s]
             y == MaxPcrs * d
  <2>3. x \in Int /\ y \in Int /\ x <= y
    <3>1. pcrs[s] * d <= MaxPcrs * d
      BY <2>2, TimesMonotone
    <3>2. pcrs[s] * d \in Int /\ MaxPcrs * d \in Int
      BY <2>2
    <3> QED BY <2>1, <2>2, <3>1, <3>2
  <2> HIDE DEF x, y
  <2>4. x * Capacity <= y * Capacity /\ x * Capacity \in Int /\ y * Capacity \in Int
    BY <2>2, <2>3, TimesMonotone
  <2>5. x * Capacity < Int64 \div 2
    BY <2>2, <2>4 DEF y
  <2> QED BY <2>1, <2>5 DEF x
<1> QED BY <1>1, <1>3, <1>4, TypeCorrect, PTL DEF Spec
=============================================================================
