--------------------------- MODULE SectionsProofs ---------------------------
(***************************************************************************)
(* Proofs about the assembly of sections, for every layout of a round of   *)
(* them, every packet size and any number of losses.                       *)
(*                                                                         *)
(* Types and genuineness need Begun: the first byte collected decides      *)
(* which section the bytes are compared with, so it must be one of a       *)
(* wanted section from the start on.  The bound on what a loss costs needs *)
(* Cost, which tells a section that is followed (Clean) from a broken one  *)
(* (Broken) and pays for each section missed with a packet that has gone   *)
(* into the broken one.                                                    *)
(***************************************************************************)
EXTENDS Sections, Arithmetic, SequenceTheorems, FiniteSetTheorems

-----------------------------------------------------------------------------
(* The layout of a round.                                                  *)

\* The places of a round.
LEMMA Places ==
  Len(Round) \in Nat /\ Len(Round) > 0 /\ Bytes = 1..Len(Round)
BY FeedAssumption, LenProperties, EmptySeq DEF Bytes

\* The bytes of a section are those from First on, SectionLength in number.
LEMMA Layout ==
  ASSUME NEW p \in Bytes
  PROVE  /\ First[p] \in Bytes /\ SectionLength[p] \in Nat
         /\ First[p] <= p /\ p < First[p] + SectionLength[p]
         /\ First[p] + SectionLength[p] <= Len(Round) + 1
         /\ \A q \in Bytes : Round[q] = Round[p] <=>
              q \in First[p]..First[p] + SectionLength[p] - 1
<1> DEFINE S == {q \in Bytes : Round[q] = Round[p]}
<1>1. S \subseteq Nat /\ S \subseteq 0..Len(Round) /\ p \in S /\ S # {}
  BY Places
<1>2. PICK f \in S : \A q \in S : f <= q
  <2> HIDE DEF S
  <2> QED BY <1>1, Least
<1>3. PICK l \in S : \A q \in S : q <= l
  <2> HIDE DEF S
  <2> QED BY <1>1, Places, Greatest
<1>4. f \in Bytes /\ l \in Bytes /\ f \in Nat /\ l \in Nat /\ f <= p /\ p <= l
      /\ Round[f] = Round[p] /\ Round[l] = Round[p] /\ p \in Nat
  BY <1>1, <1>2, <1>3, Places
<1>5. \A q \in Bytes : Round[q] = Round[p] <=> q \in f..l
  <2>1. ASSUME NEW q \in Bytes, q \in f..l PROVE Round[q] = Round[p]
    <3>1. f <= q /\ q <= l /\ Round[f] = Round[l]
      BY <1>4, <2>1
    <3>2. Round[q] = Round[f]
      BY <1>4, <3>1, FeedAssumption, Zenon DEF Bytes
    <3> QED BY <1>4, <3>2
  <2>2. ASSUME NEW q \in Bytes, Round[q] = Round[p] PROVE q \in f..l
    BY <1>2, <1>3, <1>4, <2>2, Places
  <2> QED BY <2>1, <2>2
<1>6. First[p] = f
  <2>1. First[p] = CHOOSE q \in Bytes :
           Round[q] = Round[p] /\ \A r \in Bytes : Round[r] = Round[p] => q <= r
    BY DEF First
  <2>2. Round[f] = Round[p] /\ \A r \in Bytes : Round[r] = Round[p] => f <= r
    BY <1>2, <1>4
  <2>3. ASSUME NEW q \in Bytes, Round[q] = Round[p],
               \A r \in Bytes : Round[r] = Round[p] => q <= r
        PROVE  q = f
    BY <1>4, <2>2, <2>3, Places
  <2> QED BY <1>4, <2>1, <2>2, <2>3, Zenon
<1>7. SectionLength[p] = l - f + 1
  <2>1. S = f..l
    BY <1>4, <1>5, Places
  <2>2. SectionLength[p] = Cardinality(f..l)
    BY <2>1 DEF SectionLength
  <2> QED BY <1>4, <2>2, FS_Interval
<1> QED BY <1>4, <1>5, <1>6, <1>7, Places

\* A section has a byte at least.
LEMMA SomeBytes ==
  ASSUME NEW p \in Bytes
  PROVE  SectionLength[p] \in Nat /\ SectionLength[p] > 0
BY Layout, Places

\* Bytes of one section have the same first byte and length.
LEMMA SameSection ==
  ASSUME NEW p \in Bytes, NEW q \in Bytes, Round[q] = Round[p]
  PROVE  First[q] = First[p] /\ SectionLength[q] = SectionLength[p]
BY DEF First, SectionLength

\* The byte after a section is the first of another.
LEMMA AfterSection ==
  ASSUME NEW p \in Bytes, NEW q \in Bytes, q = First[p] + SectionLength[p]
  PROVE  First[q] = q
<1>1. Round[q] # Round[p]
  BY Layout, Places
<1>2. /\ First[q] \in Bytes /\ First[q] <= q /\ q < First[q] + SectionLength[q]
      /\ \A r \in Bytes : Round[r] = Round[q] <=>
           r \in First[q]..First[q] + SectionLength[q] - 1
  BY Layout
<1>3. /\ SectionLength[p] \in Nat /\ SectionLength[p] > 0 /\ First[p] \in Bytes
      /\ \A r \in Bytes : Round[r] = Round[p] <=>
           r \in First[p]..First[p] + SectionLength[p] - 1
  BY Layout, Places
<1>4. CASE First[q] < q
  <2> DEFINE r == q - 1
  <2>1. r \in Bytes /\ First[q] <= r /\ r < First[q] + SectionLength[q]
        /\ First[p] <= r /\ r <= First[p] + SectionLength[p] - 1
    <3>1. /\ First[q] \in Nat /\ First[p] \in Nat /\ SectionLength[p] \in Nat
          /\ SectionLength[q] \in Nat /\ q \in 1..Len(Round) /\ Len(Round) \in Nat
          /\ First[q] >= 1 /\ First[q] < q /\ q < First[q] + SectionLength[q]
          /\ SectionLength[p] > 0 /\ q = First[p] + SectionLength[p]
      <4>1. SectionLength[q] \in Nat
        BY Layout
      <4> QED BY <1>2, <1>3, <1>4, <4>1, Places, SMTT(30)
    <3> QED BY <3>1, Places, SMTT(30)
  <2>2. Round[r] = Round[q] /\ Round[r] = Round[p]
    <3> HIDE DEF r
    <3> QED BY <1>2, <1>3, <2>1, Places, Layout, SMTT(30)
  <2> QED BY <1>1, <2>2
<1> QED BY <1>2, <1>4, Places

\* The first byte of the round starts a section.
LEMMA FirstOfRound == 1 \in Bytes /\ First[1] = 1
BY Layout, Places

-----------------------------------------------------------------------------
(* A packet.                                                               *)

Items == Bytes \cup {Stuffing}

\* The payload of a packet that begins at pos; at least one byte of it, and
\* all that Used counts, are bytes of the round.
Width == IF UnitStart THEN Room - 1 ELSE Room
Sender == packed \in BOOLEAN /\ pos \in Bytes

LEMMA RestPositive ==
  ASSUME NEW p \in Bytes
  PROVE  Rest(p) \in Nat /\ Rest(p) > 0
BY Layout, Places DEF Rest

LEMMA PacketSize ==
  ASSUME Sender
  PROVE  Width \in Nat /\ Width > 0 /\ Used \in 1..Width
<1>1. Rest(pos) \in Nat /\ Rest(pos) > 0
  BY RestPositive DEF Sender
<1>2. Room \in Nat /\ Room > 1
  BY FeedAssumption
<1> QED BY <1>1, <1>2 DEF Width, Used, Lesser

LEMMA InRound ==
  ASSUME NEW i \in Int
  PROVE  ((i % Len(Round)) + 1) \in Bytes
<1>1. i % Len(Round) \in 0..Len(Round) - 1
  BY Places, DivMod
<1> QED BY <1>1, Places

LEMMA PayloadBytes ==
  ASSUME Sender
  PROVE  /\ Payload \in Seq(Items) /\ Len(Payload) = Width
         /\ \A i \in 1..Used : /\ Payload[i] \in Bytes
                               /\ Payload[i] = ((pos + i - 2) % Len(Round)) + 1
<1>1. Width \in Nat /\ Used \in 1..Width /\ pos \in Nat
  BY PacketSize, Places DEF Sender
<1>2. Payload = [i \in 1..Width |->
        IF i <= Used THEN ((pos + i - 2) % Len(Round)) + 1 ELSE Stuffing]
  BY DEF Payload, Width
<1>3. \A i \in 1..Width : pos + i - 2 \in Int
  BY <1>1
<1>4. \A i \in 1..Width : (((pos + i - 2) % Len(Round)) + 1) \in Bytes
  BY <1>3, InRound, Zenon
<1>5. \A i \in 1..Width : Payload[i] \in Items
  BY <1>2, <1>4, Zenon DEF Items
<1>6. Payload \in [1..Width -> Items]
  BY <1>2, <1>5, Zenon
<1>7. Payload \in Seq(Items) /\ Len(Payload) = Width
  BY <1>1, <1>6
<1>8. \A i \in 1..Used : i \in 1..Width /\ i <= Used
  BY <1>1
<1> QED BY <1>2, <1>4, <1>7, <1>8, Zenon

LEMMA SentType ==
  ASSUME Sender, Sent
  PROVE  pos' \in Bytes
<1>1. pos + Used - 1 \in Int
  BY PacketSize, Places DEF Sender
<1> QED BY <1>1, InRound, Zenon DEF Sent

\* missed keeps to its bound.
LEMMA MissingType ==
  ASSUME Sender, missed \in 0..MaxMissed
  PROVE  Missing \in 0..MaxMissed
<1> DEFINE ended == {i \in 1..Used : Rest(Payload[i]) = 1 /\ Round[Payload[i]] \in Wanted}
<1>1. IsFiniteSet(1..Used) /\ ended \in SUBSET (1..Used)
  BY PacketSize, FS_Interval
<1>2. Cardinality(ended) \in Nat
  <2> HIDE DEF ended
  <2> QED BY <1>1, FS_Subset, FS_CardinalityType
<1>3. Missing = Lesser(missed + Cardinality(ended), MaxMissed)
  BY DEF Missing
<1> HIDE DEF ended
<1> QED BY <1>2, <1>3, FeedAssumption DEF Lesser

\* A section that process_section starts with is of the right table, and
\* its first byte is in the packet.
LEMMA StartHere ==
  ASSUME Sender, length = 0, ~Ignored
  PROVE  /\ UnitStart /\ Start \in Bytes /\ Round[Start] \in Wanted
         /\ Pointer \in Nat /\ Pointer + 1 <= Used
         /\ pos # First[pos] => packed /\ Pointer = Rest(pos) /\ Used = Room - 1
<1>1. UnitStart /\ Round[Start] \in Wanted
  BY DEF Ignored
<1>2. Rest(pos) \in Nat /\ Rest(pos) > 0 /\ Room \in Nat /\ Room > 1
  BY RestPositive, FeedAssumption DEF Sender
<1>3. /\ Pointer \in Nat /\ Pointer + 1 <= Used /\ Used \in Nat
      /\ pos # First[pos] => packed /\ Pointer = Rest(pos) /\ Used = Room - 1
  BY <1>1, <1>2 DEF Pointer, Used, UnitStart, Lesser
<1>4. Start \in Bytes
  <2>1. Pointer + 1 \in 1..Used
    BY <1>3
  <2> QED BY <2>1, PayloadBytes, Zenon DEF Start
<1> QED BY <1>1, <1>3, <1>4
-----------------------------------------------------------------------------
(* What is collected.                                                      *)

\* next holds less than length, and nothing between sections.
Assembling ==
  /\ next \in Seq(Items) /\ length \in Nat
  /\ Len(next) < length \/ (next = << >> /\ length = 0)

From == IF length # 0 THEN 1 ELSE Pointer + 1
Upto == Lesser(Len(Payload), From - 1 + Expected - Len(next))

\* Of a packet that is not ignored at least one byte is collected, and never
\* more than the section has.
LEMMA CollectedRange ==
  ASSUME Sender, Assembling, ~Ignored
  PROVE  /\ Expected \in Nat /\ Len(next) \in Nat /\ Len(next) < Expected
         /\ From \in 1..Width /\ Upto \in From..Width
         /\ Upto - From + 1 <= Expected - Len(next)
         /\ Upto = Width \/ Upto - From + 1 = Expected - Len(next)
<1>1. Width \in Nat /\ Width > 0 /\ Used \in 1..Width /\ Len(Payload) = Width
  BY PacketSize, PayloadBytes
<1>2. Len(next) \in Nat /\ length \in Nat
  BY LenProperties DEF Assembling
<1>3. CASE length # 0
  <2>1. From = 1 /\ Expected = length /\ Len(next) < length
    BY <1>3, EmptySeq DEF From, Expected, Assembling
  <2> QED BY <1>1, <1>2, <2>1 DEF Upto, Lesser
<1>4. CASE length = 0
  <2>1. Start \in Bytes /\ Pointer \in Nat /\ Pointer + 1 <= Used
    BY <1>4, StartHere
  <2>2. SectionLength[Start] \in Nat /\ SectionLength[Start] > 0
    BY <2>1, SomeBytes
  <2>3. From = Pointer + 1 /\ Expected = SectionLength[Start] /\ Len(next) = 0
    BY <1>2, <1>4, EmptySeq DEF From, Expected, Assembling
  <2> QED BY <1>1, <1>2, <2>1, <2>2, <2>3, SMTT(30) DEF Upto, Lesser
<1> QED BY <1>3, <1>4

LEMMA CollectedBytes ==
  ASSUME Sender, Assembling, ~Ignored
  PROVE  /\ Collected \in Seq(Items)
         /\ Len(Collected) = Len(next) + (Upto - From + 1)
         /\ \A i \in 1..Len(next) : Collected[i] = next[i]
         /\ \A i \in 1..Upto - From + 1 :
              Collected[Len(next) + i] = Payload[From + i - 1]
<1> DEFINE more == SubSeq(Payload, From, Upto)
<1>1. /\ From \in 1..Width /\ Upto \in From..Width /\ Len(next) \in Nat
      /\ Width \in Nat
  BY CollectedRange, PacketSize
<1>2. \A i \in From..Upto : Payload[i] \in Items
  <2>1. \A i \in From..Upto : i \in 1..Len(Payload)
    BY <1>1, PayloadBytes
  <2> QED BY <2>1, PayloadBytes, ElementOfSeq, Zenon
<1>3. From \in Int /\ Upto \in Int
  BY <1>1
<1>4. /\ more \in Seq(Items)
      /\ Len(more) = IF From <= Upto THEN Upto - From + 1 ELSE 0
      /\ \A i \in 1..Upto - From + 1 : more[i] = Payload[From + i - 1]
  <2>1. ASSUME NEW m \in Int, NEW n \in Int, \A i \in m..n : Payload[i] \in Items
        PROVE  /\ SubSeq(Payload, m, n) \in Seq(Items)
               /\ Len(SubSeq(Payload, m, n)) = IF m <= n THEN n - m + 1 ELSE 0
               /\ \A i \in 1..n - m + 1 : SubSeq(Payload, m, n)[i] = Payload[m + i - 1]
    BY <2>1, SubSeqProperties
  <2> QED BY <1>2, <1>3, <2>1, Zenon
<1>5. Collected = next \o more /\ next \in Seq(Items)
  BY DEF Collected, From, Upto, Assembling
<1> HIDE DEF more
<1>6. /\ next \o more \in Seq(Items)
      /\ Len(next \o more) = Len(next) + Len(more)
      /\ \A i \in 1..Len(next) + Len(more) :
           (next \o more)[i] = IF i <= Len(next) THEN next[i] ELSE more[i - Len(next)]
  BY <1>4, <1>5, ConcatProperties, Zenon
<1>7. Len(more) = Upto - From + 1
  BY <1>1, <1>4
<1>8. \A i \in 1..Len(next) : Collected[i] = next[i]
  BY <1>1, <1>5, <1>6, <1>7
<1>9. ASSUME NEW i \in 1..Upto - From + 1
      PROVE  Collected[Len(next) + i] = Payload[From + i - 1]
  <2>1. Len(next) + i \in 1..Len(next) + Len(more) /\ ~(Len(next) + i <= Len(next))
        /\ (Len(next) + i) - Len(next) = i
    BY <1>1, <1>7
  <2>2. Collected[Len(next) + i] = more[i]
    BY <1>5, <1>6, <2>1
  <2> QED BY <1>4, <2>2
<1> QED BY <1>5, <1>6, <1>7, <1>8, <1>9

\* Within a section the first byte stays, at its start it is Start.
LEMMA FirstByte ==
  ASSUME Sender, Assembling, ~Ignored
  PROVE  /\ Collected # << >> /\ Len(Collected) <= Expected
         /\ length # 0 /\ next # << >> => Collected[1] = next[1]
         /\ length = 0 => Collected[1] = Start
<1>1. /\ Len(next) \in Nat /\ Expected \in Nat
      /\ From \in Nat /\ Upto \in From..Width /\ Width \in Nat
      /\ Upto - From + 1 <= Expected - Len(next)
  BY CollectedRange, PacketSize
<1>2. Collected # << >> /\ Len(Collected) <= Expected
  BY <1>1, CollectedBytes, EmptySeq
<1>3. ASSUME next # << >> PROVE Collected[1] = next[1]
  <2>1. 1 \in 1..Len(next)
    BY <1>1, <1>3, EmptySeq DEF Assembling
  <2> QED BY <2>1, CollectedBytes
<1>4. ASSUME length = 0 PROVE Collected[1] = Start
  <2>1. Len(next) = 0 /\ From = Pointer + 1
    BY <1>1, <1>4, EmptySeq DEF Assembling, From
  <2>2. 1 \in 1..Upto - From + 1 /\ Len(next) + 1 = 1 /\ From + 1 - 1 = From
    BY <1>1, <2>1
  <2>3. Collected[Len(next) + 1] = Payload[From + 1 - 1]
    BY <2>2, CollectedBytes, Zenon
  <2> QED BY <2>1, <2>2, <2>3 DEF Start
<1> QED BY <1>2, <1>3, <1>4

-----------------------------------------------------------------------------
(* Types and genuineness.                                                  *)

\* Between two packets of a section the first byte of it has come, and it is
\* one of a wanted section.
Begun == length # 0 => next # << >> /\ next[1] \in Bytes /\ Round[next[1]] \in Wanted

Inv == TypeOK /\ Begun /\ Genuine

LEMMA InitInv == Init => Inv
<1> SUFFICES ASSUME Init PROVE Inv
  OBVIOUS
<1>1. pos \in Bytes
  BY Layout DEF Init
<1> QED BY <1>1, EmptySeq, FeedAssumption DEF Init, Inv, TypeOK, Begun, Genuine

LEMMA StateParts ==
  ASSUME TypeOK
  PROVE  Sender /\ Assembling /\ missed \in 0..MaxMissed
BY DEF TypeOK, Sender, Assembling, Items

LEMMA IgnoreInv ==
  ASSUME Inv, Ignore
  PROVE  Inv'
<1>1. Sender /\ missed \in 0..MaxMissed
  BY StateParts DEF Inv
<1>2. pos' \in Bytes
  BY <1>1, SentType DEF Ignore
<1>3. missed' \in 0..MaxMissed
  BY <1>1, MissingType DEF Ignore
<1> QED BY <1>2, <1>3 DEF Ignore, Inv, TypeOK, Begun, Genuine, CrcOk, Section

LEMMA LoseInv ==
  ASSUME Inv, Lose
  PROVE  Inv'
<1>1. Sender
  BY StateParts DEF Inv
<1>2. pos' \in Bytes
  BY <1>1, SentType DEF Lose
<1>3. lost' \in 0..MaxLost /\ missed' \in 0..MaxMissed
  BY FeedAssumption DEF Lose, Inv, TypeOK
<1> QED BY <1>2, <1>3 DEF Lose, Inv, TypeOK, Begun, Genuine, Section

\* The first byte collected is one of a wanted section.
LEMMA FirstWanted ==
  ASSUME Inv, ~Ignored
  PROVE  Collected[1] \in Bytes /\ Round[Collected[1]] \in Wanted
<1>1. Sender /\ Assembling
  BY StateParts DEF Inv
<1>2. CASE length = 0
  BY <1>1, <1>2, FirstByte, StartHere
<1>3. CASE length # 0
  BY <1>1, <1>3, FirstByte DEF Inv, Begun
<1> QED BY <1>2, <1>3

LEMMA CollectInv ==
  ASSUME Inv, Collect
  PROVE  Inv'
<1>1. Sender /\ Assembling /\ missed \in 0..MaxMissed
  BY StateParts DEF Inv
<1>2. pos' \in Bytes /\ missed' \in 0..MaxMissed
  BY <1>1, SentType, MissingType DEF Collect
<1>3. next' = Collected /\ length' = Expected /\ Len(Collected) < Expected /\ ~Ignored
  BY DEF Collect
<1>4. Collected \in Seq(Items) /\ Collected # << >> /\ Expected \in Nat
  BY <1>1, <1>3, CollectedBytes, CollectedRange, FirstByte
<1>5. Begun'
  BY <1>3, <1>4, FirstWanted DEF Begun
<1>6. Genuine'
  BY DEF Collect, Inv, Genuine, Section
<1>7. TypeOK'
  BY <1>2, <1>3, <1>4 DEF Collect, Inv, TypeOK, Items
<1> QED BY <1>5, <1>6, <1>7 DEF Inv

LEMMA CompleteInv ==
  ASSUME Inv, Complete
  PROVE  Inv'
<1>1. Sender /\ Assembling /\ missed \in 0..MaxMissed
  BY StateParts DEF Inv
<1>2. pos' \in Bytes /\ Missing \in 0..MaxMissed /\ 0 \in 0..MaxMissed
  BY <1>1, SentType, MissingType, FeedAssumption DEF Complete
<1>3. next' = << >> /\ length' = 0 /\ ~Ignored
  BY DEF Complete
<1>4. Collected \in Seq(Items)
  BY <1>1, <1>3, CollectedBytes
<1>5. Begun'
  BY <1>3 DEF Begun
<1>6. CASE CrcOk(Collected)
  <2>1. curr' = Collected /\ missed' = 0
    BY <1>6 DEF Complete
  <2>2. Genuine'
    BY <1>3, <1>6, <2>1, FirstWanted DEF Genuine, CrcOk, Section
  <2>3. TypeOK'
    BY <1>2, <1>3, <1>4, <2>1, EmptySeq DEF Complete, Inv, TypeOK, Items
  <2> QED BY <1>5, <2>2, <2>3 DEF Inv
<1>7. CASE ~CrcOk(Collected)
  <2>1. curr' = curr /\ missed' = Missing
    BY <1>7 DEF Complete
  <2>2. Genuine'
    BY <2>1 DEF Inv, Genuine, Section
  <2>3. TypeOK'
    BY <1>2, <1>3, <2>1, EmptySeq DEF Complete, Inv, TypeOK, Items
  <2> QED BY <1>5, <2>2, <2>3 DEF Inv
<1> QED BY <1>6, <1>7

LEMMA InvInductive == Inv /\ [Next]_vars => Inv'
<1> SUFFICES ASSUME Inv, [Next]_vars PROVE Inv'
  OBVIOUS
<1>1. CASE Ignore
  BY <1>1, IgnoreInv
<1>2. CASE Collect
  BY <1>2, CollectInv
<1>3. CASE Complete
  BY <1>3, CompleteInv
<1>4. CASE Lose
  BY <1>4, LoseInv
<1>5. CASE UNCHANGED vars
  BY <1>5 DEF vars, Inv, TypeOK, Begun, Genuine, Section
<1> QED BY <1>1, <1>2, <1>3, <1>4, <1>5 DEF Next, Receive

\* process_section never collects more than the length it has announced, so
\* that it always comes to an end of a section.
THEOREM TypeCorrect == Spec => []TypeOK
<1>1. Inv => TypeOK
  BY DEF Inv
<1> QED BY <1>1, InitInv, InvInductive, PTL DEF Spec

\* Whatever packets are lost, what process_section hands over is a section
\* that was sent, whole, and of the table asked for.
THEOREM OnlyGenuine == Spec => []Genuine
<1>1. Inv => Genuine
  BY DEF Inv
<1> QED BY <1>1, InitInv, InvInductive, PTL DEF Spec
-----------------------------------------------------------------------------
(* What a loss costs when every section starts in a packet of its own.     *)

\* Less than a packet with a start holds is never sent of an unended section.
Spaced == pos # First[pos] => pos - First[pos] >= Room - 1

\* A section has been started that is wanted and is not being collected.
Pending == IF pos # First[pos] /\ Round[pos] \in Wanted THEN 1 ELSE 0

\* next is what has been sent of the section being sent.
Clean ==
  /\ pos # First[pos]
  /\ length = SectionLength[pos]
  /\ Len(next) = pos - First[pos]
  /\ \A i \in 1..Len(next) : next[i] = First[pos] + i - 1
  /\ missed <= Swallowed

\* Each section missed since a loss has left a packet's worth in next, beyond
\* that of the packet with the start.
Broken ==
  /\ Room - 1 <= Len(next)
  /\ missed * (Room - 1) <= Len(next) - (Room - 1)

Cost ==
  ~packed =>
    /\ Spaced
    /\ length = 0 => missed + Pending <= Swallowed
    /\ length # 0 => (\E p \in Bytes : length = SectionLength[p]) /\ (Clean \/ Broken)
\* Such a sender fills its packets, and begins anew after a section's end.
LEMMA SentApart ==
  ASSUME Sender, ~packed, Sent
  PROVE  /\ Used \in Nat /\ Rest(pos) \in Nat /\ Used <= Rest(pos)
         /\ Used < Rest(pos) =>
              /\ pos' \in Bytes /\ pos' = pos + Used /\ Used = Width
              /\ Round[pos'] = Round[pos]
              /\ First[pos'] = First[pos] /\ SectionLength[pos'] = SectionLength[pos]
         /\ Used = Rest(pos) => pos' \in Bytes /\ First[pos'] = pos'
<1>1. /\ pos \in Bytes /\ pos \in 1..Len(Round) /\ Len(Round) \in Nat
      /\ First[pos] \in Nat /\ SectionLength[pos] \in Nat
      /\ First[pos] <= pos /\ First[pos] + SectionLength[pos] <= Len(Round) + 1
      /\ Rest(pos) = First[pos] + SectionLength[pos] - pos
  BY Layout, Places DEF Sender, Rest
<1>2. Width \in Nat /\ Used \in 1..Width /\ Rest(pos) \in Nat /\ Rest(pos) > 0
  BY PacketSize, RestPositive DEF Sender
<1>3. Used <= Rest(pos) /\ (Used < Rest(pos) => Used = Width)
  BY <1>2, FeedAssumption DEF Used, Width, Lesser
<1>4. pos' = ((pos + Used - 1) % Len(Round)) + 1
  BY DEF Sent
<1>5. CASE Used < Rest(pos)
  <2>1. pos + Used - 1 \in 0..Len(Round) - 1 /\ pos + Used \in Bytes
    BY <1>1, <1>2, <1>5, Places, SMTT(30)
  <2>2. (pos + Used - 1) % Len(Round) = pos + Used - 1
    BY <2>1, Places, ModSmall, Zenon
  <2>3. pos' = pos + Used
    BY <1>1, <1>2, <1>4, <2>2, SMTT(30)
  <2>4. Round[pos'] = Round[pos]
    <3>1. pos + Used \in First[pos]..First[pos] + SectionLength[pos] - 1
      BY <1>1, <1>2, <1>5, SMTT(30)
    <3> QED BY <1>1, <2>1, <2>3, <3>1, Layout
  <2>5. First[pos'] = First[pos] /\ SectionLength[pos'] = SectionLength[pos]
    BY <1>1, <2>1, <2>3, <2>4, SameSection
  <2> QED BY <1>2, <1>3, <1>5, <2>1, <2>3, <2>4, <2>5
<1>6. CASE Used = Rest(pos)
  <2>1. CASE pos + Used \in Bytes
    <3>1. pos + Used - 1 \in 0..Len(Round) - 1
      BY <1>1, <1>2, <2>1, Places
    <3>2. (pos + Used - 1) % Len(Round) = pos + Used - 1
      BY <3>1, Places, ModSmall, Zenon
    <3>3. pos' = pos + Used
      BY <1>1, <1>2, <1>4, <3>2
    <3>4. pos + Used = First[pos] + SectionLength[pos]
      BY <1>1, <1>2, <1>6, SMTT(30)
    <3> QED BY <1>1, <1>2, <1>6, <2>1, <3>3, <3>4, AfterSection
  <2>2. CASE ~(pos + Used \in Bytes)
    <3>1. pos + Used - 1 = Len(Round)
      <4>1. /\ pos \in Nat /\ pos > 0 /\ Used \in Nat /\ Len(Round) \in Nat
            /\ Bytes = 1..Len(Round)
        BY <1>1, <1>2, Places
      <4>2. pos + Used <= Len(Round) + 1
        BY <1>1, <1>6, <4>1, SMTT(30)
      <4>3. pos + Used > Len(Round)
        BY <2>2, <4>1
      <4> QED BY <4>1, <4>2, <4>3
    <3>2. Len(Round) % Len(Round) = 0
      <4>1. 0 % Len(Round) = 0
        BY Places, ModSmall
      <4>2. (0 + Len(Round)) % Len(Round) = 0 % Len(Round)
        BY Places, ModPeriod
      <4> QED BY <1>1, <4>1, <4>2
    <3>3. pos' = 1
      BY <1>4, <3>1, <3>2
    <3> QED BY <1>2, <1>6, <3>3, FirstOfRound
  <2> QED BY <2>1, <2>2
<1> QED BY <1>2, <1>3, <1>5, <1>6

\* Its packets hold bytes of one section.
LEMMA PayloadApart ==
  ASSUME Sender, ~packed, NEW i \in 1..Used
  PROVE  /\ Payload[i] = pos + i - 1 /\ Payload[i] \in Bytes
         /\ Round[Payload[i]] = Round[pos]
         /\ Rest(Payload[i]) = Rest(pos) - i + 1
<1>1. /\ pos \in Bytes /\ pos \in 1..Len(Round) /\ Len(Round) \in Nat
      /\ First[pos] \in Nat /\ SectionLength[pos] \in Nat
      /\ First[pos] <= pos /\ First[pos] + SectionLength[pos] <= Len(Round) + 1
      /\ Rest(pos) = First[pos] + SectionLength[pos] - pos
  BY Layout, Places DEF Sender, Rest
<1>2. Width \in Nat /\ Used \in 1..Width /\ Rest(pos) \in Nat /\ Rest(pos) > 0
  BY PacketSize, RestPositive DEF Sender
<1>3. Used <= Rest(pos)
  BY <1>2 DEF Used, Width, Lesser
<1>4. pos + i - 2 \in 0..Len(Round) - 1 /\ i \in Nat /\ i >= 1 /\ i <= Used
  BY <1>1, <1>2, <1>3, SMTT(30)
<1>5. (pos + i - 2) % Len(Round) = pos + i - 2
  BY <1>4, Places, ModSmall, Zenon
<1>6. Payload[i] \in Bytes /\ Payload[i] = ((pos + i - 2) % Len(Round)) + 1
  BY PayloadBytes
<1>7. Payload[i] = pos + i - 1
  BY <1>1, <1>4, <1>5, <1>6, SMTT(30)
<1>8. Round[Payload[i]] = Round[pos]
  <2>1. pos + i - 1 \in First[pos]..First[pos] + SectionLength[pos] - 1
    BY <1>1, <1>2, <1>3, <1>4, SMTT(30)
  <2> QED BY <1>1, <1>6, <1>7, <2>1, Layout
<1>9. First[Payload[i]] = First[pos] /\ SectionLength[Payload[i]] = SectionLength[pos]
  BY <1>1, <1>6, <1>8, SameSection
<1> QED BY <1>1, <1>4, <1>6, <1>7, <1>8, <1>9, SMTT(30) DEF Rest

\* A packet ends one section at most, and none that goes on after it.
LEMMA MissingApart ==
  ASSUME Sender, ~packed, missed \in 0..MaxMissed
  PROVE  /\ Missing <= missed + 1 /\ Missing \in Nat
         /\ Used # Rest(pos) \/ Round[pos] \notin Wanted => Missing <= missed
<1> DEFINE ended == {i \in 1..Used : Rest(Payload[i]) = 1 /\ Round[Payload[i]] \in Wanted}
           last == Rest(pos)..Rest(pos)
<1>1. Rest(pos) \in Nat /\ Used \in Nat
  BY PacketSize, RestPositive DEF Sender
<1>2. \A i \in ended : i = Rest(pos) /\ i <= Used /\ Round[pos] \in Wanted
  BY <1>1, PayloadApart
<1>3. ended \in SUBSET last
  BY <1>1, <1>2
<1>4. IsFiniteSet(last) /\ Cardinality(last) = 1
  <2>1. \A r \in Int : IsFiniteSet(r..r) /\ Cardinality(r..r) = 1
    <3> TAKE r \in Int
    <3>1. ~(r > r) /\ r - r + 1 = 1
      OBVIOUS
    <3> QED BY <3>1, FS_Interval
  <2>2. Rest(pos) \in Int
    BY <1>1
  <2> QED BY <2>1, <2>2, Zenon
<1>5. Used # Rest(pos) \/ Round[pos] \notin Wanted => ended = {}
  <2>1. Used <= Rest(pos)
    BY <1>1 DEF Used, Lesser
  <2> QED BY <1>1, <1>2, <2>1
<1>6. Missing = Lesser(missed + Cardinality(ended), MaxMissed)
  BY DEF Missing
<1> HIDE DEF ended, last
<1>7. Cardinality(ended) <= 1 /\ Cardinality(ended) \in Nat
  BY <1>3, <1>4, FS_Subset, FS_CardinalityType
<1>8. Used # Rest(pos) \/ Round[pos] \notin Wanted => Cardinality(ended) = 0
  BY <1>5, FS_EmptySet
<1> QED BY <1>6, <1>7, <1>8, FeedAssumption, SMTT(30) DEF Lesser

\* There is a longest section, and Swallowed is about it.
LEMMA LongestSection ==
  \E n \in Nat : /\ Swallowed = (n - 1) \div (Room - 1)
                 /\ \A p \in Bytes : SectionLength[p] <= n
<1> DEFINE lengths == {SectionLength[q] : q \in Bytes}
           longest == CHOOSE n \in lengths : \A q \in Bytes : SectionLength[q] <= n
<1>1. lengths \subseteq 0..Len(Round) /\ lengths # {}
  <2>1. \A q \in Bytes : SectionLength[q] \in 0..Len(Round)
    <3> TAKE q \in Bytes
    <3>1. /\ First[q] \in 1..Len(Round) /\ SectionLength[q] \in Nat
          /\ First[q] + SectionLength[q] <= Len(Round) + 1
      BY Layout, Places
    <3> QED BY <3>1, Places
  <2>2. 1 \in Bytes
    BY Places
  <2> QED BY <2>1, <2>2, Zenon
<1>2. \E n \in lengths : \A q \in Bytes : SectionLength[q] <= n
  <2>1. \E n \in lengths : \A k \in lengths : k <= n
    <3> HIDE DEF lengths
    <3> QED BY <1>1, Places, Greatest
  <2> QED BY <2>1
<1>3. longest \in lengths /\ \A q \in Bytes : SectionLength[q] <= longest
  BY <1>2, Zenon
<1>4. longest \in Nat
  <2> HIDE DEF lengths, longest
  <2> QED BY <1>1, <1>3, Places
<1>5. Swallowed = (longest - 1) \div (Room - 1)
  BY DEF Swallowed
<1> HIDE DEF longest
<1> QED BY <1>3, <1>4, <1>5, Zenon

LEMMA SwallowedInt == Swallowed \in Int
<1>1. PICK n \in Nat : Swallowed = (n - 1) \div (Room - 1)
  BY LongestSection
<1>2. Room - 1 \in Nat /\ Room - 1 > 0 /\ n - 1 \in Int
  BY FeedAssumption
<1> QED BY <1>1, <1>2, DivMod, Zenon

LEMMA SwallowedBound ==
  ASSUME NEW p \in Bytes, NEW m \in Int, m * (Room - 1) <= SectionLength[p] - 1
  PROVE  m <= Swallowed
<1>1. PICK n \in Nat : /\ Swallowed = (n - 1) \div (Room - 1)
                       /\ \A q \in Bytes : SectionLength[q] <= n
  BY LongestSection
<1>2. SectionLength[p] <= n /\ SectionLength[p] \in Nat
  BY <1>1, SomeBytes
<1>3. /\ Room - 1 \in Nat /\ Room - 1 > 0 /\ n - 1 \in Int
      /\ (Room - 1) * m <= n - 1
  BY <1>2, FeedAssumption
<1> QED BY <1>1, <1>3, DivAtLeast

LEMMA SwallowedSome ==
  /\ 0 <= Swallowed
  /\ \A p \in Bytes : Room - 1 <= p - First[p] => 1 <= Swallowed
<1>1. Room \in Nat /\ Room > 1
  BY FeedAssumption
<1>2. 0 <= Swallowed
  <2>1. 1 \in Bytes
    BY Places
  <2>2. 0 * (Room - 1) <= SectionLength[1] - 1
    BY <1>1, <2>1, SomeBytes
  <2> QED BY <2>1, <2>2, SwallowedBound
<1>3. ASSUME NEW p \in Bytes, Room - 1 <= p - First[p] PROVE 1 <= Swallowed
  <2>1. /\ First[p] \in Nat /\ p \in Nat /\ SectionLength[p] \in Nat
        /\ p < First[p] + SectionLength[p]
    BY Layout, Places
  <2>2. 1 * (Room - 1) <= SectionLength[p] - 1
    BY <1>1, <1>3, <2>1
  <2> QED BY <2>2, SwallowedBound
<1> QED BY <1>2, <1>3

LEMMA SpacedKept ==
  ASSUME Sender, ~packed, Spaced, Sent
  PROVE  Spaced'
<1>1. /\ First[pos] \in Nat /\ pos \in Nat /\ First[pos] <= pos
      /\ Width \in Nat /\ Used \in 1..Width /\ Room \in Nat
  BY Layout, Places, PacketSize, FeedAssumption DEF Sender
<1>2. CASE Used < Rest(pos)
  <2>1. pos' = pos + Used /\ Used = Width /\ First[pos'] = First[pos]
    BY <1>2, SentApart
  <2>2. pos # First[pos] => pos - First[pos] >= Room - 1
    BY DEF Spaced
  <2>3. pos = First[pos] => Width = Room - 1
    BY DEF Width, UnitStart
  <2>4. pos' - First[pos'] >= Room - 1
    BY <1>1, <2>1, <2>2, <2>3
  <2> QED BY <2>4 DEF Spaced
<1>3. CASE Used = Rest(pos)
  <2>1. pos' = First[pos']
    BY <1>3, SentApart
  <2> QED BY <2>1 DEF Spaced
<1> QED BY <1>2, <1>3, SentApart

\* Of a section that is sent it is counted once that it is missed.
LEMMA MissedOnce ==
  ASSUME Sender, ~packed, Sent, missed \in 0..MaxMissed
  PROVE  /\ Missing \in Nat /\ Pending' \in 0..1
         /\ Missing + Pending' <= missed + (IF Round[pos] \in Wanted THEN 1 ELSE 0)
<1>1. Missing \in Nat /\ Pending' \in 0..1
  BY MissingApart DEF Pending
<1>2. CASE Used = Rest(pos)
  <2>1. Pending' = 0
    BY <1>2, SentApart DEF Pending
  <2>2. Missing <= missed + (IF Round[pos] \in Wanted THEN 1 ELSE 0)
    <3>1. CASE Round[pos] \in Wanted
      BY <3>1, MissingApart
    <3>2. CASE ~(Round[pos] \in Wanted)
      BY <3>2, MissingApart
    <3> QED BY <3>1, <3>2
  <2> QED BY <1>1, <2>1, <2>2
<1>3. CASE Used < Rest(pos)
  <2>1. Round[pos'] = Round[pos]
    BY <1>3, SentApart
  <2>2. Pending' <= IF Round[pos] \in Wanted THEN 1 ELSE 0
    BY <2>1 DEF Pending
  <2>3. Missing <= missed
    BY <1>3, SentApart, MissingApart
  <2>4. missed \in Int
    OBVIOUS
  <2>5. CASE Round[pos] \in Wanted
    <3>1. Missing + Pending' <= missed + 1
      <4> DEFINE m == Missing
                 w == Pending'
      <4>1. m \in Nat /\ w \in 0..1 /\ m <= missed
        BY <1>1, <2>3
      <4> HIDE DEF m, w
      <4>2. m + w <= missed + 1
        BY <2>4, <4>1
      <4> QED BY <4>2 DEF m, w
    <3> QED BY <1>1, <2>5, <3>1
  <2>6. CASE ~(Round[pos] \in Wanted)
    <3>1. Pending' = 0
      BY <1>1, <2>2, <2>6
    <3> QED BY <1>1, <2>3, <2>4, <2>6, <3>1
  <2> QED BY <2>5, <2>6
<1> QED BY <1>2, <1>3, SentApart

\* As long as nothing of it is lost a section is collected as it is sent.
LEMMA Following ==
  ASSUME Sender, Assembling, ~packed, ~Ignored, length = 0 \/ Clean
  PROVE  /\ Expected = SectionLength[pos] /\ Expected > 0
         /\ Len(Collected) = pos - First[pos] + Used
         /\ Expected - Len(Collected) = Rest(pos) - Used
         /\ \A i \in 1..Len(Collected) : Collected[i] = First[pos] + i - 1
<1>1. /\ First[pos] \in Nat /\ pos \in Nat /\ First[pos] <= pos
      /\ SectionLength[pos] \in Nat /\ pos < First[pos] + SectionLength[pos]
      /\ Rest(pos) = First[pos] + SectionLength[pos] - pos
  BY Layout, Places DEF Sender, Rest
<1>2. /\ Width \in Nat /\ Used \in 1..Width /\ Len(Payload) = Width
      /\ Used = IF Width <= Rest(pos) THEN Width ELSE Rest(pos)
  BY PacketSize, PayloadBytes DEF Used, Width, Lesser
<1>3. /\ From = 1 /\ Expected = SectionLength[pos] /\ Len(next) = pos - First[pos]
      /\ \A i \in 1..Len(next) : next[i] = First[pos] + i - 1
  <2>1. CASE length = 0
    <3>1. pos = First[pos]
      BY <2>1, StartHere
    <3>2. Pointer = 0
      BY <3>1 DEF Pointer
    <3>3. 1 \in 1..Used /\ Start = Payload[1]
      BY <1>2, <3>2 DEF Start
    <3>4. Payload[1] = pos + 1 - 1
      BY <3>3, PayloadApart
    <3>5. Start = pos
      BY <1>1, <3>3, <3>4
    <3>6. Len(next) = 0
      BY <2>1, EmptySeq, CollectedRange DEF Assembling
    <3> QED BY <1>1, <2>1, <3>1, <3>2, <3>5, <3>6 DEF From, Expected
  <2>2. CASE length # 0
    BY <2>2 DEF From, Expected, Clean
  <2> QED BY <2>1, <2>2
<1>4. Upto = Used
  <2>1. Upto = Lesser(Width, 1 - 1 + SectionLength[pos] - (pos - First[pos]))
    BY <1>2, <1>3 DEF Upto
  <2> QED BY <1>1, <1>2, <2>1, SMTT(30) DEF Lesser
<1>5. /\ Len(Collected) = Len(next) + (Upto - From + 1)
      /\ \A i \in 1..Len(next) : Collected[i] = next[i]
      /\ \A i \in 1..Upto - From + 1 :
           Collected[Len(next) + i] = Payload[From + i - 1]
  BY CollectedBytes
<1>6. Len(Collected) = Len(next) + Used
  BY <1>1, <1>2, <1>3, <1>4, <1>5
<1>7. /\ Len(next) \in Nat /\ Len(next) = pos - First[pos]
      /\ Upto - From + 1 = Used /\ Used \in Nat
  BY <1>1, <1>2, <1>3, <1>4
<1>8. ASSUME NEW i \in 1..Len(Collected) PROVE Collected[i] = First[pos] + i - 1
  <2>1. CASE i <= Len(next)
    <3>1. i \in 1..Len(next)
      BY <1>1, <1>3, <2>1
    <3> QED BY <1>3, <1>5, <3>1
  <2>2. CASE i > Len(next)
    <3> DEFINE k == i - Len(next)
    <3>1. k \in 1..Used /\ k \in 1..Upto - From + 1 /\ Len(next) + k = i
          /\ From + k - 1 = k
      <4>1. i \in 1..Len(next) + Used /\ i > Len(next) /\ From = 1
        BY <1>3, <1>6, <2>2
      <4> QED BY <1>7, <4>1
    <3>2. pos + k - 1 = First[pos] + i - 1
      BY <1>1, <1>7, SMTT(30)
    <3> HIDE DEF k
    <3>3. Collected[i] = Payload[k]
      BY <1>5, <3>1
    <3>4. Payload[k] = pos + k - 1
      BY <3>1, PayloadApart
    <3> QED BY <3>2, <3>3, <3>4
  <2> QED BY <1>7, <2>1, <2>2
<1>9. /\ Expected = SectionLength[pos] /\ Expected > 0
      /\ Expected - Len(Collected) = Rest(pos) - Used
  <2>1. Expected = SectionLength[pos]
    BY <1>3
  <2>2. SectionLength[pos] > 0
    BY SomeBytes DEF Sender
  <2>3. Len(Collected) = (pos - First[pos]) + Used
    BY <1>6, <1>7
  <2>4. SectionLength[pos] - ((pos - First[pos]) + Used) = Rest(pos) - Used
    BY <1>1, <1>7, SMTT(30)
  <2> QED BY <2>1, <2>2, <2>3, <2>4
<1>10. Len(Collected) = pos - First[pos] + Used
  BY <1>6, <1>7
<1> QED BY <1>8, <1>9, <1>10

\* If that comes to the end the CRC is right.
LEMMA FollowedOk ==
  ASSUME Sender, Assembling, ~packed, ~Ignored, length = 0 \/ Clean,
         Len(Collected) = Expected
  PROVE  CrcOk(Collected)
<1> DEFINE f == First[pos]
           n == SectionLength[pos]
<1>1. /\ f \in Bytes /\ f \in Nat /\ n \in Nat /\ n > 0
      /\ Round[f] = Round[pos]
  <2>1. /\ f \in Bytes /\ f <= pos /\ pos < f + n /\ n \in Nat
        /\ \A q \in Bytes : Round[q] = Round[pos] <=> q \in f..f + n - 1
    BY Layout DEF Sender
  <2>2. f \in f..f + n - 1 /\ n > 0
    <3> HIDE DEF f, n
    <3> QED BY <2>1, Places DEF Sender
  <2> QED BY <2>1, <2>2, Places
<1>2. First[f] = f /\ SectionLength[f] = n
  BY <1>1, SameSection DEF Sender
<1>3. /\ Collected \in Seq(Items) /\ Len(Collected) = n
      /\ \A i \in 1..Len(Collected) : Collected[i] = f + i - 1
  BY Following, CollectedBytes
<1>4. Collected = [i \in 1..n |-> f + i - 1]
  <2>1. Collected = [i \in 1..Len(Collected) |-> Collected[i]]
    BY <1>3, LenProperties
  <2> HIDE DEF f, n
  <2> QED BY <1>3, <2>1, Zenon
<1> HIDE DEF f, n
<1>5. Collected[1] = f
  BY <1>1, <1>3
<1>6. Section(f) = [i \in 1..n |-> f + i - 1]
  BY <1>2 DEF Section
<1> QED BY <1>4, <1>5, <1>6, Zenon DEF CrcOk
LEMMA InitCost == Init => Cost
<1> SUFFICES ASSUME Init PROVE Cost
  OBVIOUS
<1>1. PICK p \in Bytes : pos = First[p]
  BY DEF Init
<1>2. First[pos] = pos
  <2>1. /\ First[p] \in Bytes /\ First[p] <= p /\ p < First[p] + SectionLength[p]
        /\ SectionLength[p] \in Nat
        /\ \A q \in Bytes : Round[q] = Round[p] <=>
             q \in First[p]..First[p] + SectionLength[p] - 1
    BY Layout
  <2>2. First[p] \in First[p]..First[p] + SectionLength[p] - 1
    BY <2>1, Places
  <2> QED BY <1>1, <2>1, <2>2, SameSection
<1>3. length = 0 /\ missed = 0
  BY DEF Init
<1> QED BY <1>2, <1>3, SwallowedSome DEF Cost, Spaced, Pending

LEMMA IgnoreCost ==
  ASSUME Inv, Cost, Ignore
  PROVE  Cost'
<1> SUFFICES ASSUME ~packed PROVE Cost'
  BY DEF Cost, Ignore
<1>1. Sender /\ Assembling /\ missed \in 0..MaxMissed /\ Sent /\ Ignored
  BY StateParts DEF Inv, Ignore
<1>2. length = 0 /\ length' = 0 /\ missed' = Missing
  BY DEF Ignore, Ignored
<1>3. Spaced /\ missed + Pending <= Swallowed
  BY <1>2 DEF Cost
<1>4. Spaced'
  BY <1>1, <1>3, SpacedKept
<1>5. (IF Round[pos] \in Wanted THEN 1 ELSE 0) <= Pending
  <2>1. CASE pos # First[pos]
    BY <2>1 DEF Pending
  <2>2. CASE pos = First[pos]
    <3>1. UnitStart /\ Pointer = 0
      BY <2>2 DEF UnitStart, Pointer
    <3>2. Round[Start] \notin Wanted
      BY <1>1, <3>1 DEF Ignored
    <3>3. 1 \in 1..Used /\ Start = Payload[1]
      BY <1>1, <3>1, PacketSize DEF Start
    <3>4. Round[Start] = Round[pos]
      BY <1>1, <3>3, PayloadApart
    <3> QED BY <3>2, <3>4 DEF Pending
  <2> QED BY <2>1, <2>2
<1>6. missed' + Pending' <= Swallowed
  <2> DEFINE w == IF Round[pos] \in Wanted THEN 1 ELSE 0
             a == Pending
             b == Pending'
             m == Missing
             most == Swallowed
  <2>1. /\ m \in Nat /\ b \in 0..1 /\ m + b <= missed + w /\ w \in 0..1 /\ w <= a
        /\ a \in 0..1 /\ missed + a <= most
    BY <1>1, <1>3, <1>5, MissedOnce DEF Pending
  <2>2. most \in Int
    BY SwallowedInt
  <2> HIDE DEF w, a, b, m, most
  <2>3. missed \in Int
    BY <1>1
  <2>4. m + b <= most
    BY <2>1, <2>2, <2>3
  <2> QED BY <1>2, <2>4 DEF m, b, most
<1> QED BY <1>2, <1>4, <1>6 DEF Cost

LEMMA LoseCost ==
  ASSUME Inv, Cost, Lose
  PROVE  Cost'
<1> SUFFICES ASSUME ~packed PROVE Cost'
  BY DEF Cost, Lose
<1>1. Sender /\ Assembling /\ Sent
  BY StateParts DEF Inv, Lose
<1>2. missed' = 0 /\ next' = next /\ length' = length
  BY DEF Lose
<1>3. Spaced /\ Spaced'
  BY <1>1, SpacedKept DEF Cost
<1>4. length = 0 => missed' + Pending' <= Swallowed
  <2>1. CASE Pending' = 0
    BY <1>2, <2>1, SwallowedSome
  <2>2. CASE Pending' = 1
    <3>1. pos' # First[pos']
      BY <2>2 DEF Pending
    <3>2. pos' \in Bytes /\ Room - 1 <= pos' - First[pos']
      <4>1. pos' \in Bytes /\ pos' - First[pos'] >= Room - 1
        BY <1>1, <1>3, <3>1, SentType DEF Spaced
      <4>2. pos' \in Int /\ First[pos'] \in Int
        BY <4>1, Layout, Places
      <4> QED BY <4>1, <4>2, FeedAssumption
    <3>3. 1 <= Swallowed
      BY <3>2, SwallowedSome
    <3> QED BY <1>2, <2>2, <3>3
  <2> QED BY <2>1, <2>2 DEF Pending
<1>5. length # 0 => (\E p \in Bytes : length = SectionLength[p]) /\ Broken'
  <2> SUFFICES ASSUME length # 0
               PROVE  (\E p \in Bytes : length = SectionLength[p]) /\ Broken'
    OBVIOUS
  <2>1. (\E p \in Bytes : length = SectionLength[p]) /\ (Clean \/ Broken)
    BY DEF Cost
  <2>2. Len(next) \in Nat /\ Room \in Nat /\ pos \in Int /\ First[pos] \in Int
    BY <1>1, LenProperties, FeedAssumption, Layout, Places DEF Assembling, Sender
  <2>3. Room - 1 <= Len(next)
    BY <1>3, <2>1, <2>2 DEF Clean, Broken, Spaced
  <2>4. 0 * (Room - 1) <= Len(next) - (Room - 1)
    BY <2>2, <2>3
  <2> QED BY <1>2, <2>1, <2>3, <2>4 DEF Broken
<1> QED BY <1>2, <1>3, <1>4, <1>5 DEF Cost, Lose
LEMMA CollectCost ==
  ASSUME Inv, Cost, Collect
  PROVE  Cost'
<1> SUFFICES ASSUME ~packed PROVE Cost'
  BY DEF Cost, Collect
<1>1. Sender /\ Assembling /\ missed \in 0..MaxMissed /\ Sent /\ ~Ignored
  BY StateParts DEF Inv, Collect
<1>2. /\ next' = Collected /\ length' = Expected /\ missed' = Missing
      /\ Len(Collected) < Expected
  BY DEF Collect
<1>3. Spaced'
  BY <1>1, SpacedKept DEF Cost
<1>4. missed' \in Nat /\ missed' <= missed + 1
      /\ (Used # Rest(pos) => missed' <= missed)
  BY <1>1, <1>2, MissingApart
<1>5. CASE length = 0 \/ Clean
  <2>1. /\ Expected = SectionLength[pos] /\ Expected > 0
        /\ Len(Collected) = pos - First[pos] + Used
        /\ Expected - Len(Collected) = Rest(pos) - Used
        /\ \A i \in 1..Len(Collected) : Collected[i] = First[pos] + i - 1
    BY <1>1, <1>5, Following
  <2>2. Used < Rest(pos)
    <3>1. Expected \in Nat /\ Len(Collected) \in Nat /\ Rest(pos) \in Nat /\ Used \in Nat
      BY <1>1, CollectedRange, CollectedBytes, LenProperties, SentApart
    <3> QED BY <1>2, <2>1, <3>1
  <2>3. /\ pos' \in Bytes /\ pos' = pos + Used
        /\ First[pos'] = First[pos] /\ SectionLength[pos'] = SectionLength[pos]
    BY <1>1, <2>2, SentApart
  <2>4. Used \in Nat /\ Used > 0 /\ pos \in Nat /\ First[pos] \in Nat /\ First[pos] <= pos
    BY <1>1, PacketSize, Layout, Places DEF Sender
  <2>5. pos' # First[pos']
    BY <2>3, <2>4
  <2>6. Len(next') = pos' - First[pos']
    BY <1>2, <2>1, <2>3, <2>4
  <2>7. \A i \in 1..Len(next') : next'[i] = First[pos'] + i - 1
    BY <1>2, <2>1, <2>3
  <2>8. missed' <= Swallowed
    <3>1. missed <= Swallowed
      <4>1. CASE length = 0
        BY <1>1, <4>1, SwallowedInt DEF Cost, Pending
      <4>2. CASE Clean
        BY <4>2 DEF Clean
      <4> QED BY <1>5, <4>1, <4>2
    <3>2. missed' <= missed
      BY <1>4, <2>2, <2>4
    <3>3. missed \in Int
      BY <1>1
    <3> QED BY <1>4, <3>1, <3>2, <3>3, SwallowedInt
  <2>9. Clean'
    BY <1>2, <2>1, <2>3, <2>5, <2>6, <2>7, <2>8 DEF Clean
  <2>10. length' # 0 /\ \E p \in Bytes : length' = SectionLength[p]
    BY <1>1, <1>2, <2>1 DEF Sender
  <2> QED BY <1>3, <2>9, <2>10 DEF Cost
<1>6. CASE length # 0 /\ Broken
  <2>1. Expected = length /\ From = 1
    BY <1>6 DEF Expected, From
  <2>2. /\ Len(next) \in Nat /\ Width \in Nat /\ Upto \in 1..Width
        /\ Upto = Width \/ Upto - 1 + 1 = Expected - Len(next)
        /\ Len(Collected) = Len(next) + (Upto - 1 + 1) /\ Expected \in Nat
    BY <1>1, <2>1, CollectedRange, CollectedBytes, PacketSize
  <2>3. Upto = Width /\ Room - 1 <= Width /\ Room \in Nat
    BY <1>2, <2>2, FeedAssumption DEF Width
  <2>4. Len(next') \in Nat /\ Len(next') >= Len(next) + (Room - 1)
    BY <1>2, <2>2, <2>3
  <2>5. Room - 1 \in Nat /\ missed \in Int
    BY <1>1, FeedAssumption
  <2>6. missed' * (Room - 1) <= (missed + 1) * (Room - 1)
    BY <1>4, <2>5, TimesMonotone
  <2>7. (missed + 1) * (Room - 1) = missed * (Room - 1) + (Room - 1)
    BY <2>5
  <2>8. Broken'
    <3> DEFINE r == Room - 1
               c == missed * r
               d == missed' * r
    <3>1. /\ r \in Nat /\ c \in Int /\ d \in Int
          /\ r <= Len(next) /\ c <= Len(next) - r
          /\ d <= c + r
      BY <1>4, <1>6, <2>5, <2>6, <2>7, SMTT(30) DEF Broken
    <3> HIDE DEF r, c, d
    <3>2. r <= Len(next') /\ d <= Len(next') - r
      BY <2>2, <2>4, <3>1, SMTT(30) DEF r
    <3> QED BY <3>2 DEF Broken, r, d
  <2>9. length' = length
    BY <1>2, <2>1
  <2> QED BY <1>3, <1>6, <2>8, <2>9 DEF Cost
<1> QED BY <1>5, <1>6 DEF Cost

LEMMA CompleteCost ==
  ASSUME Inv, Cost, Complete
  PROVE  Cost'
<1> SUFFICES ASSUME ~packed PROVE Cost'
  BY DEF Cost, Complete
<1>1. Sender /\ Assembling /\ missed \in 0..MaxMissed /\ Sent /\ ~Ignored
  BY StateParts DEF Inv, Complete
<1>2. /\ length' = 0 /\ Len(Collected) = Expected
      /\ missed' = IF CrcOk(Collected) THEN 0 ELSE Missing
  BY DEF Complete
<1>3. Spaced'
  BY <1>1, SpacedKept DEF Cost
<1>4. CASE length = 0 \/ Clean
  <2>1. CrcOk(Collected)
    BY <1>1, <1>2, <1>4, FollowedOk
  <2>2. Used = Rest(pos)
    <3>1. Expected - Len(Collected) = Rest(pos) - Used
      BY <1>1, <1>4, Following
    <3>2. Expected \in Nat /\ Rest(pos) \in Nat /\ Used \in Nat
      BY <1>1, CollectedRange, SentApart
    <3> QED BY <1>2, <3>1, <3>2
  <2>3. Pending' = 0
    BY <1>1, <2>2, SentApart DEF Pending
  <2>4. missed' + Pending' <= Swallowed
    BY <1>2, <2>1, <2>3, SwallowedSome
  <2> QED BY <1>2, <1>3, <2>4 DEF Cost
<1>5. CASE length # 0 /\ Broken
  <2>1. PICK p \in Bytes : length = SectionLength[p]
    BY <1>5 DEF Cost
  <2>2. Len(next) \in Nat /\ length \in Nat /\ Len(next) < length
    BY <1>1, <1>5, LenProperties DEF Assembling
  <2>3. Room - 1 \in Nat /\ missed \in Int
    BY <1>1, FeedAssumption
  <2>4. (missed + 1) * (Room - 1) = missed * (Room - 1) + (Room - 1)
    BY <2>3
  <2>5. (missed + 1) * (Room - 1) <= SectionLength[p] - 1
    <3> DEFINE r == Room - 1
               c == missed * r
               d == (missed + 1) * r
    <3>1. r \in Nat /\ c \in Int /\ d = c + r /\ c <= Len(next) - r
      BY <1>5, <2>3, <2>4 DEF Broken
    <3> HIDE DEF r, c, d
    <3>2. d <= SectionLength[p] - 1
      BY <2>1, <2>2, <3>1
    <3> QED BY <3>2 DEF r, d
  <2>6. missed + 1 <= Swallowed
    BY <2>3, <2>5, SwallowedBound
  <2>7. missed' + Pending' <= missed + 1
    <3> DEFINE m == Missing
               w == Pending'
               k == IF Round[pos] \in Wanted THEN 1 ELSE 0
    <3>1. m \in Nat /\ w \in 0..1 /\ m + w <= missed + k /\ k \in 0..1
      BY <1>1, MissedOnce
    <3>2. missed' = 0 \/ missed' = m
      BY <1>2
    <3>3. missed >= 0
      BY <1>1
    <3> HIDE DEF m, w, k
    <3>4. missed' + w <= missed + 1
      BY <2>3, <3>1, <3>2, <3>3
    <3> QED BY <3>4 DEF w
  <2>8. missed' + Pending' <= Swallowed
    <3> DEFINE w == Pending'
               m == missed'
               most == Swallowed
    <3>1. w \in Int /\ m \in Int /\ m + w <= missed + 1 /\ missed + 1 <= most
          /\ most \in Int
      <4>1. Pending' \in 0..1
        BY <1>1, MissedOnce
      <4>2. missed' \in Int
        BY <1>1, <1>2, MissingApart
      <4> QED BY <2>6, <2>7, <4>1, <4>2, SwallowedInt
    <3> HIDE DEF w, m, most
    <3>2. m + w <= most
      BY <2>3, <3>1
    <3> QED BY <3>2 DEF w, m, most
  <2> QED BY <1>2, <1>3, <2>8 DEF Cost
<1> QED BY <1>4, <1>5 DEF Cost

LEMMA CostInductive == Inv /\ Cost /\ [Next]_vars => Cost'
<1> SUFFICES ASSUME Inv, Cost, [Next]_vars PROVE Cost'
  OBVIOUS
<1>1. CASE Ignore
  BY <1>1, IgnoreCost
<1>2. CASE Collect
  BY <1>2, CollectCost
<1>3. CASE Complete
  BY <1>3, CompleteCost
<1>4. CASE Lose
  BY <1>4, LoseCost
<1>5. CASE UNCHANGED vars
  BY <1>5 DEF vars, Cost, Spaced, Pending, Clean, Broken
<1> QED BY <1>1, <1>2, <1>3, <1>4, <1>5 DEF Next, Receive

LEMMA CostBound == Inv /\ Cost => LossCost
<1> SUFFICES ASSUME Inv, Cost, ~packed PROVE missed <= Swallowed
  BY DEF LossCost
<1>1. Sender /\ Assembling /\ missed \in 0..MaxMissed
  BY StateParts DEF Inv
<1>2. CASE length = 0
  BY <1>1, <1>2, SwallowedInt DEF Cost, Pending
<1>3. CASE length # 0 /\ Clean
  BY <1>3 DEF Clean
<1>4. CASE length # 0 /\ Broken
  <2>1. PICK p \in Bytes : length = SectionLength[p]
    BY <1>4 DEF Cost
  <2>2. Len(next) \in Nat /\ length \in Nat /\ Len(next) < length
    BY <1>1, <1>4, LenProperties DEF Assembling
  <2>3. Room - 1 \in Nat /\ missed \in Int /\ missed * (Room - 1) \in Int
    BY <1>1, FeedAssumption
  <2>4. missed * (Room - 1) <= SectionLength[p] - 1
    <3> DEFINE r == Room - 1
               c == missed * r
    <3>1. r \in Nat /\ c \in Int /\ c <= Len(next) - r
      BY <1>4, <2>3 DEF Broken
    <3> HIDE DEF r, c
    <3>2. c <= SectionLength[p] - 1
      BY <2>1, <2>2, <3>1
    <3> QED BY <3>2 DEF r, c
  <2> QED BY <2>3, <2>4, SwallowedBound
<1> QED BY <1>2, <1>3, <1>4 DEF Cost

\* A sender that starts every section in a packet of its own loses no more
\* wanted sections to a lost packet than process_section takes packets for
\* the rest of the broken one, whatever comes between losses.
THEOREM LossBounded == Spec => []LossCost
BY InitInv, InvInductive, InitCost, CostInductive, CostBound, PTL DEF Spec
=============================================================================
