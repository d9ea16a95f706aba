------------------------------ MODULE Sections ------------------------------
(***************************************************************************)
(* process_section (psi_read.c): the assembly of a PSI section from the    *)
(* packets of one PID, some of which never arrive (curl_callback drops     *)
(* what does not fit into the input buffer, and streams have gaps).        *)
(*                                                                         *)
(* The sender repeats its sections for ever.  A byte is named by its place *)
(* in one round of them, so that a packet's payload is a sequence of such  *)
(* names and "the CRC is right" means that the bytes collected are those   *)
(* of one section, in order.                                               *)
(***************************************************************************)
EXTENDS Integers, Sequences, FiniteSets

CONSTANTS
  Round,     \* the section each byte of a round belongs to
  Wanted,    \* the sections whose table_id is the one asked for
  Room,      \* bytes of a packet after its header: 184
  MaxLost,   \* bound: packets that are lost
  MaxMissed  \* bound: where missed stops counting

ASSUME FeedAssumption ==
  /\ Round \in Seq(Nat) /\ Round # << >>
  /\ \A p, r, q \in DOMAIN Round :      \* the bytes of a section are together
       p <= r /\ r <= q /\ Round[p] = Round[q] => Round[r] = Round[p]
  /\ Room \in Nat /\ Room > 1
  /\ MaxLost \in Nat /\ MaxMissed \in Nat

VARIABLES
  packed,   \* whether the sender starts sections in packets others end in
  pos,      \* the next byte the sender will put into a packet
  next,     \* next_pmt, next_sdt, next_eit: the bytes read of a section
  length,   \* next->length, 0 between sections
  curr,     \* pmt, sdt, eit: the section taken over last
  lost,     \* history: packets lost
  missed    \* history: wanted sections sent since the last loss or success

vars == <<packed, pos, next, length, curr, lost, missed>>

Bytes == DOMAIN Round

\* Where the section of each byte starts, and how long it is.
First == [p \in Bytes |->
  CHOOSE q \in Bytes : Round[q] = Round[p] /\ \A r \in Bytes : Round[r] = Round[p] => q <= r]
SectionLength == [p \in Bytes |-> Cardinality({q \in Bytes : Round[q] = Round[p]})]

\* The bytes of p's section, as they are sent.
Section(p) == [i \in 1..SectionLength[p] |-> First[p] + i - 1]

\* Bytes of p's section from p on.
Rest(p) == First[p] + SectionLength[p] - p

Stuffing == 0
Lesser(a, b) == IF a <= b THEN a ELSE b

-----------------------------------------------------------------------------
(* The sender.                                                             *)

\* A section starts in the packet made from pos on.
UnitStart ==
  \/ pos = First[pos]
  \/ packed /\ Rest(pos) < Room - 1

\* How much of the packet is taken: the section's rest, or, if sections are
\* packed and the next one fits in too, all of it.
Used ==
  LET cap == IF UnitStart THEN Room - 1 ELSE Room
  IN IF packed /\ UnitStart THEN cap ELSE Lesser(cap, Rest(pos))

\* The payload; pointer_field, which only a packet with a start has, is apart.
Payload ==
  [i \in 1..IF UnitStart THEN Room - 1 ELSE Room |->
     IF i <= Used THEN ((pos + i - 2) % Len(Round)) + 1 ELSE Stuffing]

Pointer == IF pos = First[pos] THEN 0 ELSE Rest(pos)

Sent == pos' = ((pos + Used - 1) % Len(Round)) + 1

\* missed after a packet that makes no section complete.
Missing ==
  LET ended == {i \in 1..Used : Rest(Payload[i]) = 1 /\ Round[Payload[i]] \in Wanted}
  IN Lesser(missed + Cardinality(ended), MaxMissed)

-----------------------------------------------------------------------------
(* process_section.                                                        *)

\* (mutant: the CRC is not looked at)
CrcAny(bytes) == TRUE

\* psi_crc32 over the collected bytes gives 0.
CrcOk(bytes) == bytes = Section(bytes[1])

\* The first byte read when a section starts.
Start == Payload[Pointer + 1]

\* (mutant: table_id is not looked at)
IgnoredUnlessStart ==
  /\ length = 0
  /\ ~UnitStart

\* Neither within a section nor at the start of one of the right table.
Ignored ==
  /\ length = 0
  /\ UnitStart => Round[Start] \notin Wanted

\* next->length with this packet.
Expected == IF length # 0 THEN length ELSE SectionLength[Start]

\* What is copied starts after pointer_field within a section, where it points
\* to otherwise.
Collected ==
  LET from == IF length # 0 THEN 1 ELSE Pointer + 1
      upto == Lesser(Len(Payload), from - 1 + Expected - Len(next))
  IN next \o SubSeq(Payload, from, upto)

\* Skipped.
Ignore ==
  /\ Ignored
  /\ Sent
  /\ missed' = Missing
  /\ UNCHANGED <<packed, next, length, curr, lost>>

\* More packets of the section are to come.
Collect ==
  /\ ~Ignored
  /\ Len(Collected) < Expected
  /\ Sent
  /\ next' = Collected
  /\ length' = Expected
  /\ missed' = Missing
  /\ UNCHANGED <<packed, curr, lost>>

\* (mutants: bytes_read is not reset; nothing is after a CRC error)
CompleteUnreset ==
  /\ ~Ignored
  /\ Len(Collected) = Expected
  /\ Sent
  /\ next' = Collected
  /\ length' = 0
  /\ IF CrcOk(Collected)
       THEN curr' = Collected /\ missed' = 0
       ELSE curr' = curr /\ missed' = Missing
  /\ UNCHANGED <<packed, lost>>

CompleteStuck ==
  /\ ~Ignored
  /\ Len(Collected) = Expected
  /\ Sent
  /\ IF CrcOk(Collected)
       THEN next' = << >> /\ length' = 0 /\ curr' = Collected /\ missed' = 0
       ELSE next' = Collected /\ length' = Expected /\ curr' = curr /\ missed' = Missing
  /\ UNCHANGED <<packed, lost>>

\* The section is whole: it is taken over if its CRC is right.
Complete ==
  /\ ~Ignored
  /\ Len(Collected) = Expected
  /\ Sent
  /\ next' = << >>
  /\ length' = 0
  /\ IF CrcOk(Collected)
       THEN curr' = Collected /\ missed' = 0
       ELSE curr' = curr /\ missed' = Missing
  /\ UNCHANGED <<packed, lost>>

\* A packet that never arrives.
Lose ==
  /\ lost < MaxLost
  /\ Sent
  /\ lost' = lost + 1
  /\ missed' = 0
  /\ UNCHANGED <<packed, next, length, curr>>

Receive == Ignore \/ Collect \/ Complete

Next == Receive \/ Lose

Init ==
  /\ packed \in BOOLEAN
  /\ pos \in {First[p] : p \in Bytes}
  /\ next = << >> /\ length = 0
  /\ curr = << >>
  /\ lost = 0 /\ missed = 0

Spec == Init /\ [][Next]_vars

\* Packets keep coming (the number of losses is bounded).
FairSpec == Spec /\ WF_vars(Receive)

-----------------------------------------------------------------------------
(* Properties.                                                             *)

\* process_section never collects beyond the length it has announced.
TypeOK ==
  /\ packed \in BOOLEAN
  /\ pos \in Bytes
  /\ next \in Seq(Bytes \cup {Stuffing}) /\ length \in Nat
  /\ Len(next) < length \/ (next = << >> /\ length = 0)
  /\ curr \in Seq(Bytes \cup {Stuffing})
  /\ lost \in 0..MaxLost /\ missed \in 0..MaxMissed

\* Whatever is lost, a section taken over (memcpy to curr) is one that was
\* sent, whole, and of the table asked for.
Genuine ==
  curr # << >> => Round[curr[1]] \in Wanted /\ curr = Section(curr[1])

\* The most packets that can be taken for the rest of a broken section, of
\* which the first packet has arrived.
Swallowed ==
  LET longest == CHOOSE n \in {SectionLength[p] : p \in Bytes} :
                   \A p \in Bytes : SectionLength[p] <= n
  IN (longest - 1) \div (Room - 1)

\* If every section starts in a packet of its own, a loss makes process_section
\* miss only as many as there are packets taken for the rest of the broken one
\* ("PUSI set within section - not handled!").
LossCost == ~packed => missed <= Swallowed

\* Once losses end, no wanted section is missed for ever, however it is packed
\* ("passed through to the output stream if it is available", README.md).
AllTaken == <>[](missed = 0)

\* Once losses end, every wanted section is taken over, if each starts in a
\* packet of its own.
Recovers == packed \/ AllTaken
=============================================================================
