-------------------------------- MODULE Mux --------------------------------
(***************************************************************************)
(* The main output loop of mux_thread (dvb2dvb.c).  Every service's packets*)
(* are read up to the next PCR (read_to_next_pcr) and given output         *)
(* positions, in bits, by interpolating between two PCRs; each iteration   *)
(* then outputs the most urgent packet, or the most urgent PSI table when  *)
(* one is due first, after padding the output up to its position.          *)
(*                                                                         *)
(* The loop is one thread.  An iteration is split where rb_read can block: *)
(* Refill is the part that fetches one service's packets up to a PCR, Emit *)
(* and EmitTable the part that outputs.  The input ring buffers (RingBuffer)*)
(* appear as streams that deliver what they hold in order; reading can go  *)
(* no further once a stream has delivered MaxPcrs PCRs.                    *)
(*                                                                         *)
(* A packet is what the loop tells apart: EIT packets, whose continuity    *)
(* counter it rewrites on their way out, and the rest.  The AIT (table 5)  *)
(* is absent: ait_pid is 0 in every configuration parse_config accepts.    *)
(***************************************************************************)
EXTENDS Integers, Sequences

CONSTANTS
  NServices,    \* mux_t.nservices
  PacketBits,   \* 188*8
  Freq,         \* pat/pmt/sdt/nit_freq_in_bits
  TableLen,     \* packets write_section makes of each table
  Capacity,     \* channel_capacity
  Clock,        \* 27000000, the PCR ticks per second
  PcrPeriod,    \* 2^33 * 300, the values a PCR goes through
  Int64,        \* 2^64, the width of the position arithmetic
  StartPcrs,    \* PCRs the streams may start with
  PcrDeltas,    \* distances between two PCRs of a stream
  Chunks,       \* what may arrive between them: sequences of kinds
  MaxPcrs,      \* bound: PCRs a stream delivers after its first
  MaxBits       \* bound: the output stops here (no passing run gets there)

Services == 0..NServices - 1
Tables == 1..4          \* next_psi: PAT, PMT, SDT, NIT
NoService == -1
Kinds == {"es", "eit_more", "eit_last", "unmapped"}

ASSUME StreamAssumption ==
  /\ NServices \in Nat \ {0} /\ PacketBits \in Nat \ {0}
  /\ Freq \in [Tables -> Nat] /\ TableLen \in [Tables -> Nat \ {0}]
  /\ Capacity \in Nat /\ Clock \in Nat \ {0}
  /\ PcrPeriod \in Nat \ {0} /\ Int64 \in Nat \ {0}
  /\ StartPcrs \subseteq 0..PcrPeriod - 1
  /\ PcrDeltas \subseteq 1..PcrPeriod - 1
  /\ Chunks \subseteq Seq({"es", "eit_more", "eit_last"})
  /\ MaxPcrs \in Nat /\ MaxBits \in Nat

VARIABLES
  buf,              \* service_t.buf: the packets read, in order
  bitpos,           \* service_t.bitpos: their output positions
  packets_written,  \* how many of them are output
  start_pcr, first_pcr, second_pcr,
  pcrs,             \* history: PCRs read after the first
  output_bitpos,
  next_bitpos,      \* next_pat_bitpos .. next_nit_bitpos
  eit_cc,
  due,              \* history: the position of the latest packet or table output
  at,               \* history: where in the output it went
  sent,             \* history: packets output of each service
  openEit           \* history: the service whose EIT section the output is in

svcVars == <<buf, bitpos, packets_written, first_pcr, second_pcr, pcrs>>
outVars == <<output_bitpos, next_bitpos, eit_cc, due, at, sent, openEit>>
vars == <<svcVars, start_pcr, outVars>>

-----------------------------------------------------------------------------
(* Arithmetic.                                                             *)

\* C's integer division truncates towards zero.
CDiv(a, b) == IF a >= 0 THEN a \div b ELSE -((-a) \div b)

\* A product that leaves the range of int64_t comes back at its other end.
Wrap64(x) == ((x + (Int64 \div 2)) % Int64) - (Int64 \div 2)

\* The position of packet j of n (from 0) between the PCRs first and second.
Position(first, second, start, j, n) ==
  CDiv(Wrap64((first + CDiv(j * (second - first), n - 1) - start) * Capacity),
       Clock)

\* (mutant: do { ... } while for while, a null packet goes out each time)
PadToPast(b) ==
  IF b <= output_bitpos
    THEN output_bitpos + PacketBits
    ELSE output_bitpos
         + PacketBits * ((b - output_bitpos + PacketBits - 1) \div PacketBits)

\* Null packets go out until the position b is reached.
PadTo(b) ==
  IF b <= output_bitpos
    THEN output_bitpos
    ELSE output_bitpos
         + PacketBits * ((b - output_bitpos + PacketBits - 1) \div PacketBits)

-----------------------------------------------------------------------------
(* Filling a service's buffer.                                             *)

\* (mutant: the buffer runs empty, the last packet goes out in both rounds)
NeedsNone(s) == Len(buf[s]) - packets_written[s] = 0

\* Only the packet with the last PCR read is left.
Needs(s) == Len(buf[s]) - packets_written[s] = 1

\* (mutant: the first packet stays where it is)
KeptFirst(s) == buf[s][1]

\* The last packet, which moves to the start of the buffer.
Kept(s) == buf[s][Len(buf[s])]

\* The packets read_to_next_pcr adds: the chunk, then the one with the PCR.
Arrived(s, chunk) ==
  [i \in 1..Len(chunk) + 1 |->
     [kind |-> IF i <= Len(chunk) THEN chunk[i] ELSE "es",
      id   |-> buf[s][Len(buf[s])].id + i]]

Refill(s, chunk, delta) ==
  LET newbuf == <<Kept(s)>> \o Arrived(s, chunk)
      first  == second_pcr[s]
      second == (second_pcr[s] + delta) % PcrPeriod
  IN
  /\ Needs(s)
  /\ \A r \in Services : r < s => ~Needs(r)
  /\ pcrs[s] < MaxPcrs
  /\ pcrs' = [pcrs EXCEPT ![s] = @ + 1]
  /\ buf' = [buf EXCEPT ![s] = newbuf]
  /\ packets_written' = [packets_written EXCEPT ![s] = 0]
  /\ first_pcr' = [first_pcr EXCEPT ![s] = first]
  /\ second_pcr' = [second_pcr EXCEPT ![s] = second]
  /\ bitpos' = [bitpos EXCEPT ![s] =
       [i \in 1..Len(newbuf) |->
          Position(first, second, start_pcr[s], i - 1, Len(newbuf))]]
  /\ UNCHANGED <<start_pcr, outVars>>

-----------------------------------------------------------------------------
(* Output.                                                                 *)

Ready == \A s \in Services : ~Needs(s)

NextPacket(s) == buf[s][packets_written[s] + 1]
Pending(s) == bitpos[s][packets_written[s] + 1]

\* (mutant: the comparison the wrong way round)
MostUrgentLast(s) ==
  \A r \in Services :
    Pending(s) > Pending(r) \/ (Pending(s) = Pending(r) /\ s <= r)

\* The service with the earliest packet, the first of them if several.
MostUrgent(s) ==
  \A r \in Services :
    Pending(s) < Pending(r) \/ (Pending(s) = Pending(r) /\ s <= r)

\* The table to output before position b, the last of them if several.
NextPsi(t, b) ==
  /\ next_bitpos[t] <= b
  /\ \A u \in Tables :
       next_bitpos[t] < next_bitpos[u] \/ (next_bitpos[t] = next_bitpos[u] /\ u <= t)

IsEit(kind) == kind \in {"eit_more", "eit_last"}

\* (mutants: counted from where the table went out; not advanced, as with a
\* period of 0 bits)
NextTimeFromNow(t) == output_bitpos + Freq[t]
NextTimeStuck(t) == next_bitpos[t]

\* When a table that is output now is due again.
NextTime(t) == next_bitpos[t] + Freq[t]

\* Room is made for n packets due at position b.
Output(b, n) ==
  /\ output_bitpos < MaxBits
  /\ output_bitpos' = PadTo(b) + n * PacketBits
  /\ due' = b
  /\ at' = PadTo(b)

EmitPacket(s) ==
  LET p == NextPacket(s) IN
  /\ Ready
  /\ MostUrgent(s)
  /\ \A t \in Tables : ~NextPsi(t, Pending(s))
  /\ Output(Pending(s), 1)
  /\ packets_written' = [packets_written EXCEPT ![s] = @ + 1]
  /\ eit_cc' = IF IsEit(p.kind) THEN (eit_cc + 1) % 16 ELSE eit_cc
  /\ sent' = [sent EXCEPT ![s] = p.id]
  /\ openEit' = CASE p.kind = "eit_more" -> s
                  [] p.kind = "eit_last" -> NoService
                  [] OTHER               -> openEit
  /\ UNCHANGED <<buf, bitpos, first_pcr, second_pcr, pcrs, start_pcr, next_bitpos>>

EmitTable(t) ==
  /\ Ready
  /\ \E s \in Services : MostUrgent(s) /\ NextPsi(t, Pending(s))
  /\ Output(next_bitpos[t], TableLen[t])
  /\ next_bitpos' = [next_bitpos EXCEPT ![t] = NextTime(t)]
  /\ UNCHANGED <<svcVars, start_pcr, eit_cc, sent, openEit>>

-----------------------------------------------------------------------------
\* sync_to_pcr has put each service's first PCR packet, its PID unchanged,
\* into the buffer; all else is as calloc and the loop's prologue leave it.
Init ==
  /\ start_pcr \in [Services -> StartPcrs]
  /\ second_pcr = start_pcr
  /\ first_pcr = [s \in Services |-> 0]
  /\ buf = [s \in Services |-> <<[kind |-> "unmapped", id |-> 1]>>]
  /\ bitpos = [s \in Services |-> <<0>>]
  /\ packets_written = [s \in Services |-> 0]
  /\ pcrs = [s \in Services |-> 0]
  /\ output_bitpos = 0
  /\ next_bitpos = [t \in Tables |-> 0]
  /\ eit_cc = 0
  /\ due = 0 /\ at = 0
  /\ sent = [s \in Services |-> 0]
  /\ openEit = NoService

Next ==
  \/ \E s \in Services, chunk \in Chunks, delta \in PcrDeltas :
       Refill(s, chunk, delta)
  \/ \E s \in Services : EmitPacket(s)
  \/ \E t \in Tables : EmitTable(t)

Spec == Init /\ [][Next]_vars

\* The mux thread runs whenever rb_read has the packets it waits for.
FairSpec == Spec /\ WF_vars(Next)

-----------------------------------------------------------------------------
(* Properties.                                                             *)

\* The loop never indexes outside what it has read: a service whose packet
\* is compared or output has one (mux_thread reads bitpos[packets_written]).
TypeOK ==
  /\ buf \in [Services -> Seq([kind : Kinds, id : Nat])]
  /\ bitpos \in [Services -> Seq(Int)]
  /\ packets_written \in [Services -> Nat]
  /\ \A s \in Services :
       Len(bitpos[s]) = Len(buf[s]) /\ packets_written[s] < Len(buf[s])
  /\ start_pcr \in [Services -> 0..PcrPeriod - 1]
  /\ first_pcr \in [Services -> 0..PcrPeriod - 1]
  /\ second_pcr \in [Services -> 0..PcrPeriod - 1]
  /\ pcrs \in [Services -> 0..MaxPcrs]
  /\ next_bitpos \in [Tables -> Nat]
  /\ output_bitpos \in Nat /\ eit_cc \in 0..15
  /\ due \in Int /\ at \in Nat
  /\ sent \in [Services -> Nat]
  /\ openEit \in Services \cup {NoService}

\* The packet moved to the start of the buffer at each refill is output once:
\* the next packet of a service is always the one after its latest (mux_thread
\* "Move last packet to start of buffer").
InSequence ==
  \A s \in Services : NextPacket(s).id = sent[s] + 1

\* The schedule never goes back: nothing that waits is due before what was
\* output last, over all services and tables and across refills.
NeverOvertaken ==
  /\ \A s \in Services : Pending(s) >= due
  /\ \A t \in Tables : next_bitpos[t] >= due

\* No table is left out: each is due again within its period of the latest
\* output ("SI table frequencies, in bits", mux_thread).
CadenceKept ==
  \A t \in Tables : next_bitpos[t] <= due + Freq[t]

\* What may go before a packet or table that is due: all the others, once
\* each, if all fall due at one position, and a padding packet under way.
Burst ==
  PacketBits * (NServices + TableLen[1] + TableLen[2] + TableLen[3] + TableLen[4])

\* The tables keep the frequencies mux_thread computes for them ("SI table
\* frequencies, in bits based on above bitrate"): none is overdue by more than
\* one such burst.
SiFrequencies ==
  \A t \in Tables : output_bitpos - next_bitpos[t] <= Burst

\* Under a load the channel can carry, nothing that waits is later than one
\* such burst: the output is a constant bit rate stream in which packets and
\* tables keep to their positions (README.md "multiplexed to a single output
\* stream based on the PCRs").
OnTime ==
  /\ \A s \in Services : pcrs[s] > 0 => output_bitpos - Pending(s) <= Burst
  /\ SiFrequencies

\* The loop always gets to the end of some stream: neither a table nor a
\* service can occupy it for ever (no output follows without new input).
Progress ==
  <>(\E s \in Services : Needs(s) /\ pcrs[s] = MaxPcrs)

\* An output position is a number of "total bits written so far" (mux_thread,
\* where it calculates the positions).
PositionsAreBits ==
  \A s \in Services : \A i \in 1..Len(bitpos[s]) : bitpos[s][i] >= 0

\* An EIT section's packets are not torn apart: on PID 0x12, which the services
\* share in the output, no other service's packet comes between them (README.md
\* "EIT (present/following) is rewritten and passed through").
EitContiguous ==
  [][\A s \in Services :
       EmitPacket(s) /\ IsEit(NextPacket(s).kind) => openEit \in {s, NoService}]_vars
=============================================================================
