------------------------------ MODULE Pipeline ------------------------------
(***************************************************************************)
(* The way of the bytes of one service through the program: curl_callback  *)
(* puts chunks of any size into inbuf; mux_thread takes packets out, keeps *)
(* those that pid_map maps until it has come across the next PCR, and puts *)
(* them, between packets of its own, into outbuf; output_thread takes      *)
(* blocks out and writes them to the device.                               *)
(*                                                                         *)
(* Both rb_writes take what fits and their callers go on: nothing holds    *)
(* the input back when the output is slow or gone.  The ring buffers are   *)
(* queues here, which RingBuffer shows them to be while in band; a call of *)
(* rb_read or rb_write is one step.                                        *)
(*                                                                         *)
(* A byte of the source is its number, from 0, so that its place in its    *)
(* packet is the number modulo P.  The bytes of packets made by the        *)
(* program are -P .. -1.  The other services of the mux are such packets   *)
(* here and never keep mux_thread waiting.                                 *)
(***************************************************************************)
EXTENDS Integers, Sequences

CONSTANTS
  P,           \* bytes of a packet: 188
  InSize,      \* bytes inbuf and outbuf hold: one less than their arrays
  OutSize,
  Prefill,     \* what output_thread waits for before it starts
  Block,       \* what it reads at once: 200 packets
  ChunkSizes,  \* what curl passes to curl_callback
  Pcrs,        \* the source's packets, by first byte: with a PCR
  Mapped,      \* with another PID that pid_map maps
  Eits,        \* with the PID of the EIT
  StreamLen,   \* bound: bytes the source sends
  MaxMade,     \* bound: packets made
  MaxFaults    \* bound: zero and failed writes

ASSUME SizesAssumption ==
  /\ P \in Nat \ {0} /\ Block \in Nat \ {0} /\ Block < OutSize
  /\ P < InSize /\ Prefill \in 0..OutSize
  /\ InSize \in Nat /\ OutSize \in Nat
  /\ ChunkSizes \subseteq Nat \ {0}
  /\ StreamLen \in Nat /\ MaxMade \in Nat /\ MaxFaults \in Nat

VARIABLES
  sent,     \* bytes the source has sent
  inbuf,    \* service_t.inbuf: source bytes
  mpc,      \* where mux_thread is
  buf,      \* service_t.buf: the bytes of its packets not yet output
  made,     \* packets made
  outbuf,   \* mux_t.outbuf: numbers, from 1, of the bytes it has accepted
  opc,      \* where output_thread is
  blk,      \* its buf: numbers of accepted bytes
  done,     \* its bytes_done
  faults,   \* writes that took nothing
  content,  \* history: what each byte accepted by outbuf is
  got,      \* history: bytes the device has taken
  latest,   \* history: the bytes it took last
  inLost,   \* history: curl_callback has dropped bytes
  inSkew,   \* history: and once not a whole number of packets
  outCut,   \* history: outbuf has not accepted all of a packet
  first     \* history: the byte sync_to_pcr's packet starts with

curlVars == <<sent, inLost, inSkew>>
muxVars == <<mpc, buf, made, content, outCut, first>>
outputVars == <<opc, blk, done, faults, got, latest>>
vars == <<curlVars, muxVars, outputVars, inbuf, outbuf>>

\* n packets of the program's own: null packets, tables, rewritten EIT sections.
Made(n) == [i \in 1..P * n |-> ((i - 1) % P) - P]

Fitting(n, room) == IF n <= room THEN n ELSE room

-----------------------------------------------------------------------------
(* curl_callback.                                                          *)

Receive(n) ==
  LET took == Fitting(n, InSize - Len(inbuf)) IN
  /\ sent + n <= StreamLen
  /\ sent' = sent + n
  /\ inbuf' = inbuf \o [i \in 1..took |-> sent + i - 1]
  /\ inLost' = (inLost \/ took < n)
  /\ inSkew' = (inSkew \/ (n - took) % P # 0)
  /\ UNCHANGED <<muxVars, outputVars, outbuf>>

-----------------------------------------------------------------------------
(* mux_thread.                                                             *)

\* (mutant: the packet's last byte stays in inbuf)
TakePacketTwice ==
  /\ Len(inbuf) > P
  /\ inbuf' = SubSeq(inbuf, P, Len(inbuf))

\* rb_read of a packet; it waits for more than that.
TakePacket ==
  /\ Len(inbuf) > P
  /\ inbuf' = SubSeq(inbuf, P + 1, Len(inbuf))

Packet == SubSeq(inbuf, 1, P)

\* A whole packet of the source, not parts of two.
Whole(packet) ==
  packet[1] % P = 0 /\ packet = [i \in 1..P |-> packet[1] + i - 1]

KindOf(start) ==
  CASE start \in Pcrs -> "pcr"
    [] start \in Mapped \ Pcrs -> "mapped"
    [] start \in Eits \ (Pcrs \cup Mapped) -> "eit"
    [] OTHER -> "other"

Kinds == {"pcr", "mapped", "eit", "other"}

\* What mux_thread may take a packet for: anything, once the bytes it takes for
\* the header are those of a payload.
KindsOf(packet) == IF Whole(packet) THEN {KindOf(packet[1])} ELSE Kinds

\* init_service takes what it needs from a packet and drops it; the tables may be
\* complete with any.
InitService ==
  /\ mpc = "init" /\ TakePacket
  /\ mpc' \in {"init", "sync"}
  /\ UNCHANGED <<curlVars, buf, made, content, outCut, first, outputVars, outbuf>>

\* sync_to_pcr keeps only the packet with the PCR.
SyncToPcr(kind) ==
  /\ mpc = "sync" /\ TakePacket
  /\ kind \in KindsOf(Packet)
  /\ IF kind = "pcr" THEN mpc' = "read" /\ buf' = Packet /\ first' = Packet[1]
                     ELSE UNCHANGED <<mpc, buf, first>>
  /\ UNCHANGED <<curlVars, made, content, outCut, outputVars, outbuf>>

\* (mutant: packets that are not mapped are kept)
StoredAll(kind, n) == IF kind = "eit" THEN Made(n) ELSE Packet

\* What read_to_next_pcr adds to buf for a packet: itself, if it is mapped; n
\* packets, if it completes an EIT section.
Stored(kind, n) == IF kind \in {"pcr", "mapped"} THEN Packet ELSE Made(n)

\* read_to_next_pcr, one packet; buf holds the PCR packet it starts from.
ReadToNextPcr(kind) ==
  /\ mpc = "read" /\ TakePacket
  /\ kind \in KindsOf(Packet)
  /\ \E n \in 0..MaxMade - made :
       /\ kind # "eit" => n = 0
       /\ buf' = buf \o Stored(kind, n)
       /\ made' = made + n
  /\ mpc' = IF kind = "pcr" THEN "emit" ELSE "read"
  /\ UNCHANGED <<curlVars, content, outCut, first, outputVars, outbuf>>

\* (mutant: rb_write waits for room)
PutWaiting(packet) ==
  /\ Len(outbuf) + Len(packet) <= OutSize
  /\ outbuf' = outbuf \o [i \in 1..Len(packet) |-> Len(content) + i]
  /\ content' = content \o packet
  /\ UNCHANGED outCut

\* rb_write of a packet; the callers do nothing about what does not fit.
Put(packet) ==
  LET took == Fitting(Len(packet), OutSize - Len(outbuf)) IN
  /\ outbuf' = outbuf \o [i \in 1..took |-> Len(content) + i]
  /\ content' = content \o SubSeq(packet, 1, took)
  /\ outCut' = (outCut \/ took < Len(packet))

\* A null packet, a packet of a table or of another service.
Pad ==
  /\ mpc = "emit" /\ made < MaxMade
  /\ Put(Made(1))
  /\ made' = made + 1
  /\ UNCHANGED <<curlVars, mpc, buf, first, outputVars, inbuf>>

\* The next packet of the service; the last one, with the PCR, stays in buf.
EmitPacket ==
  /\ mpc = "emit"
  /\ Put(SubSeq(buf, 1, P))
  /\ buf' = SubSeq(buf, P + 1, Len(buf))
  /\ mpc' = IF Len(buf') = P THEN "read" ELSE "emit"
  /\ UNCHANGED <<curlVars, made, first, outputVars, inbuf>>

Mux ==
  \/ InitService
  \/ \E kind \in Kinds : SyncToPcr(kind) \/ ReadToNextPcr(kind)
  \/ Pad
  \/ EmitPacket

-----------------------------------------------------------------------------
(* output_thread.                                                          *)

Open(result) ==
  /\ opc = "open"
  /\ opc' = result
  /\ UNCHANGED <<curlVars, muxVars, blk, done, faults, got, latest, inbuf, outbuf>>

Start ==
  /\ opc = "wait" /\ Len(outbuf) >= Prefill
  /\ opc' = "read"
  /\ UNCHANGED <<curlVars, muxVars, blk, done, faults, got, latest, inbuf, outbuf>>

\* (mutant: every block waits for the prefill)
ReadBlockPrefilled ==
  /\ opc = "read" /\ Len(outbuf) > Block /\ Len(outbuf) >= Prefill
  /\ blk' = SubSeq(outbuf, 1, Block)
  /\ outbuf' = SubSeq(outbuf, Block + 1, Len(outbuf))
  /\ done' = 0
  /\ opc' = "write"
  /\ UNCHANGED <<curlVars, muxVars, faults, got, latest, inbuf>>

ReadBlock ==
  /\ opc = "read" /\ Len(outbuf) > Block
  /\ blk' = SubSeq(outbuf, 1, Block)
  /\ outbuf' = SubSeq(outbuf, Block + 1, Len(outbuf))
  /\ done' = 0
  /\ opc' = "write"
  /\ UNCHANGED <<curlVars, muxVars, faults, got, latest, inbuf>>

\* (mutants: a retry starts at the block's beginning; it asks for all of it)
OfferedAgain == blk
OfferedAll == SubSeq(blk, done + 1, Len(blk)) \o SubSeq(blk, 1, done)

\* What write is called with.
Offered == SubSeq(blk, done + 1, Len(blk))

\* write takes n bytes; after a short write the rest is offered again.
Write(n) ==
  /\ opc = "write" /\ n <= Len(Offered)
  /\ latest' = SubSeq(Offered, 1, n)
  /\ got' = got + n
  /\ done' = done + n
  /\ opc' = IF done' < Len(blk) THEN "write" ELSE "read"
  /\ UNCHANGED <<curlVars, muxVars, blk, faults, inbuf, outbuf>>

\* write returns 0 or -1, and is called again.
WriteNothing ==
  /\ opc = "write" /\ faults < MaxFaults
  /\ faults' = faults + 1
  /\ UNCHANGED <<curlVars, muxVars, opc, blk, done, got, latest, inbuf, outbuf>>

Output ==
  \/ Open("wait") \/ Open("gone")
  \/ Start
  \/ ReadBlock
  \/ \E n \in 1..Block : Write(n)
  \/ WriteNothing

-----------------------------------------------------------------------------
Init ==
  /\ sent = 0 /\ inbuf = << >> /\ inLost = FALSE /\ inSkew = FALSE
  /\ mpc = "init" /\ buf = << >> /\ made = 0 /\ first = StreamLen
  /\ content = << >> /\ outCut = FALSE
  /\ outbuf = << >>
  /\ opc = "open" /\ blk = << >> /\ done = 0 /\ faults = 0
  /\ got = 0 /\ latest = << >>

Next ==
  \/ \E n \in ChunkSizes : Receive(n)
  \/ Mux
  \/ Output

\* Both threads run whenever they can, and the device does not fail for ever.
Spec == Init /\ [][Next]_vars /\ WF_vars(Mux) /\ WF_vars(Output)

-----------------------------------------------------------------------------
(* Properties.                                                             *)

\* Neither buffer holds more than it can, output_thread stays inside its block
\* (buf+bytes_done), and mux_thread outputs only packets that are in sv->buf, all
\* but the last.
TypeOK ==
  /\ sent \in 0..StreamLen
  /\ inbuf \in Seq(Nat) /\ Len(inbuf) <= InSize
  /\ mpc \in {"init", "sync", "read", "emit"}
  /\ buf \in Seq(Int) /\ Len(buf) % P = 0
  /\ mpc \in {"init", "sync"} => buf = << >>
  /\ mpc = "read" => Len(buf) >= P
  /\ mpc = "emit" => Len(buf) > P
  /\ made \in 0..MaxMade /\ faults \in 0..MaxFaults /\ first \in Nat
  /\ outbuf \in Seq(1..Len(content)) /\ Len(outbuf) <= OutSize
  /\ opc \in {"open", "gone", "wait", "read", "write"}
  /\ blk \in Seq(1..Len(content)) /\ done \in 0..Len(blk)
  /\ content \in Seq(Int)
  /\ got \in Nat /\ latest \in Seq(Nat)
  /\ {inLost, inSkew, outCut} \subseteq BOOLEAN

Fifo == INSTANCE ByteFifo WITH
  Capacity <- OutSize + Block,
  put      <- Len(content),
  got      <- got,
  block    <- latest

\* Short, zero and failed writes notwithstanding, the device takes every byte
\* that outbuf accepts, once and in order (output_thread's transfer loop).
DeviceIsFifo == Fifo!Spec

\* All that is on its way or has been output, in the order it will be.
Way == content \o buf \o inbuf

\* Whatever is dropped on the way, no byte of a service overtakes an earlier
\* one and none is output twice (curl_callback, rb_read, read_to_next_pcr and
\* rb_write in turn).
InOrder ==
  \A i, j \in 1..Len(Way) :
    i < j /\ Way[i] >= 0 /\ Way[j] >= 0 => Way[i] < Way[j]

\* read_to_next_pcr's "if (sv->pid_map[pid])", for the packet a byte is in.
Passes(b) == b - (b % P) \in Pcrs \cup Mapped

\* As long as both rb_writes take all they are given, mux_thread passes on every
\* byte of a mapped packet from the PCR on that sync_to_pcr has found, and none
\* of any other packet, across all buffers it reads into, block by block, up to
\* the next PCR; what it has not read is in inbuf.
Intact ==
  ~inLost /\ ~outCut =>
    \A b \in 0..sent - 1 :
      IF b < sent - Len(inbuf)
        THEN (\E i \in 1..Len(content \o buf) : (content \o buf)[i] = b)
               <=> first <= b /\ Passes(b)
        ELSE \E i \in 1..Len(inbuf) : inbuf[i] = b

\* The output consists of whole packets as long as outbuf accepts whole packets
\* and what curl_callback drops is whole packets: nothing else, in particular
\* no chunk size, can shift the packets against each other.
Aligned ==
  ~inSkew /\ ~outCut => \A i \in 1..Len(content) : content[i] % P = (i - 1) % P

\* mux_thread: "We output one TS packet (either real or padding) in each
\* iteration."  (It does not, once curl_callback or rb_write has cut one.)
OnePacketEach == \A i \in 1..Len(content) : content[i] % P = (i - 1) % P

\* Once started, output_thread passes on all but what rb_read keeps back.
Delivered ==
  <>[](opc \in {"wait", "gone"} \/ (opc = "read" /\ Len(outbuf) <= Block))

\* mux_thread goes on consuming its input whatever the device does, also when
\* it cannot be opened ("Failed to open device", output_thread).
InputDrained == <>[](mpc # "emit" /\ Len(inbuf) <= P)
=============================================================================
