# A verification of dvb2dvb

dvb2dvb reads several single-program transport streams over HTTP and outputs one
constant bit rate multi-program stream to a DVB-T modulator. This directory holds
TLA+ modules translated from its source, TLC configurations that check them on
small instances, and proofs that the TLA+ proof system checks for every instance.

References such as `dvb2dvb.c:540` are to `src/`.

## 1. The system

| Part | State | Operations | Talks to |
|---|---|---|---|
| start-up (`main`) | the muxes | parse the configuration, insist on one mux, start and join the mux thread | configuration, mux thread |
| configuration (`parse_config.c`) | `mux_t`, `service_t` fields | `parse_config`, `parse_mux_params`; defaults from "common" | JSON parser (vendored) |
| mux thread: preparation | per service: `pat`/`sdt`/`pmt` sections, `pmt_pid`, `pcr_pid`, `pid_map`, `status` | `init_service`, wait for every service's `status`, `sync_to_pcr` | reads every `inbuf`, starts all other threads |
| mux thread: main output loop | per service: `buf`, `bitpos`, `packets_in_buf`, `packets_written`, the three PCRs; `output_bitpos`, five `next_*_bitpos`, `eit_cc` | `read_to_next_pcr`, positions, choice, padding, output | reads every `inbuf`, writes `outbuf` |
| curl thread, one per service | `curl_buf`, `curl_bytes` (unused), `status` | `curl_callback`: `rb_write` what fits, drop the rest, set `status` | writes its service's `inbuf` |
| output thread | local block of 200 packets | wait for 10 MiB, then `rb_read` a block and `write` it until done | reads `outbuf`, writes the device |
| ring buffer (`ringbuffer.c`) | `head`, `tail`, `buf` | `rb_init`, `rb_read`, `rb_write`, `rb_get_bytes_used`, `rb_skip` (no caller) | shared by one writer and one reader thread, no lock |
| section assembly (`process_section`) | per table: `next_*` (partial) and current section | one packet at a time; a section is taken over when its CRC is right | mux thread |
| table readers (`psi_read.c`) | ids, PIDs, `pid_map`, names | `process_pat`, `process_sdt`, `process_pmt` | mux thread |
| table creation (`psi_create.c`) | `pat`, `sdt`, `nit`, `new_pmt`, `ait` and their continuity counters | `create_*`, `rewrite_eit`, descriptor copying, `copy_section`, `write_section` | mux thread |
| capacity | `channel_capacity`, table periods | `calc_channel_capacity`, `ms_to_bits` | mux thread |
| CRC (`crc32.c`) | none | `psi_crc32` | section assembly, table creation |

The threads share nothing but the ring buffers and `status`: each `inbuf` has a curl
thread as writer and the mux thread as reader, `outbuf` has the mux thread as writer
and the output thread as reader.

What is hard here, and what makes each part correct:

* **Ring buffer.** Two threads, no lock, a fill level computed with wrapping pointer
  arithmetic. Correct: the reader gets the accepted bytes once and in order, the
  writer never touches unread bytes, neither copy overlaps the other, a full buffer
  never looks empty, a reader that keeps reading empties the buffer.
* **Main output loop.** Several sources merged by time stamps that are refilled at
  different moments, with padding and periodic tables in between. Correct: each
  service's packets in order, each once (the carried-over PCR packet included); the
  merged schedule never goes back; every table within its period; everything within a
  burst of its position; nobody starves; positions stay meaningful over hours (PCR
  wraparound, width of the arithmetic).
* **Preparation.** Blocks on each service in turn while all input buffers fill.
  Correct: ends when every stream is complete; tables used later describe the
  service that was chosen.
* **Section assembly.** Lost packets and sections that start in the middle of another.
  Correct: a section taken over is one that was sent.
* **Table creation.** Output PIDs distinct, lengths consistent with content and within
  their fields, CA descriptors gone, every service present.
* **Output thread.** Short, zero and failed writes. Correct: the device receives the
  buffer's bytes in order, each once.
* **Capacity.** The result is the DVB-T rate and fits its type.

`PROJECT.json` lists the hazards at their source lines with the properties that
cover them, and says of the others why none does.

## 2. Modules

| Module | Models |
|---|---|
| `ByteFifo` | what a ring buffer promises: a bounded first-in first-out queue of bytes |
| `RingBuffer` | `ringbuffer.c` with its two threads |
| `RingBufferProofs` | theorems about `RingBuffer` |
| `Mux` | the main output loop of `mux_thread` with `read_to_next_pcr` |
| `MCMux` | constants of the `Mux` instances |
| `MuxProofs` | theorems about `Mux` |
| `Sections` | `process_section`, fed by a sender over a channel that loses packets |
| `MCSections` | the sections sent in its instances |
| `SectionsProofs` | theorems about `Sections` |
| `ServiceInit` | `mux_thread` up to its main loop, with the curl threads |
| `MCServiceInit` | the streams of its instances |
| `ServiceInitProofs` | theorems about `ServiceInit` |
| `Pipeline` | one service's bytes from `curl_callback` to the device, with full buffers and a failing device |
| `PipelineProofs` | theorems about `Pipeline` |
| `Config` | `parse_config.c`, `calc_channel_capacity`, `ms_to_bits` |
| `Tables` | what `psi_read.c` takes from the tables and `psi_create.c` makes of them |
| `Events` | `rewrite_eit` and the text overflow between descriptors |
| `Startup` | `main` and `mux_thread` over the data of the tables; composes `Config`, `Tables`, `Events` |
| `MCStartup` | configuration files, streams and events of its instances |
| `TableProofs` | lemmas about what `Tables` and `Events` compute |
| `StartupProofs` | theorems about `Startup`: configuration, capacity, PIDs, counters, tables, events |
| `Arithmetic` | lemmas on remainders, quotients and extrema that the proofs share |

The modules cut the program along its threads and its data. `RingBuffer` is the
buffers at their memory accesses; `Pipeline` uses them as the queues `ByteFifo`
says they are, to follow bytes through all three threads. `ServiceInit` and `Mux` are
the mux thread before and in its loop, with a table as a token; `Startup` is the same
thread with the tables' contents, one function per step, without the waiting.

### RingBuffer

`head` and `tail` are addresses, `WORD` is the size of the address space (2^64),
`SIZE` is `sizeof(rb->buf)` (15 MiB), so `BytesUsed` is the very expression of the
code: the difference modulo 2^64, modulo the array's size. `mem` holds, for each slot,
the number of the accepted byte stored there (bytes are numbered as they are
accepted), which makes "the right bytes in the right order" expressible.

`rb_write` is `WriteCall` (read the pointers, decide `to_copy`), `WriteCopy`,
`WritePublish` (move `tail`). `rb_read` is `ReadCall`, `ReadPoll` (the poll that ends
the `usleep` loop; earlier polls change nothing), `ReadCopy`, `ReadPublish` (move
`head`). `rb_init` is its two stores. The memory model is that of the platform the
program runs on (x86): stores of a thread become visible in program order. The build
loads both pointers once per sample; the own pointer of the sampling thread does not
change meanwhile, so a sample is one read of the other thread's pointer. The one
exception, samples taken while `rb_init` runs, is covered since a sample between its
two stores is allowed.

`wr`, `rd`, `inBand` are history variables: bytes accepted, bytes consumed, and
whether every sample so far was *in band*. 15 * 2^20 does not divide 2^64, so once
`tail` has wrapped around the array and `head` has not, `BytesUsed` is too high by
`Excess = WORD % SIZE` (1 MiB), modulo `SIZE`. In band means that this cannot mislead
the thread: the reader really has more than `count` bytes before it, the writer's
`Fill + Excess` stays below `SIZE`. The code keeps all its promises in band
(`FillExact`, `NoRace`, `FifoInBand`), and breaks them out of band: the run
`ring_full` shows rb_write overwriting unread bytes; a reader of a nearly drained,
wrapped buffer goes past `tail` in the same way. `LevelKept` says, of the bytes
themselves, at which level no sample can be out of band; it is the hypothesis of two
theorems.

Scaling: with one unit = 1 MiB / k the sizes become `SIZE = 15k` and `WORD = k * 16^m`,
which keeps `Excess = SIZE / 15` as shipped: 15/256 and 30/512.

Two ways to start: `InitReady` for `outbuf` (`rb_init` runs before the output thread
exists, `dvb2dvb.c:458`), `InitRacing` for `inbuf` (calloc'ed, `rb_init` runs in the
curl thread while the mux thread may be polling, `dvb2dvb.c:147` and `:170`).

### Mux

One action per thing the loop does between two points where `rb_read` may block:
`Refill(s)` is the body of the "ensure we have enough data" loop for a service whose
PCR packet alone is left (move that packet to the front, `read_to_next_pcr`, compute
`bitpos`); services are refilled in order, before anything is output (`Ready`).
`EmitPacket` and `EmitTable` are the rest of the iteration: find the most urgent
service (`<`, so the first one wins ties), find the table due before it (`<=`, so the
last one wins ties), pad, output, advance.

`Position` keeps C's arithmetic: the product wraps at `Int64`, divisions truncate
towards zero, the PCR wraps at `PcrPeriod`. Signed overflow is undefined in C;
wrapping is what the build's multiplication does.

A packet is a record of its kind and number. Kinds are what the loop distinguishes:
EIT packets (with more of the section to come, or the section's last), and the rest.
Packets that are read and dropped (unmapped PIDs, tables, EIT of other services) do
not appear: they change no state of the loop. An EIT section arrives as a whole, as
`copy_section` puts it into the buffer in one go; how `process_section` assembles it
is another module's business. The first packet of each service is of kind "unmapped":
`sync_to_pcr` stores it without the PID change.

`due` and `at` are history variables: the position of what was output last and where
in the output it went; so are `sent` (number of the last packet output, per service),
`pcrs`, and `openEit` (the service whose EIT section the output is inside).
`outbuf` is taken to accept everything; what happens when it is full is `RingBuffer`'s
and `Pipeline`'s subject.

The AIT (`next_psi` 5) is left out: `ait_pid` is set only when `hbbtv.url` is, which
`parse_config` sets under `if (i < 0)`.

Definitions that begin a comment with `(mutant: ...)` are plausible wrong versions of
the definition after them, used to see that the properties would notice.

### Sections

A byte is named by its place in one round of the sections a sender repeats for ever.
`Round` gives the section each byte belongs to; a packet's payload is a sequence of
such names, padded with `Stuffing`. `next` and `length` are the code's `bytes_read`
bytes and `next->length`; the CRC is right (`CrcOk`) exactly when the bytes collected
are those of one section in order.

One action per outcome of a call of `process_section`: `Ignore` (nothing in progress
and no start of a wanted table), `Collect` (more packets to come), `Complete` (taken
over if the CRC is right; state cleared in either case). `Lose` is a packet that never
arrives: `curl_callback` drops what does not fit. The sender is external. When
`packed` is FALSE every section starts in a packet of its own; when it is TRUE it
starts behind the end of another when there is room for its first byte and another,
as DVB permits. `process_section` takes the pointer field as an offset only when it is
between sections; within one it skips it and takes what follows for the rest.

A section's three header bytes are taken to be in the packet it starts in: the code
reads the length from there without looking whether they are (`psi_read.c:238`).

### ServiceInit

Packets are their kinds, since all that `init_service` and `sync_to_pcr` do depends on
is the table a packet carries, whether `process_pat` accepts a PAT, and whether an SDT
section describes the service. `CurlWrite` is `curl_callback` up to `rb_write`, which
takes what fits; `CurlStatus` is its last assignment. `phase` and `svc` are where
`mux_thread` is: `FindPat` and `FindTables` are one packet in the two loops of
`init_service`, `Poll` one service in the loop that waits for `status`, `Sync` one
packet in `sync_to_pcr`. `KeptSdt` is `process_sdt`'s decision: the section stays
once the name is known, also when this section is not the one that named the service,
so that `Ready` can promise no more than that the name is known.
`Read` needs more than one packet in the buffer, as `rb_read` does.

After the last table of a service `init_service` also runs `process_pmt` and
`create_pmt`; neither changes a variable of this module, both are in `Startup`. `Poll` adds
`status` up anew in every round, as the code does: the wait may end before every service
has set it (`AllStarted` need not hold), though never before `init_service` has read from each.

### Pipeline

A source byte is its number, so that its place in its packet is the number modulo `P`;
the bytes of packets the program makes (null packets, tables, rewritten EIT sections, and
here also the other services' packets) are negative. `outbuf` and the output thread's block
hold the numbers under which `outbuf` accepted the bytes, and `content` what those bytes
are, so that "the device gets what was accepted" is the refinement of `ByteFifo` and "what
was accepted is right" are the other properties. `Way` is the road of a source byte from
its end to its beginning: what `outbuf` has accepted, `sv->buf`, `inbuf`.

`Receive` is a chunk in `curl_callback`; the code returns `size * nmemb` whatever
`rb_write` took. `TakePacket` is `rb_read` of a packet, which waits for more than it takes.
`InitService` drops what it reads; `SyncToPcr` keeps the packet with the PCR (`first`);
`ReadToNextPcr` is one packet in `read_to_next_pcr`: kept if `pid_map` has its PID, replaced
by packets of a new section (or by none) if it is of the EIT, else dropped, and a PCR ends the
reading. What kind a source packet is, is a constant (`Pcrs`, `Mapped`, `Eits`); once the
stream is misaligned, what is taken for a header may be anything (`KindsOf`). `EmitPacket`
outputs all packets of `buf` but the last, which waits for the next reading, and `Pad`
whatever else the loop outputs, in any number and place (`Mux` says which). Both `rb_write`s
go on whatever was taken (`Put`). The output thread is `Open` (which may fail: the thread
ends), `Start` (the prefill), `ReadBlock`, and `Write` / `WriteNothing`, the rounds of the
loop over `write`: part of what is offered, or nothing, or an error, which the code treats
alike.

### Config, Tables, Events, Startup

The numbers are the program's: PIDs, lengths, capacity, 16 bits of `bandwidth_hz`.

A JSON object is the sequence of its entries; what may be missing is a sequence of at
most one element. `ConfigValid` holds when `parse_config` gets to its last return;
which negative number it returns otherwise is not told apart, since `main` does not
either. `Muxes` is the result. Fields with enumerated strings keep the string as value.
`NoParams` is `calloc`'s: the first constant of each type; `code_rate_HP` 0 is
`FEC_NONE`, with which `calc_channel_capacity` exits. `ChannelCapacity` truncates where
the code does; a mux without bandwidth gets 0.

A section is a record of its fields, a descriptor its tag, the length byte the code
wrote there, a number of bytes and its texts. `len` is kept apart from the real size
`Size` so that a wrong or wrapped length byte can be seen. CRC, versions and
`table_id`s are constants in the code and left out.

`process_sdt` gets one SDT section after the other while the PMT or the name is missing
(`Processed`). It copies every service's name into an array of 128 bytes unchecked
(`Smashes`) and exits at an entry that is longer than the section: `ProcessSdt` says which
of the two comes first. From phase "smashed" on nothing is claimed, as nothing is known.

`PidMap` gives a PID of the PMT its last place among the streams passed on, as the
repeated assignment does, and a PCR PID without a place the one after all of them.
`PmtStreams` keeps what `pid_map` maps, which includes a stream of any type on the PCR's
PID. `Extended` is one call of `recode_text` with overflow; its accumulator is the
descriptors written and the chunk `overflow` of `copy_eit_descriptors`, whose loop is the
recursive function in `CopyEitDescriptors`. `Chosen` and `Tagged` are the copying loops'
choice by tag. What a receiver makes of the tables (`Plain`, `Names`, `ExtendedText`) and
what the input must be for that to fit (`NameFits`, `TextsFit`) stand apart, at the
modules' ends: no action uses them.

In `Startup`, `Configure` is `main`, `CalcCapacity` the beginning of `mux_thread`,
`InitService` one `init_service` as a whole (or its endless search when no acceptable
PAT leads to the PMT, or no SDT section names the service), `Sync` one `sync_to_pcr`, which
may put another PMT and another SDT section in place of those held, while `pid_map` and
`new_pmt` stay as `init_service` made them, `CreateTables` the three calls
before the loop, `WriteTables` one output of all tables, `PassEvent` an EIT section in
`read_to_next_pcr`. `out`, `rounds` and `eit` are history. A mux with no service at
all is left out: the loop then reads `services[0]`, which does not exist.

## 3. Runs

| Run | Shows |
|---|---|
| `RingThreads.cfg` | chunks of 1, 3, 7 against blocks of 2, 4 in 15 slots, 45 bytes (three laps, every wrap situation), short writes, both ways to start: `TypeOK`, `FillExact`, `NoRace`, `FifoInBand`, `Drained` |
| `RingFull.cfg` | violation of `OneByteEmpty`: a wrapped buffer with 14 MiB unread is overwritten |
| `MuxLoop.cfg` | two services, three PCR intervals each of two lengths, contents none / one packet / an EIT section of two: `TypeOK`, `InSequence`, `NeverOvertaken`, `CadenceKept`, `OnTime`, `Progress` |
| `MuxPcrWrap.cfg` | violation of `SiFrequencies` when a PCR wraps |
| `MuxOverflow.cfg` | violation of `PositionsAreBits` when the 64-bit product overflows |
| `MuxEit.cfg` | violation of `EitContiguous` with two services' EIT |
| `Sections.cfg` | sections of one, two and three packets, packed or not, three packets lost anywhere: `TypeOK`, `Genuine`, and, when not packed, `LossCost`, `Recovers` |
| `InitStarts.cfg` | two services joined anywhere, buffers that overflow only after three rounds: `TypeOK`, `Ready`, `Started` |
| `InitSdt.cfg` | violation of `SdtDescribes`: a later SDT section replaces the one waited for |
| `Pipeline.cfg` | packets of 2, an input buffer of 5 and an output buffer of 9, blocks of 4, chunks of 1 and 4, eight source packets (three with a PCR, one mapped, one of the EIT, three others), two packets made, one failed write, a device that may be missing: `TypeOK`, `InOrder`, `Intact`, `Aligned`, `DeviceIsFifo`, `Delivered`, `InputDrained` |
| `Startup.cfg` | 17 configuration files, 17 streams, PMTs and SDT sections that come later, six events, 18 rounds of output: `TypeOK`, `ConfigMeans`, `StandardRate`, `TablesFit`, `PidsDistinct`, `ReceiverFinds`, `NamesKept`, `EventTextKept`, `LengthsFit`, `CcContinuous` |
| `NoCa.cfg` | violation of `NoCa`: CA descriptors of the program stay in the PMT |

Every violation is a behaviour of the code that a comment or the repository's README
excludes; `PROJECT.json` quotes it under "findings".

More disagreements are visible in the models without a run of their own:

* `sync_to_pcr` copies the first PCR packet of a service into its buffer with its input
  PID (`dvb2dvb.c:299`), and it is output so: `Mux` gives it the kind "unmapped", and
  the first `EmitPacket` of a service outputs it.
* With sections packed behind one another (`packed`), a section that starts behind the
  end of another is never taken over (`psi_read.c:252`): `AllTaken`, without
  `packed \/`, fails in `Sections.cfg`'s instance with `MaxLost = 0`.
* The NIT's `transport_stream_loop_length` (`psi_create.c:351`) is 10 less than the loop:
  `CreateNit` has `LoopLength(descs) - 4` where the loop is `6 + LoopLength(descs)`.
* A service name of 128 bytes or more in an SDT section, whosever it is, is copied over the
  end of `tmp` (`psi_read.c:145`): `Smashes`.
* "Wait for 4MB in the ringbuffer" (`dvb2dvb.c:397`) is 10 MiB in the code; no property
  depends on the number.
* `NothingInvented`, "the write thread only modifies the tail pointer"
  (`ringbuffer.c:11`), does not hold while `rb_init` runs in the download thread
  (`dvb2dvb.c:147`): a poll between its two stores reads bytes that nobody wrote. It fails
  in `RingThreads.cfg`'s instance.
* `OnePacketEach`, "We output one TS packet (either real or padding) in each
  iteration" (`dvb2dvb.c:535`), does not hold once `curl_callback` or `rb_write` has
  dropped a part of a packet (`dvb2dvb.c:128`, `616`). It fails in `Pipeline.cfg`'s instance.
* `SearchEnds`: a stream with PAT, PMT and SDT is not enough (README:30) when a network
  PID comes last in its PAT (`psi_read.c:89`): `init_service` then looks for a PMT on that
  PID for ever. It fails in `Startup.cfg`'s instance.
* `EventLengthsTrue`, `LengthsFit` without its exception below (`psi_create.c:111`), fails
  in `Startup.cfg`'s instance.
* `AllStarted`: the wait for the services (`dvb2dvb.c:502`) may count one of them twice. It
  fails in `MCServiceInit` with `Sizes = {6}`, `InbufSize = 12`, `MaxPackets = 12`; `InitStarts.cfg`'s
  instance is too small. It does no harm, as `Ready` shows.
* A capacity of 0, which `calc_channel_capacity` gives for a bandwidth of 0 (`dvb2dvb.c:328`),
  makes `next_nit_bitpos` stand still (`dvb2dvb.c:593`) and the NIT go out for ever:
  `SiFrequencies` fails in `Mux` with `Capacity = 0` and every `Freq` 0.

`bandwidth_hz` is commented "Bandwidth in Hz" (`dvbmod.h:25`), but is in kHz and has 16
bits: a file that gives 8000000 gets 4608 (`Stored`), which `ConfigMeans` excepts.
`PidsDistinct` needs `PidsSuffice`, at most 99 new PIDs a service, the largest number in
`MCStartup`; with the next one the service meets the PMT PID of the one after it. `EventTextKept`
counts what overflows from an event's last descriptor as lost at the end: the code
drops it, up to five bytes for each descriptor. `LengthsFit` leaves out short events
whose two code pages do not fit into 255 bytes (the length byte wraps,
`psi_create.c:111`; `EventLengthsTrue` is without this exception), and items that leave no room for text (`psi_create.c:67`).

**Bounds.** `StreamLen` ends a stream after three laps of the ring buffer: the
pointers' relation to each other repeats every lap, so this covers every combination of
wrapped and unwrapped pointers with empty and full buffers. `MaxPcrs` ends a stream
after that many PCRs; two intervals suffice for a carried-over packet on both sides,
the third lets the second table period pass. `MaxBits` stops the output only if the
loop runs away; `mux_loop` comes nowhere near it (its outputs end below 160 of 240
bits). Deadlock checking is off because all streams end.

`OnTime` is about a load the channel can carry, which the code leaves to the user: in
`MuxLoop.cfg` each interval is 33 or 48 bits, at most two services' three packets of 4
bits fall into it, and five table packets per 48 bits or more. The tables' periods have
the 1 : 2 ratio where the code's is 1 : 5.

`Sections`: `Room` is 4 bytes, so that the sections take up to three packets and end at
every offset of one; a section not wanted lies between wanted ones. `MaxLost` of three
allows a loss in the first section that is broken, in what is taken for its rest, and
once more after recovery. `MaxMissed` is above what `LossCost` allows.

`ServiceInit`: `MaxPackets` ends the streams. Both deliver at least three rounds and a
packet wherever they are joined (a round may be spent on each of PAT, tables and PCR,
and `rb_read` leaves the last packet), and a buffer holds as much before it overflows,
as 15 MiB hold some twenty seconds of a service. `Started` needs this: overflow first rounds may take away every PAT. `Ready` does not, as its proof shows.

`Pipeline`: both buffers are small enough to overflow in the middle of a packet, and a
chunk may be a part of a packet or two whole ones; `Prefill` lies above one block and
below the buffer's size, as 10 MiB do. Three PCRs give two readings, the first over a mapped,
an EIT and an unmapped packet; the source sends more than inbuf holds. `MaxMade` of two, shared
by packets between the service's and those of an EIT section, shifts the packets against the
blocks, `MaxFaults` of one puts a failed write at every place of a block.

`Startup`: every error return of `parse_config` and `main` is met by a file. The streams
have a PCR with the video, on its own PID and on a data stream, a PID listed twice, 99
new PIDs, CA descriptors of streams and of the program, several programs, a network
PID last, and the PATs `process_pat` rejects; the SDTs are of a network that is recoded
and of one that is not, with names that are empty or as long as
`process_sdt` has room for, or, where only `create_sdt` reads them, as long as the recoding has
room for, names too long, entries cut off before and after those, entries without a name and
other services. The events fill three and sixteen descriptors, with items, with empty
text and other descriptors in between. 18 rounds carry every counter past 15.

**Fairness.** `RingBuffer`: each thread keeps running (`WF` on `Writer` and `Reader`),
which the scheduler of the operating system grants; the reader's polls are not steps.
`Mux`: the one thread keeps running while `rb_read` has what it waits for
(`WF` on `Next`). `Sections`: packets keep arriving (`WF` on `Receive`); losses are
bounded, so none is needed for `Lose`. `ServiceInit`: the mux thread and each curl
thread keep running, and each stream delivers all its packets. `Pipeline`: the mux
thread and the output thread keep running; since failed writes are bounded, `WF` on
`Output` says that the device does not refuse for ever. The source owes nothing.

`Drained` allows what `rb_read` waits to see exceeded: `count >= bytes_used` makes it
wait even when exactly `count` bytes are there, so the last chunk of a stream stays. It
also asks for the level to be in the writer's band from the stream's end on: full and
wrapped, the buffer may look empty to the reader, which then waits for ever. `Delivered`
and `InputDrained` allow the same for a block and a packet.

## 4. Proofs

`RingBufferProofs` proves, from `LayoutAssumption` (the array has more than one byte,
does not start at NULL and lies inside the address space) and `CallsAssumption` (counts
are positive, a read asks for less than the array), for every size, address space and
sequence of calls:

* `TypeCorrect`, `FillIsExact`, `NoMutexNeeded`: the type invariant, `FillExact` and
  `NoRace` are invariants;
* `FifoWhileInBand`: while in band every step is a step of `ByteFifo` or a stutter;
* `InBandAtLevel`, `FifoAtLevel`: as long as `LevelKept` holds, no sample of the output buffer
  is out of band and the buffer implements `ByteFifo` outright. `LevelKept` asks, only while
  `tail` has wrapped and `head` has not, for more unread bytes than a block has and for more
  than `Excess` free ones: with the shipped size between 37,601 bytes and just below 14 MiB. The
  first part is what the prefill and the padding are for; the code watches neither. Whether a
  thread is misled depends on the level, and the level on its not having been misled before,
  so the proof is by induction over both (`StepLevel`).

The inductive invariant `Inv` adds to the properties what each thread relies on between
its steps. `FillExact` alone is not inductive: that moving `tail` by `wn` keeps the
level exact needs `Fill + wn < SIZE` still to hold two steps after the sample
(`RoomKept`), and moving `head` needs `rn < Fill` (`BytesKept`); each is preserved by
the other thread because a reader only makes room and a writer only adds bytes. That
the bytes are the right ones needs `Stored` (slots from `head` hold the unread bytes in
order), `Copied` and `Returned` (what each copy has done before its pointer moves).
`SetUp` and `Waiting` cover `rb_init`. The arithmetic is in three lemmas: `UsedRange`,
`UsedUnwrapped` (exact when `tail` has not wrapped), `UsedWrapped` (too high by
`Excess` when it has, while that stays below `SIZE`).

`MuxProofs` proves, from the assumptions on the streams' constants, for any number of
services, any capacity and any periods:

* `TypeCorrect`, `EveryPacketOnce`: `TypeOK` (the loop indexes only what it has read) and
  `InSequence`. The latter needs `Queued`: the packets of a buffer are consecutive and
  the one at `packets_written` follows the one sent last, through the refill that moves
  the last packet to the front;
* `TurnsKept`, `TablesReturn`: `NeverOvertaken` and `CadenceKept`, as long as every
  state is `Unwrapped` (no PCR below the ones before it, no product beyond `int64_t`).
  Neither is inductive: that a service's next packet is not due before the last output
  needs the positions in its buffer to rise (`Rises`), and that this survives a refill
  needs the last position to be the one its PCR gives (`Scheduled`), since the refill
  computes the kept packet's position anew, by another formula. `Timely` is what the
  loop's choice adds: nothing waits that is due before `due`;
* `ShortStreams`: streams that end before their PCR wraps and before the product
  overflows are `Unwrapped` throughout. The runs `mux_pcr_wrap` and `mux_overflow` show
  that what is promised fails beyond that.

`SectionsProofs` proves, for any layout of sections, any size of packets and any losses,
`TypeOK`, `Genuine` (with `Begun`: what is being collected began with a byte of a wanted
section, so the announced length is that section's) and `LossCost`. The last one is
about unpacked senders and needs an account (`Cost`): while nothing is broken `next` is
exactly what the sender has sent of its section (`Clean`); a section that a loss has
broken (`Broken`) swallows packets, and each section missed since has put at least a
packet's worth into it. `Spaced` says that a section's first packet is full unless the
section ends in it, without which a swallowed packet would not count as one.

`PipelineProofs` proves, for any sizes of packet, buffers, blocks and chunks:

* `TypeCorrect` and `DeviceTakesAll`: every step is a step of `ByteFifo` or a stutter,
  under the refinement mapping of `DeviceIsFifo`. The invariant is `Numbered`: the device's
  bytes, what remains of the block and `outbuf` are consecutive stretches of what
  `outbuf` has accepted; a refused write leaves `done` where it was;
* `NothingOvertakes`: `InOrder`, by `Ordered`, which says it of each of the three places a byte
  can be in (`content`, `buf`, `inbuf`) and of each two;
* `OnlyMappedPass`: `Intact`, by `Covered`: of what `mux_thread` has read, output and `buf` hold
  what passes and was read after the first PCR, and nothing else;
* `PacketsStayWhole`: `Aligned`, by `Phased`: while only whole packets have been dropped
  what the mux thread reads next begins a packet, and the end of `inbuf` and the source
  are at the same place of one.

`ServiceInitProofs` proves, for any number of services, any streams, any sizes of buffers
and chunks (`StreamsAssumption`):

* `ServicesReady`: `Ready` is an invariant. For the services `init_service` has returned for
  one needs that a PMT is held only after its PID is known (`PmtAfterPat`, which has to say
  that services not yet reached hold none), for those `sync_to_pcr` has returned for that
  each has its PCR (`PcrsFound`). That an SDT section stays only once the name is known rests
  on `process_sdt` clearing `sdt.length`. Which section stays is not promised (`init_sdt`);
* `TypeCorrect`: `TypeOK`. Its bound on `active_services`, which the wait adds to in every
  round without setting it back, needs `Counted`.

`StartupProofs` proves, for any configuration files whose lists are lists and whose
bandwidths are numbers (`InputAssumption`), and any streams, later PMTs, later SDT sections and events:

* `ParamsAsMeant`: `ConfigMeans`. `ParseMuxParams` is a fold with an operator as its
  argument; `ParseLoop` shows it to be a loop over the entries, and `ParsedParams` that
  the loop leaves each parameter as its last entry says;
* `CapacityAsStandard`: `StandardRate`. The invariant `Rated` says that the capacity is that of
  the parameters held and that those have the types `parse_mux_params` leaves (`Sound`);
  `RateMet` bounds the four truncations by cases over the guard intervals and code rates;
* `PidsStayDistinct`: `PidsDistinct`, if a service's 100 PIDs suffice (`PidsSuffice`: at most
  80 services and 99 new PIDs each). The lemmas on `PidMap` are that a PID's number is at
  most the number of streams passed on, by whether the PCR's PID is among them, and that
  two PIDs have different numbers, although a PID listed twice takes the later one;
* `StartupTypes`: `TypeOK`, under the same hypothesis, which the 13 bits of a PID need;
* `CountersContinuous`: `CcContinuous`, for tables of any length. The step needs what was
  output before it: every PID with a table has a counter, which is that of the packet after
  the last one in `out` (`TablesMade`);
* `ReceiverFindsAll`: `ReceiverFinds`, without a hypothesis: `new_pmt` and `pid_map` are made
  from one PMT of the stream and stay so, whatever PMT `sync_to_pcr` puts into `sv->pmt`;
* `NamesStay`: `NamesKept`, if the names fit (`NamesFit`) and the configuration gives no two
  services the same id (`IdsDiffer`; `create_sdt` does not look). The names are those of the
  section of the stream that the service holds when the tables are made;
* `EventTextStays` and `LengthsTrue`: `EventTextKept` and `LengthsFit`, if the events' texts
  fit (`EventsFit`) and, for the latter, the names do. The invariant of the loop over an
  event's descriptors (`Copied`) bounds the overflow by five bytes for each extended
  descriptor so far, which is why `TextsFit` counts them;
* `TablesLeaveRoom`: `TablesFit` in every state in which no table is longer than its buffer and
  the channel has room for that many full ones (`TablesShort`). The theorem says
  that the truncating division of `ms_to_bits`, which makes the tables come more often
  than meant, never costs that room. As an invariant of `Startup.cfg`, `TablesShort` holds.

`PidsSuffice`, `NamesFit`, `IdsDiffer` and `EventsFit` speak of the constants alone; `MCStartup`
assumes them, so that TLC evaluates them for its instance. They are what the input must be
like, and the code checks none of them. Beyond `PidsSuffice` PIDs meet; a text that does not
fit wraps its length byte or leaves nothing to copy into (section 3); of two services with
one id a receiver would see both services' names under it.

The inductive invariant is `Inv`: the services are the entries of the file read (`Listed`,
`FromFile`); those `init_service` has not got to are as `parse_service` leaves them
(`Waiting`); the others have tables of one of their streams, `pid_map` and `new_pmt` made from
its PMT, and that PMT and that stream's SDT section or ones that came later (`Given`). `TablesMade`
says that in the loop the tables are what `create_*` make of the services as they are: no
`Sync` comes after `CreateTables`. `EitGiven` says the same of the last event, `Timed` of the
periods.

`TableProofs` has what these need to know of data: that the sums (`Total`), the selections
(`Chosen`) and the concatenations (`FlattenSeq`) of the model are loops, one round for each
element, and what such a loop keeps. As induction is out of the provers' reach, `Rounds`
concludes from the first round and the step to all by the least counterexample. From it
come lengths and elements of selections, the descriptors `Extended` writes (each branch of
`recode_text` by itself), the loop `Copied` over an event, and `NewSdt`, `NewNit`: what `create_sdt`
and `create_nit` return.

`Arithmetic` has what these need of remainders, quotients and least elements, the latter
in place of induction over data.

Only model-checked are the liveness properties (`Drained`, `Progress`, `Started`, `Recovers`,
`Delivered`, `InputDrained`), which need `ENABLED`, and `OnTime`: it depends on the load, and its
proof would need a schedulability argument about the streams of the instance. `TablesFit` is proved
only where `TablesShort` holds.

## 5. What is left

An abstract table feed that `Sections` implements, for `ServiceInit` to be read against,
is not stated; `ServiceInit` takes a table as one packet.

Not modelled: `crc32.c` (a table; modules assume a CRC tells damaged sections from
sound ones), the vendored JSON parser, terminal output, the modulator's ioctls,
`rb_skip` (no caller), and the AIT (`create_ait`, `next_psi` 5), which nothing can
switch on: `hbbtv.url` is set under `if (i < 0)`, and a file's "hbbtv" key is not read.
The NIT's delivery descriptor always says 802 MHz, 8 MHz, 64-QAM, 2/3, whatever is
configured; it has a length here and no contents.
