----------------------------- MODULE RingBuffer -----------------------------
(***************************************************************************)
(* The mutex-free ring buffer of ringbuffer.c, shared by one write thread  *)
(* and one read thread: a curl thread and the mux thread around            *)
(* service_t.inbuf, the mux thread and the output thread around            *)
(* mux_t.outbuf.                                                           *)
(*                                                                         *)
(* head and tail are machine addresses, as in the code, because the fill   *)
(* level is computed with unsigned pointer arithmetic:                     *)
(*     (rb->tail - rb->head) % sizeof(rb->buf)                             *)
(* is ((tail - head) mod 2^64) mod 15*1024*1024, and 15*1024*1024 does not *)
(* divide 2^64.  WORD stands for 2^64 and SIZE for sizeof(rb->buf).        *)
(*                                                                         *)
(* Each call is split at its accesses to shared memory: reading the other  *)
(* thread's pointer, copying the bytes, publishing its own pointer.  The   *)
(* copy is one step: NoRace says that while the fill level stays in band   *)
(* the two threads never copy through the same slots at the same time, so  *)
(* splitting it further would show nothing new.                            *)
(***************************************************************************)
EXTENDS Integers

CONSTANTS
  SIZE,         \* sizeof(rb->buf)
  WORD,         \* size of the address space
  BASE,         \* address of rb->buf
  WriteCounts,  \* the counts rb_write is called with
  ReadCounts,   \* the counts rb_read is called with
  StreamLen     \* bound: the stream ends once this many bytes are accepted

ASSUME LayoutAssumption ==
  /\ SIZE \in Nat /\ SIZE > 1
  /\ BASE \in Nat /\ BASE > 0
  /\ WORD \in Nat /\ BASE + SIZE <= WORD

ASSUME CallsAssumption ==
  /\ WriteCounts \subseteq Nat \ {0}
  /\ ReadCounts \subseteq 1..SIZE - 1
  /\ StreamLen \in Nat

VARIABLES
  head,     \* rb->head, the next byte to read
  tail,     \* rb->tail, the next free location to write
  mem,      \* rb->buf: the number of the accepted byte each slot holds
  wpc,      \* where the write thread is
  wn,       \* its to_copy
  rpc,      \* where the read thread is
  rn,       \* its count
  block,    \* the caller's buf of the latest rb_read
  wr,       \* history: bytes accepted by rb_write so far
  rd,       \* history: bytes consumed by rb_read so far
  inBand    \* history: every fill level used so far was in band (see below)

writerVars == <<tail, wpc, wn, wr>>
readerVars == <<rpc, rn, block, rd>>
vars == <<head, tail, mem, wpc, wn, rpc, rn, block, wr, rd, inBand>>

NULL == 0
Slots == 0..SIZE - 1

\* Distance from the slot p points to forward to slot o, around the array.
Dist(p, o) == IF o >= p - BASE THEN o - (p - BASE) ELSE o - (p - BASE) + SIZE

\* The slot i bytes after the one p points to, around the array.
SlotAt(p, i) == IF p - BASE + i < SIZE THEN p - BASE + i ELSE p - BASE + i - SIZE

-----------------------------------------------------------------------------
(* The pointer arithmetic of the code.                                     *)

\* rb_get_bytes_used: a signed difference taken modulo an unsigned size.
BytesUsed == ((tail - head) % WORD) % SIZE

\* (mutant: > for >=, the pointer may rest one past the array)
AdvanceLate(p, n) ==
  IF p + n > BASE + SIZE
    THEN BASE + n - (SIZE - (p - BASE))
    ELSE p + n

\* A pointer moved n bytes on; the two-part copy wraps it to the array's start.
Advance(p, n) ==
  IF p + n >= BASE + SIZE
    THEN BASE + n - (SIZE - (p - BASE))
    ELSE p + n

\* (mutants: the free space is not looked at; the empty byte is used too)
ToCopyAll(count) == count

ToCopyFull(count) ==
  IF BytesUsed + count > SIZE THEN SIZE - BytesUsed ELSE count

\* rb_write's to_copy: what fits, leaving one byte empty.
ToCopy(count) ==
  IF BytesUsed + count >= SIZE THEN SIZE - BytesUsed - 1 ELSE count

\* (mutant: the second part of the copy starts over at buf, not buf+n1)
CopiedInTwice(p, n, first) ==
  [o \in Slots |->
     IF Dist(p, o) >= n THEN mem[o]
     ELSE first + (IF o >= p - BASE THEN Dist(p, o) ELSE o)]

\* The array after bytes first, first+1, ... have been copied in at p.
CopiedIn(p, n, first) ==
  [o \in Slots |-> IF Dist(p, o) < n THEN first + Dist(p, o) ELSE mem[o]]

\* The n bytes found at p.
CopiedOut(p, n) == [i \in 1..n |-> mem[SlotAt(p, i - 1)]]

-----------------------------------------------------------------------------
(* The band.  Fill is the fill level the two pointers really stand for.    *)
(* Once tail has wrapped and head has not, BytesUsed is too large by       *)
(* Excess (modulo SIZE).  A sample is in band when that cannot mislead the *)
(* thread that took it: the reader still has more than count bytes to      *)
(* read, the writer's Fill + Excess does not itself wrap past SIZE.        *)

Excess == WORD % SIZE

Wrapped == tail < head

Fill == IF Wrapped THEN SIZE - (head - tail) ELSE tail - head

WriteInBand == Wrapped => Fill + Excess < SIZE

ReadInBand == tail # NULL /\ (Wrapped => rn < Fill)

-----------------------------------------------------------------------------
(* The write thread.                                                       *)

\* rb_init, two plain stores.
InitHead ==
  /\ wpc = "init_head"
  /\ head' = BASE
  /\ wpc' = "init_tail"
  /\ UNCHANGED <<tail, mem, wn, wr, readerVars, inBand>>

InitTail ==
  /\ wpc = "init_tail"
  /\ tail' = BASE
  /\ wpc' = "idle"
  /\ UNCHANGED <<head, mem, wn, wr, readerVars, inBand>>

\* rb_write up to the decision how much to copy; it reads rb->head once.
WriteCall(count) ==
  /\ wpc = "idle"
  /\ wr + count <= StreamLen
  /\ wn' = ToCopy(count)
  /\ wpc' = IF wn' = 0 THEN "idle" ELSE "copy"
  /\ inBand' = (inBand /\ WriteInBand)
  /\ UNCHANGED <<head, tail, mem, wr, readerVars>>

WriteCopy ==
  /\ wpc = "copy"
  /\ mem' = CopiedIn(tail, wn, wr + 1)
  /\ wpc' = "publish"
  /\ UNCHANGED <<head, tail, wn, wr, readerVars, inBand>>

WritePublish ==
  /\ wpc = "publish"
  /\ tail' = Advance(tail, wn)
  /\ wr' = wr + wn
  /\ wpc' = "idle"
  /\ UNCHANGED <<head, mem, wn, readerVars, inBand>>

Writer ==
  \/ InitHead
  \/ InitTail
  \/ \E count \in WriteCounts : WriteCall(count)
  \/ WriteCopy
  \/ WritePublish

-----------------------------------------------------------------------------
(* The read thread.                                                        *)

ReadCall(count) ==
  /\ rpc = "idle"
  /\ rn' = count
  /\ rpc' = "poll"
  /\ UNCHANGED <<head, mem, writerVars, block, rd, inBand>>

\* (mutant: it waits for half a buffer)
ReadPollHalf ==
  /\ rpc = "poll"
  /\ rn < BytesUsed /\ SIZE \div 2 <= BytesUsed
  /\ rpc' = "copy"
  /\ inBand' = (inBand /\ ReadInBand)
  /\ UNCHANGED <<head, mem, writerVars, rn, block, rd>>

\* The poll that ends rb_read's usleep loop; the earlier ones change nothing.
ReadPoll ==
  /\ rpc = "poll"
  /\ rn < BytesUsed
  /\ rpc' = "copy"
  /\ inBand' = (inBand /\ ReadInBand)
  /\ UNCHANGED <<head, mem, writerVars, rn, block, rd>>

ReadCopy ==
  /\ rpc = "copy"
  /\ block' = CopiedOut(head, rn)
  /\ rpc' = "publish"
  /\ UNCHANGED <<head, mem, writerVars, rn, rd, inBand>>

ReadPublish ==
  /\ rpc = "publish"
  /\ head' = Advance(head, rn)
  /\ rd' = rd + rn
  /\ rpc' = "idle"
  /\ UNCHANGED <<mem, writerVars, rn, block, inBand>>

Reader ==
  \/ \E count \in ReadCounts : ReadCall(count)
  \/ ReadPoll
  \/ ReadCopy
  \/ ReadPublish

-----------------------------------------------------------------------------
InitCommon ==
  /\ mem = [o \in Slots |-> 0]
  /\ wn = 0 /\ wr = 0
  /\ rpc = "idle" /\ rn = 1 /\ rd = 0
  /\ block = << >>
  /\ inBand = TRUE

\* outbuf: mux_thread calls rb_init before it creates the output thread.
InitReady ==
  /\ InitCommon
  /\ head = BASE /\ tail = BASE
  /\ wpc = "idle"

\* inbuf: calloc'ed memory; the curl thread calls rb_init while the mux
\* thread may already be polling in init_service.
InitRacing ==
  /\ InitCommon
  /\ head = NULL /\ tail = NULL
  /\ wpc = "init_head"

Next == Writer \/ Reader

Fairness ==
  /\ WF_vars(Writer)
  /\ WF_vars(Reader)

Safety == (InitReady \/ InitRacing) /\ [][Next]_vars

OutbufSpec == InitReady /\ [][Next]_vars /\ Fairness

FairSafety == Safety /\ Fairness

-----------------------------------------------------------------------------
(* Properties.                                                             *)

WriterPcs == {"init_head", "init_tail", "idle", "copy", "publish"}
ReaderPcs == {"idle", "poll", "copy", "publish"}
Pointers == {NULL} \cup BASE..(BASE + SIZE - 1)

\* Both pointers stay inside rb->buf whatever the fill level is mistaken
\* for, and no copy is longer than the array (rb_read, rb_write).
TypeOK ==
  /\ head \in Pointers /\ tail \in Pointers
  /\ mem \in [Slots -> Nat]
  /\ wpc \in WriterPcs /\ wn \in 0..SIZE - 1
  /\ rpc \in ReaderPcs /\ rn \in 1..SIZE - 1
  /\ block \in [1..rn -> Nat] \/ rpc # "publish"
  /\ wr \in Nat /\ rd \in Nat
  /\ inBand \in BOOLEAN

\* While in band, the distance between the pointers is exactly the number
\* of bytes accepted and not yet consumed, and at least one byte of the
\* array stays free ("One byte is always left empty", ringbuffer.c).
FillExact == inBand /\ tail # NULL => Fill = wr - rd

WriteRegion == IF wpc = "copy" THEN {o \in Slots : Dist(tail, o) < wn} ELSE {}
ReadRegion  == IF rpc = "copy" THEN {o \in Slots : Dist(head, o) < rn} ELSE {}

\* While in band, rb_write never copies into a slot rb_read is copying from:
\* this is what lets the buffer do without a mutex.
NoRace == inBand => WriteRegion \cap ReadRegion = {}

Fifo == INSTANCE ByteFifo WITH
  Capacity <- SIZE - 1,
  put      <- wr,
  got      <- IF rpc = "publish" THEN rd + rn ELSE rd,
  block    <- block

\* While in band, every step of either thread is a step of the abstract
\* byte queue: rb_read returns accepted bytes, each once, in order.
FifoInBand ==
  [][inBand' => Fifo!Next \/ UNCHANGED Fifo!vars]_vars

\* The level that keeps the fill level of rb_get_bytes_used harmless, said of
\* the bytes themselves: whenever tail alone has wrapped, more bytes are unread
\* than any rb_read asks for, and more than Excess slots are free.
LevelKept ==
  Wrapped =>
    /\ \A count \in ReadCounts : count < wr - rd
    /\ wr - rd + Excess < SIZE

\* No sample is ever out of band: rb_get_bytes_used misleads neither thread.
NeverMisled == inBand

\* The ring buffer implements the byte queue outright.
FifoSpec == Fifo!Spec

\* A reader that keeps calling rb_read drains the stream: what stays behind
\* is at most the one chunk rb_read waits to see exceeded (count >= bytes_used).
\* With the level out of the writer's band, a full and wrapped buffer may look
\* empty to it for ever.
Drained == [](inBand /\ WriteInBand) => <>[](wr - rd <= rn)

-----------------------------------------------------------------------------
(* What the header comment of ringbuffer.c says without reserve.           *)

\* "One byte is always left empty to distinguish between an empty and full
\* buffer": rb_write never leaves SIZE or more unread bytes behind.
OneByteEmpty == wr - rd <= SIZE - 1

\* "The read thread only modifies the head pointer.  The write thread only
\* modifies the tail pointer": rb_read never consumes bytes that rb_write has not
\* accepted.  (The write thread's rb_init modifies both, one after the other.)
NothingInvented == rd <= wr
=============================================================================
