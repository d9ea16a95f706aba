-------------------------- MODULE RingBufferProofs --------------------------
(***************************************************************************)
(* Proofs about RingBuffer, for every array size, address space, call      *)
(* count and stream length.                                                *)
(*                                                                         *)
(* The argument.  Three lemmas say what the modular pointer arithmetic     *)
(* yields; Inv is the inductive invariant: it keeps, beside the types,     *)
(* what each thread relies on between its steps.  A writer that has        *)
(* decided how much to copy still has that much room (the reader can only  *)
(* make more), a reader that has seen enough bytes still has them (the     *)
(* writer can only add some), and the slots from head to tail hold the     *)
(* accepted bytes in order.                                                *)
(***************************************************************************)
EXTENDS RingBuffer, Arithmetic

(* What each thread relies on while in band. *)
RoomKept == wpc \in {"copy", "publish"} => Fill + wn < SIZE

BytesKept == rpc \in {"copy", "publish"} => rn < Fill

Stored ==
  \A o \in Slots : Dist(head, o) < Fill => mem[o] = rd + 1 + Dist(head, o)

Copied ==
  wpc = "publish" =>
    \A o \in Slots : Dist(tail, o) < wn => mem[o] = wr + 1 + Dist(tail, o)

Returned == rpc = "publish" => block = [i \in 1..rn |-> rd + i]

BandInv ==
  /\ Fill = wr - rd
  /\ RoomKept
  /\ BytesKept
  /\ Stored
  /\ Copied
  /\ Returned

(* Which pointers are set at which point of rb_init. *)
SetUp ==
  /\ head = NULL <=> wpc = "init_head"
  /\ tail = NULL <=> wpc \in {"init_head", "init_tail"}
  /\ wpc \in {"copy", "publish"} => wn > 0
  /\ rpc \in {"copy", "publish"} => head # NULL

(* Before rb_init is over an in-band reader has got no further than polling. *)
Waiting ==
  /\ head \in {NULL, BASE}
  /\ wr = 0 /\ rd = 0
  /\ rpc \in {"idle", "poll"}

Inv ==
  /\ TypeOK
  /\ SetUp
  /\ inBand => IF tail = NULL THEN Waiting ELSE BandInv

-----------------------------------------------------------------------------
(* The pointer arithmetic. *)

Addresses == BASE..(BASE + SIZE - 1)

\* What rb_get_bytes_used returns is always less than the array's size.
LEMMA UsedRange ==
  ASSUME head \in Pointers, tail \in Pointers
  PROVE  BytesUsed \in 0..SIZE - 1
<1>1. (tail - head) % WORD \in Int
  BY LayoutAssumption DEF Pointers, NULL
<1> QED
  BY <1>1, LayoutAssumption DEF BytesUsed

\* While both pointers are on the same lap it is the fill level.
LEMMA UsedUnwrapped ==
  ASSUME head \in Addresses, tail \in Addresses, ~Wrapped
  PROVE  BytesUsed = Fill
<1>1. tail - head \in 0..SIZE - 1
  BY LayoutAssumption DEF Addresses, Wrapped
<1>2. (tail - head) % WORD = tail - head
  BY <1>1, LayoutAssumption, ModUnique
<1>3. (tail - head) % SIZE = tail - head
  BY <1>1, LayoutAssumption
<1> QED
  BY <1>2, <1>3 DEF BytesUsed, Fill

\* Once tail alone has wrapped it is Excess too high, as long as that stays
\* below the array's size.
LEMMA UsedWrapped ==
  ASSUME head \in Addresses, tail \in Addresses, Wrapped, Fill + Excess < SIZE
  PROVE  BytesUsed = Fill + Excess
<1> DEFINE d == head - tail
<1>1. d \in 1..SIZE - 1 /\ Fill = SIZE - d /\ tail - head = 0 - d
  BY LayoutAssumption DEF Addresses, Wrapped, Fill
<1>2. (0 - d) % WORD = WORD - d
  <2>1. WORD - d \in 0..WORD - 1
    BY <1>1, LayoutAssumption
  <2>2. 0 - d = WORD * (-1) + (WORD - d)
    BY <1>1, LayoutAssumption
  <2> QED
    BY <2>1, <2>2, LayoutAssumption, ModUnique
<1>3. SIZE - d + (WORD % SIZE) < SIZE
  BY <1>1 DEF Excess
<1>4. d \in 1..SIZE - 1 /\ SIZE \in Nat /\ SIZE > 0 /\ WORD \in Nat
  BY <1>1, LayoutAssumption
<1> HIDE DEF d
<1>5. (WORD - d) % SIZE = SIZE - d + (WORD % SIZE)
  BY <1>3, <1>4, ModBelow, Zenon
<1> QED
  BY <1>1, <1>2, <1>5 DEF BytesUsed, Excess

-----------------------------------------------------------------------------
(* The helpers stay inside the array. *)

\* A pointer moved less than one lap stays inside the array.
LEMMA AdvanceStays ==
  ASSUME NEW p \in Addresses, NEW n \in 0..SIZE - 1
  PROVE  Advance(p, n) \in Addresses
  BY LayoutAssumption DEF Addresses, Advance

\* rb_write's to_copy never fills the last free byte.
LEMMA ToCopyRoom ==
  ASSUME NEW count \in Nat, BytesUsed \in 0..SIZE - 1
  PROVE  ToCopy(count) \in 0..SIZE - 1 - BytesUsed
  BY LayoutAssumption DEF ToCopy

\* Dist is the inverse of SlotAt.
LEMMA DistSlotAt ==
  ASSUME NEW p \in Addresses, NEW i \in 0..SIZE - 1
  PROVE  SlotAt(p, i) \in Slots /\ Dist(p, SlotAt(p, i)) = i
  BY LayoutAssumption DEF Addresses, Slots, Dist, SlotAt

\* A set-up pointer is an address of the array.
LEMMA SetUpPointers ==
  ASSUME Inv
  PROVE  /\ head # NULL => head \in Addresses
         /\ tail # NULL => tail \in Addresses
  BY DEF Inv, TypeOK, Pointers, Addresses

-----------------------------------------------------------------------------
(* The writer's steps preserve the invariant. *)

\* rb_init's first store leaves tail unset, so no band is claimed yet.
LEMMA InitHeadInv == Inv /\ InitHead => Inv'
  BY LayoutAssumption
  DEF InitHead, Inv, TypeOK, SetUp, Waiting, NULL, Pointers, WriterPcs,
      ReaderPcs, Slots, readerVars

\* rb_init's second store makes the buffer empty, and exactly so.
LEMMA InitTailInv == Inv /\ InitTail => Inv'
<1> SUFFICES ASSUME Inv, InitTail PROVE Inv'
  OBVIOUS
<1> USE LayoutAssumption DEF InitTail, readerVars, NULL
<1>1. TypeOK'
  BY DEF Inv, TypeOK, Pointers, WriterPcs, ReaderPcs, Slots
<1>2. SetUp'
  BY DEF Inv, SetUp
<1>3. ASSUME inBand PROVE BandInv'
  <2>1. head = BASE /\ wr = 0 /\ rd = 0 /\ rpc \in {"idle", "poll"}
    BY <1>3 DEF Inv, SetUp, Waiting
  <2>2. Fill' = 0 /\ wpc' = "idle" /\ head' = BASE
    BY <2>1 DEF Fill, Wrapped
  <2> QED
    BY <2>1, <2>2
    DEF BandInv, RoomKept, BytesKept, Stored, Copied, Returned, Dist, Slots
<1> QED
  BY <1>1, <1>2, <1>3 DEF Inv

\* In band, rb_write's sample is no smaller than the fill level.
LEMMA WriteSample ==
  ASSUME Inv, WriteInBand, tail # NULL, head # NULL
  PROVE  Fill <= BytesUsed
<1>1. head \in Addresses /\ tail \in Addresses
  BY SetUpPointers
<1>2. Fill \in Int /\ BytesUsed \in Int /\ Excess \in Nat
  BY <1>1, UsedRange, LayoutAssumption
  DEF Addresses, Fill, Wrapped, Excess, Pointers
<1>3. CASE Wrapped
  BY <1>1, <1>2, <1>3, UsedWrapped DEF WriteInBand
<1>4. CASE ~Wrapped
  BY <1>1, <1>2, <1>4, UsedUnwrapped
<1> QED
  BY <1>3, <1>4

\* The sample rb_write takes is one at which to_copy bytes fit.
LEMMA WriteCallInv ==
  ASSUME Inv, NEW count \in WriteCounts, WriteCall(count)
  PROVE  Inv'
<1> USE DEF WriteCall, readerVars
<1>1. wpc = "idle" /\ tail # NULL /\ head # NULL
  BY DEF Inv, SetUp
<1>2. BytesUsed \in 0..SIZE - 1 /\ wn' \in 0..SIZE - 1 - BytesUsed
  BY UsedRange, ToCopyRoom, CallsAssumption DEF Inv, TypeOK
<1>3. TypeOK'
  BY <1>2, LayoutAssumption DEF Inv, TypeOK, WriterPcs
<1>4. SetUp'
  BY <1>1, <1>2 DEF Inv, SetUp
<1>5. ASSUME inBand' PROVE BandInv'
  <2>1. BandInv /\ WriteInBand
    BY <1>1, <1>5 DEF Inv
  <2>2. Fill \in Int
    BY <1>1, SetUpPointers, LayoutAssumption DEF Fill, Addresses, Wrapped
  <2>3. Fill + wn' < SIZE
    BY <1>1, <1>2, <2>1, <2>2, WriteSample, LayoutAssumption
  <2>4. RoomKept'
    BY <2>3 DEF RoomKept, Fill, Wrapped
  <2>5. Copied'
    BY DEF Copied
  <2> QED
    BY <2>1, <2>4, <2>5
    DEF BandInv, Fill, Wrapped, BytesKept, Stored, Returned, Dist
<1> QED
  BY <1>1, <1>3, <1>4, <1>5 DEF Inv

\* rb_write's memcpy touches only slots that hold no unread byte.
LEMMA WriteCopyInv == Inv /\ WriteCopy => Inv'
<1> SUFFICES ASSUME Inv, WriteCopy PROVE Inv'
  OBVIOUS
<1> USE DEF WriteCopy, readerVars
<1>1. tail \in Addresses /\ head \in Addresses /\ wn \in 1..SIZE - 1 /\ wr \in Nat
  BY SetUpPointers DEF Inv, SetUp, TypeOK
<1>2. \A o \in Slots : Dist(tail, o) \in 0..SIZE - 1
  BY <1>1, LayoutAssumption DEF Slots, Dist, Addresses
<1>3. TypeOK'
  BY <1>1, <1>2 DEF Inv, TypeOK, CopiedIn, WriterPcs
<1>4. SetUp'
  BY DEF Inv, SetUp
<1>5. ASSUME inBand PROVE BandInv'
  <2>1. BandInv /\ Fill' = Fill /\ tail # NULL
    BY <1>1, <1>5, LayoutAssumption DEF Inv, Fill, Wrapped, Addresses, NULL
  <2>2. Fill + wn < SIZE
    BY <2>1 DEF BandInv, RoomKept
  <2>3. Stored'
    <3> SUFFICES ASSUME NEW o \in Slots, Dist(head, o) < Fill
                 PROVE  mem'[o] = rd + 1 + Dist(head, o)
      BY <2>1 DEF Stored, Dist
    <3>1. ~(Dist(tail, o) < wn)
      BY <1>1, <2>2, LayoutAssumption DEF Slots, Dist, Addresses, Fill, Wrapped
    <3> QED
      BY <2>1, <3>1 DEF CopiedIn, BandInv, Stored
  <2>4. Copied'
    BY DEF Copied, CopiedIn, Dist
  <2> QED
    BY <2>1, <2>2, <2>3, <2>4
    DEF BandInv, RoomKept, BytesKept, Returned, Fill, Wrapped
<1> QED
  BY <1>1, <1>3, <1>4, <1>5, LayoutAssumption DEF Inv, Addresses, NULL

\* Moving tail appends the copied bytes to the stored ones.
LEMMA WritePublishInv == Inv /\ WritePublish => Inv'
<1> SUFFICES ASSUME Inv, WritePublish PROVE Inv'
  OBVIOUS
<1> USE DEF WritePublish, readerVars
<1>1. /\ tail \in Addresses /\ head \in Addresses /\ tail' \in Addresses
      /\ wn \in 1..SIZE - 1 /\ wr \in Nat /\ rd \in Nat
  BY SetUpPointers, AdvanceStays DEF Inv, SetUp, TypeOK
<1>2. tail # NULL /\ tail' # NULL
  BY <1>1, LayoutAssumption DEF Addresses, NULL
<1>3. TypeOK'
  BY <1>1, LayoutAssumption DEF Inv, TypeOK, WriterPcs, Pointers, Addresses
<1>4. SetUp'
  BY <1>2 DEF Inv, SetUp
<1>5. ASSUME inBand PROVE BandInv'
  <2>1. BandInv /\ Fill + wn < SIZE
    BY <1>2, <1>5 DEF Inv, BandInv, RoomKept
  <2>2. Fill' = Fill + wn
    BY <1>1, <2>1, LayoutAssumption DEF Fill, Wrapped, Advance, Addresses
  <2>3. Stored'
    <3> SUFFICES ASSUME NEW o \in Slots, Dist(head, o) < Fill + wn
                 PROVE  mem[o] = rd + 1 + Dist(head, o)
      BY <2>2 DEF Stored, Dist
    <3>1. CASE Dist(head, o) < Fill
      BY <2>1, <3>1 DEF BandInv, Stored
    <3>2. CASE ~(Dist(head, o) < Fill)
      <4>1. Dist(tail, o) = Dist(head, o) - Fill /\ Dist(tail, o) < wn
        BY <1>1, <2>1, <3>2, LayoutAssumption
        DEF Slots, Dist, Addresses, Fill, Wrapped
      <4>2. mem[o] = wr + 1 + Dist(tail, o)
        BY <2>1, <4>1 DEF BandInv, Copied
      <4>3. Dist(head, o) \in Int /\ Fill \in Int /\ Fill = wr - rd
        BY <1>1, <2>1, LayoutAssumption
        DEF Slots, Dist, Addresses, Fill, Wrapped, BandInv
      <4> QED
        BY <1>1, <4>1, <4>2, <4>3
    <3> QED
      BY <3>1, <3>2
  <2>4. BytesKept'
    BY <1>1, <2>1, <2>2, LayoutAssumption, SMTT(30)
    DEF BandInv, BytesKept, Inv, TypeOK, Fill, Wrapped, Addresses
  <2>5. Fill' = wr' - rd'
    BY <1>1, <2>1, <2>2 DEF BandInv
  <2> QED
    BY <2>1, <2>3, <2>4, <2>5 DEF BandInv, RoomKept, Copied, Returned
<1> QED
  BY <1>2, <1>3, <1>4, <1>5 DEF Inv

-----------------------------------------------------------------------------
(* The reader's steps preserve the invariant. *)

\* Entering rb_read changes nothing the writer relies on.
LEMMA ReadCallInv ==
  ASSUME Inv, NEW count \in ReadCounts, ReadCall(count)
  PROVE  Inv'
<1> USE DEF ReadCall, writerVars
<1>1. TypeOK'
  BY CallsAssumption DEF Inv, TypeOK, ReaderPcs
<1>2. SetUp'
  BY DEF Inv, SetUp
<1>3. ASSUME inBand, tail = NULL PROVE Waiting'
  BY <1>3 DEF Inv, Waiting
<1>4. ASSUME inBand, tail # NULL PROVE BandInv'
  BY <1>4
  DEF Inv, BandInv, RoomKept, BytesKept, Stored, Copied, Returned, Fill,
      Wrapped, Dist
<1> QED
  BY <1>1, <1>2, <1>3, <1>4 DEF Inv

\* In band, rb_read goes ahead only with more than count bytes there.
LEMMA ReadSample ==
  ASSUME Inv, ReadInBand, rn < BytesUsed, head # NULL
  PROVE  rn < Fill
<1>1. head \in Addresses /\ tail \in Addresses
  BY SetUpPointers DEF ReadInBand
<1>2. CASE Wrapped
  BY <1>2 DEF ReadInBand
<1>3. CASE ~Wrapped
  BY <1>1, <1>3, UsedUnwrapped
<1> QED
  BY <1>2, <1>3

\* The poll that ends rb_read's loop has seen more than count bytes.
LEMMA ReadPollInv == Inv /\ ReadPoll => Inv'
<1> SUFFICES ASSUME Inv, ReadPoll PROVE Inv'
  OBVIOUS
<1> USE DEF ReadPoll, writerVars
<1>1. TypeOK'
  BY DEF Inv, TypeOK, ReaderPcs
<1>2. SetUp'
  <2>1. head # NULL
    <3> SUFFICES ASSUME head = NULL PROVE FALSE
      OBVIOUS
    <3>1. tail - head = 0
      BY DEF Inv, SetUp, NULL
    <3>2. BytesUsed = 0
      BY <3>1, LayoutAssumption DEF BytesUsed
    <3> QED
      BY <3>2 DEF Inv, TypeOK
  <2> QED
    BY <2>1 DEF Inv, SetUp
<1>3. ASSUME inBand' PROVE tail' # NULL /\ BandInv'
  <2>1. ReadInBand /\ tail # NULL /\ head # NULL /\ BandInv
    BY <1>3 DEF ReadInBand, Inv, SetUp
  <2>2. rn < Fill
    BY <2>1, ReadSample
  <2> QED
    BY <2>1, <2>2
    DEF BandInv, RoomKept, BytesKept, Stored, Copied, Returned, Fill,
        Wrapped, Dist
<1> QED
  BY <1>1, <1>2, <1>3 DEF Inv

\* rb_read's memcpy returns the oldest count bytes.
LEMMA ReadCopyInv == Inv /\ ReadCopy => Inv'
<1> SUFFICES ASSUME Inv, ReadCopy PROVE Inv'
  OBVIOUS
<1> USE DEF ReadCopy, writerVars
<1>1. head # NULL => head \in Addresses
  BY SetUpPointers
<1>2. head # NULL => block' \in [1..rn -> Nat]
  <2> SUFFICES ASSUME head # NULL PROVE block' \in [1..rn -> Nat]
    OBVIOUS
  <2>1. \A i \in 1..rn : i - 1 \in 0..SIZE - 1
    BY LayoutAssumption DEF Inv, TypeOK
  <2>2. \A i \in 1..rn : SlotAt(head, i - 1) \in Slots
    BY <1>1, <2>1, DistSlotAt
  <2> QED
    BY <2>2 DEF CopiedOut, Inv, TypeOK
<1>3. ASSUME inBand PROVE tail # NULL /\ head # NULL /\ BandInv
  BY <1>3 DEF Inv, Waiting, SetUp
<1>4. head # NULL
  BY DEF Inv, SetUp
<1>5. TypeOK'
  BY <1>2, <1>4 DEF Inv, TypeOK, ReaderPcs
<1>6. SetUp'
  BY DEF Inv, SetUp
<1>7. ASSUME inBand PROVE BandInv'
  <2>1. BandInv /\ head \in Addresses
    BY <1>1, <1>3, <1>7
  <2>2. rn < Fill /\ Fill \in Int /\ rn \in 1..SIZE - 1 /\ rd \in Nat
    BY <2>1 DEF BandInv, BytesKept, Inv, TypeOK
  <2>3. \A i \in 1..rn : mem[SlotAt(head, i - 1)] = rd + i
    <3> SUFFICES ASSUME NEW i \in 1..rn PROVE mem[SlotAt(head, i - 1)] = rd + i
      OBVIOUS
    <3>1. i - 1 \in 0..SIZE - 1 /\ i - 1 < Fill
      BY <2>2, LayoutAssumption
    <3>2. SlotAt(head, i - 1) \in Slots /\ Dist(head, SlotAt(head, i - 1)) = i - 1
      BY <2>1, <3>1, DistSlotAt
    <3> QED
      BY <2>1, <2>2, <3>1, <3>2 DEF BandInv, Stored
  <2>4. Returned'
    BY <2>3 DEF Returned, CopiedOut
  <2> QED
    BY <2>1, <2>2, <2>4
    DEF BandInv, RoomKept, BytesKept, Stored, Copied, Fill, Wrapped, Dist
<1> QED
  BY <1>3, <1>5, <1>6, <1>7 DEF Inv

\* Moving head frees slots and leaves the younger bytes stored.
LEMMA ReadPublishInv == Inv /\ ReadPublish => Inv'
<1> SUFFICES ASSUME Inv, ReadPublish PROVE Inv'
  OBVIOUS
<1> USE DEF ReadPublish, writerVars
<1>1. /\ head \in Addresses /\ head' \in Addresses
      /\ rn \in 1..SIZE - 1 /\ wr \in Nat /\ rd \in Nat
  BY SetUpPointers, AdvanceStays DEF Inv, SetUp, TypeOK
<1>2. head # NULL /\ head' # NULL
  BY <1>1, LayoutAssumption DEF Addresses, NULL
<1>3. TypeOK'
  BY <1>1 DEF Inv, TypeOK, ReaderPcs, Pointers, Addresses
<1>4. SetUp'
  BY <1>2 DEF Inv, SetUp
<1>5. ASSUME inBand PROVE tail # NULL /\ BandInv'
  <2>1. tail # NULL /\ BandInv /\ rn < Fill
    BY <1>5 DEF Inv, Waiting, BandInv, BytesKept
  <2>2. tail \in Addresses
    BY <2>1, SetUpPointers
  <2>3. Fill' = Fill - rn
    BY <1>1, <2>1, <2>2, LayoutAssumption DEF Fill, Wrapped, Advance, Addresses
  <2>4. Stored'
    <3> SUFFICES ASSUME NEW o \in Slots, Dist(head', o) < Fill - rn
                 PROVE  mem[o] = rd + rn + 1 + Dist(head', o)
      BY <2>3 DEF Stored, Dist
    <3>1. Dist(head, o) = Dist(head', o) + rn /\ Dist(head', o) \in Int
      BY <1>1, <2>1, <2>2, LayoutAssumption
      DEF Slots, Dist, Addresses, Fill, Wrapped, Advance
    <3>2. Fill \in Int
      BY <1>1, <2>2, LayoutAssumption DEF Fill, Wrapped, Addresses
    <3>3. Dist(head, o) < Fill
      BY <1>1, <3>1, <3>2
    <3>4. mem[o] = rd + 1 + Dist(head, o)
      BY <2>1, <3>3 DEF BandInv, Stored
    <3> QED
      BY <1>1, <3>1, <3>4
  <2>5. Fill' = wr' - rd'
    BY <1>1, <2>1, <2>3 DEF BandInv
  <2>6. RoomKept'
    BY <1>1, <2>1, <2>2, <2>3, LayoutAssumption, SMTT(30)
    DEF BandInv, RoomKept, Inv, TypeOK, Fill, Wrapped, Addresses
  <2> QED
    BY <2>1, <2>4, <2>5, <2>6 DEF BandInv, BytesKept, Copied, Returned, Dist
<1> QED
  BY <1>3, <1>4, <1>5 DEF Inv

-----------------------------------------------------------------------------
(* The theorems. *)

\* Both ways a buffer starts (mux_thread's outbuf, calloc'ed inbuf) are fine.
LEMMA InitInv == InitReady \/ InitRacing => Inv
<1> USE LayoutAssumption
    DEF InitCommon, Inv, TypeOK, SetUp, Pointers, WriterPcs, ReaderPcs, NULL
<1>1. InitReady => Inv
  BY DEF InitReady, BandInv, RoomKept, BytesKept, Stored, Copied, Returned,
         Fill, Wrapped, Dist, Slots
<1>2. InitRacing => Inv
  BY DEF InitRacing, Waiting, Slots
<1> QED
  BY <1>1, <1>2

\* Every step of rb_init, rb_write and rb_read preserves the invariant.
LEMMA StepInv == Inv /\ [Next]_vars => Inv'
<1> SUFFICES ASSUME Inv, [Next]_vars PROVE Inv'
  OBVIOUS
<1>1. CASE Writer
  BY <1>1, InitHeadInv, InitTailInv, WriteCallInv, WriteCopyInv,
     WritePublishInv DEF Writer
<1>2. CASE Reader
  BY <1>2, ReadCallInv, ReadPollInv, ReadCopyInv, ReadPublishInv DEF Reader
<1>3. CASE UNCHANGED vars
  BY <1>3
  DEF vars, Inv, TypeOK, SetUp, Waiting, BandInv, RoomKept, BytesKept, Stored,
      Copied, Returned, Fill, Wrapped, Dist
<1> QED
  BY <1>1, <1>2, <1>3 DEF Next

\* Inv holds throughout: what the theorems below are drawn from.
LEMMA SafetyInv == Safety => []Inv
  BY InitInv, StepInv, PTL DEF Safety

\* Both pointers of the ring buffer stay inside rb->buf, whatever rb_write
\* and rb_read mistake the fill level for.
THEOREM TypeCorrect == Safety => []TypeOK
<1>1. Inv => TypeOK
  BY DEF Inv
<1> QED
  BY <1>1, SafetyInv, PTL

\* While every sample was in band, the pointers of rb_write and rb_read stand
\* for exactly the bytes accepted and not yet consumed.
THEOREM FillIsExact == Safety => []FillExact
<1>1. Inv => FillExact
  BY DEF Inv, FillExact, BandInv
<1> QED
  BY <1>1, SafetyInv, PTL

\* While every sample was in band, rb_write's and rb_read's memcpy never
\* touch the same slot at the same time.
THEOREM NoMutexNeeded == Safety => []NoRace
<1>1. Inv => NoRace
  <2> SUFFICES ASSUME Inv, inBand, wpc = "copy", rpc = "copy", NEW o \in Slots,
                      Dist(tail, o) < wn, Dist(head, o) < rn
               PROVE  FALSE
    BY DEF NoRace, WriteRegion, ReadRegion
  <2>1. head \in Addresses /\ tail \in Addresses /\ tail # NULL
    BY SetUpPointers DEF Inv, SetUp
  <2>2. Fill + wn < SIZE /\ rn < Fill
    BY <2>1 DEF Inv, BandInv, RoomKept, BytesKept
  <2>3. wn \in Nat /\ rn \in Nat
    BY DEF Inv, TypeOK
  <2> QED
    BY <2>1, <2>2, <2>3, LayoutAssumption DEF Fill, Wrapped, Dist, Slots, Addresses
<1> QED
  BY <1>1, SafetyInv, PTL

(* The step of the abstract queue a step of the code stands for. *)

\* Publishing rb_write's tail puts its to_copy bytes into the queue.
LEMMA PublishPuts ==
  ASSUME Inv, WritePublish, inBand
  PROVE  Fifo!Next
<1>1. /\ tail # NULL /\ wn \in 1..SIZE - 1
      /\ wr \in Nat /\ rd \in Nat /\ rn \in Nat
  BY DEF Inv, SetUp, TypeOK, WritePublish
<1>2. wr - rd + wn < SIZE
  BY <1>1 DEF Inv, BandInv, RoomKept, WritePublish
<1>3. Fifo!Put(wn)
  BY <1>1, <1>2, LayoutAssumption DEF Fifo!Put, WritePublish, readerVars
<1> QED
  BY <1>1, <1>3 DEF Fifo!Next

\* The copy of rb_read gets count bytes, the oldest ones, from the queue.
LEMMA CopyGets ==
  ASSUME Inv, Inv', ReadCopy, inBand
  PROVE  Fifo!Next
<1>1. /\ head # NULL /\ rn \in 1..SIZE - 1 /\ rn' = rn
      /\ wr \in Nat /\ rd \in Nat /\ wr' = wr /\ rd' = rd
      /\ rpc = "copy" /\ rpc' = "publish" /\ tail' = tail /\ inBand'
  BY DEF Inv, SetUp, TypeOK, ReadCopy, writerVars
<1>2. tail # NULL
  BY <1>1 DEF Inv, Waiting
<1>3. rn < wr - rd
  BY <1>1, <1>2 DEF Inv, BandInv, BytesKept
<1>4. block' = [i \in 1..rn |-> rd + i]
  BY <1>1, <1>2 DEF Inv, BandInv, Returned
<1>5. Fifo!Get(rn)
  BY <1>1, <1>3, <1>4 DEF Fifo!Get
<1> QED
  BY <1>1, <1>5 DEF Fifo!Next

\* Every step of either thread is a step of the byte queue or none of it.
LEMMA StepFifo ==
  ASSUME Inv, Inv', [Next]_vars, inBand'
  PROVE  Fifo!Next \/ UNCHANGED Fifo!vars
<1> USE DEF readerVars, writerVars, Fifo!vars
<1>1. CASE WritePublish
  BY <1>1, PublishPuts DEF WritePublish
<1>2. CASE ReadCopy
  BY <1>2, CopyGets DEF ReadCopy
<1>3. CASE ReadPublish
  BY <1>3 DEF ReadPublish
<1>4. CASE InitHead \/ InitTail \/ WriteCopy
  BY <1>4 DEF InitHead, InitTail, WriteCopy
<1>5. CASE \E count \in WriteCounts : WriteCall(count)
  BY <1>5 DEF WriteCall
<1>6. CASE (\E count \in ReadCounts : ReadCall(count)) \/ ReadPoll
  BY <1>6 DEF ReadCall, ReadPoll
<1>7. CASE UNCHANGED vars
  BY <1>7 DEF vars
<1> QED
  BY <1>1, <1>2, <1>3, <1>4, <1>5, <1>6, <1>7 DEF Next, Writer, Reader

\* While every sample was in band, the two threads' calls of rb_write and
\* rb_read implement a bounded first-in first-out byte queue.
THEOREM FifoWhileInBand == Safety => FifoInBand
<1>1. Inv /\ Inv' /\ [Next]_vars =>
        [inBand' => Fifo!Next \/ UNCHANGED Fifo!vars]_vars
  BY StepFifo
<1> QED
  BY <1>1, SafetyInv, PTL DEF Safety, FifoInBand

-----------------------------------------------------------------------------
(* The level that keeps every sample in band. *)

(* The read thread polls for a count it was called with, and outbuf's reader *)
(* never meets an unset pointer.                                             *)
Level ==
  /\ inBand
  /\ tail # NULL
  /\ rpc = "poll" => rn \in ReadCounts

\* A thread that samples while the level is kept takes a sample in band.
LEMMA StepLevel ==
  ASSUME Inv, Level, LevelKept, [Next]_vars
  PROVE  Level'
<1>1. head \in Addresses /\ tail \in Addresses
  BY SetUpPointers DEF Inv, SetUp, Level
<1>2. Fill = wr - rd
  BY DEF Inv, BandInv, Level
<1>3. CASE WritePublish
  <2>1. tail' \in Addresses
    BY <1>1, <1>3, AdvanceStays DEF Inv, TypeOK, WritePublish
  <2> QED
    BY <1>3, <2>1, LayoutAssumption
    DEF WritePublish, Addresses, NULL, Level, readerVars
<1>4. CASE \E count \in WriteCounts : WriteCall(count)
  <2>1. WriteInBand
    BY <1>2 DEF WriteInBand, LevelKept
  <2> QED
    BY <1>4, <2>1 DEF WriteCall, Level, readerVars
<1>5. CASE ReadPoll
  <2>1. ReadInBand
    BY <1>2, <1>5 DEF ReadInBand, LevelKept, Level, ReadPoll
  <2> QED
    BY <1>5, <2>1 DEF ReadPoll, Level, writerVars
<1>6. CASE InitHead \/ InitTail
  BY <1>6 DEF Inv, SetUp, InitHead, InitTail, Level
<1>7. CASE WriteCopy
  BY <1>7 DEF WriteCopy, Level, readerVars
<1>8. CASE (\E count \in ReadCounts : ReadCall(count)) \/ ReadCopy \/ ReadPublish
  BY <1>8 DEF ReadCall, ReadCopy, ReadPublish, writerVars, Level
<1>9. CASE UNCHANGED vars
  BY <1>9 DEF vars, Level
<1> QED
  BY <1>3, <1>4, <1>5, <1>6, <1>7, <1>8, <1>9 DEF Next, Writer, Reader

\* As long as outbuf, whenever its tail has wrapped, holds more than a block and
\* leaves more than Excess bytes free, rb_get_bytes_used misleads neither the
\* mux thread nor the output thread.
THEOREM InBandAtLevel ==
  OutbufSpec /\ []LevelKept => []NeverMisled
<1>1. InitReady => Level
  BY LayoutAssumption DEF InitReady, InitCommon, NULL, Level
<1>2. Inv /\ Level /\ LevelKept /\ [Next]_vars => Level'
  BY StepLevel
<1>3. Level => NeverMisled
  BY DEF Level, NeverMisled
<1> QED
  BY <1>1, <1>2, <1>3, SafetyInv, PTL DEF OutbufSpec, Safety

\* As long as that level is kept, the ring buffer of outbuf implements the
\* bounded byte queue outright: no byte is lost, repeated or overwritten.
THEOREM FifoAtLevel ==
  OutbufSpec /\ []LevelKept => FifoSpec
<1>1. InitReady => Fifo!Init
  BY DEF InitReady, InitCommon, Fifo!Init
<1>2. NeverMisled' /\ [inBand' => Fifo!Next \/ UNCHANGED Fifo!vars]_vars =>
        [Fifo!Next]_(Fifo!vars)
  BY DEF Fifo!vars, vars, NeverMisled
<1> QED
  BY <1>1, <1>2, InBandAtLevel, FifoWhileInBand, PTL
  DEF OutbufSpec, Safety, FifoSpec, FifoInBand, Fifo!Spec
=============================================================================
