------------------------------- MODULE Events -------------------------------
(***************************************************************************)
(* The rewriting of EIT sections (psi_create.c).  Text that does not fit   *)
(* into an extended event descriptor, now that it starts with its code     *)
(* page, overflows into the next one.                                      *)
(***************************************************************************)
EXTENDS Tables

\* sizeof(chunk_t.buf)
ChunkSize == 128

\* The most bytes an extended event descriptor may have ("C+ uses a max
\* descriptor length of 253 - why not 255?").
MaxLength == 253

\* Space for text after the code page and the overflow.
SpaceLeft(d, overflow) == MaxLength - d.fixed - 1 - Len(Codepage) - Len(overflow)

ToCopy(d, overflow) ==
  IF SpaceLeft(d, overflow) < Len(d.texts[1]) THEN SpaceLeft(d, overflow)
                                              ELSE Len(d.texts[1])

\* (mutants: the overflow stays for the next text too; it goes behind the text;
\* it is measured without the prefix)
ExtendedKept(acc, d) ==
  LET text == d.texts[1]
      n    == ToCopy(d, acc.overflow)
  IN [out      |-> Append(acc.out, Closed([d EXCEPT !.texts =
                     <<Codepage \o acc.overflow \o SubSeq(text, 1, n)>>])),
      overflow |-> IF n < Len(text) THEN SubSeq(text, n + 1, Len(text)) ELSE acc.overflow,
      copies   |-> acc.copies \cup {n}]

ExtendedUnmeasured(acc, d) ==
  LET text == d.texts[1]
      n    == ToCopy(d, << >>)
  IN [out      |-> Append(acc.out, Closed([d EXCEPT !.texts =
                     <<Codepage \o acc.overflow \o SubSeq(text, 1, n)>>])),
      overflow |-> SubSeq(text, n + 1, Len(text)),
      copies   |-> acc.copies \cup {n}]

\* recode_text with overflow: the code page, what the descriptor before left,
\* as much as there is space for.
Extended(acc, d) ==
  LET text == d.texts[1]
      n    == ToCopy(d, acc.overflow)
  IN [out      |-> Append(acc.out, Closed([d EXCEPT !.texts =
                     <<Codepage \o acc.overflow \o SubSeq(text, 1, n)>>])),
      overflow |-> SubSeq(text, n + 1, Len(text)),
      copies   |-> acc.copies \cup {n}]

\* One round of copy_eit_descriptors's loop; copies is a history of to_copy.
CopyEitDescriptor(acc, d, onid) ==
  CASE Latin(onid) /\ d.tag = 77 ->
         [acc EXCEPT !.out = Append(@, Recoded(d))]
    [] Latin(onid) /\ d.tag = 78 /\ d.texts[1] # << >> ->
         Extended(acc, d)
    [] OTHER ->
         [acc EXCEPT !.out = Append(@, d)]

\* copy_eit_descriptors.
CopyEitDescriptors(ds, onid) ==
  LET acc[i \in 0..Len(ds)] ==
        IF i = 0 THEN [out |-> << >>, overflow |-> << >>, copies |-> {}]
                 ELSE CopyEitDescriptor(acc[i - 1], ds[i], onid)
  IN acc[Len(ds)]

\* rewrite_eit; only the section's first event is taken over.
RewriteEit(eit, sv, onid) ==
  LET copied == CopyEitDescriptors(eit.descs, sv.onid) IN
  [service_id |-> sv.new_service_id, onid |-> onid, free_CA_mode |-> 0,
   descs      |-> copied.out, overflow |-> copied.overflow, copies |-> copied.copies,
   length     |-> 14 + 12 + LoopLength(copied.out) + 4]

-----------------------------------------------------------------------------
(* What the sections say; properties are about it.                         *)

\* The text of an event's extended descriptors.
ExtendedText(ds) ==
  FlattenSeq([i \in DOMAIN ds |->
    IF ds[i].tag = 78 THEN Plain(ds[i].texts[1]) ELSE << >>])

\* What an EIT section's descriptors must be for their texts to fit once they
\* have their code page: complete, no text with one yet, and in an extended event
\* descriptor room for it besides the items, for what may overflow from those
\* before, and for a byte of text.
TextsFit(ds) ==
  LET extended == Tagged(ds, 78) IN
  /\ \A i \in DOMAIN ds : ds[i].len = Size(ds[i])
  /\ \A i \in Tagged(ds, 77) : Len(ds[i].texts) = 2
  /\ 5 * Cardinality(extended) <= ChunkSize
  /\ \A i \in extended :
       /\ Len(ds[i].texts) = 1 /\ Plain(ds[i].texts[1]) = ds[i].texts[1]
       /\ ds[i].fixed + 1 + Len(Codepage) + 5 * (Cardinality(extended) - 1) < MaxLength
=============================================================================
