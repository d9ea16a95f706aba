------------------------------- MODULE Tables -------------------------------
(***************************************************************************)
(* The tables of the services, as psi_read.c reads them, and those of the  *)
(* output, as psi_create.c makes them.                                     *)
(*                                                                         *)
(* A section is a record of its fields.  A descriptor is                   *)
(*   tag, len   its first two bytes: len is what the code wrote there      *)
(*   fixed      how many bytes come before its texts                       *)
(*   texts      its texts, each a sequence of bytes; its own length byte   *)
(*              precedes each                                              *)
(***************************************************************************)
EXTENDS Integers, Sequences, SequencesExt

\* A list of a file or a table is a sequence.
IsList(x) == x \in Seq({x[i] : i \in DOMAIN x})

Byte == 0..255
Descriptor == [tag : Byte, len : Byte, fixed : Nat, texts : Seq(Seq(Byte))]

\* The sections of an input stream.
PatSection ==
  [pointer : Nat, last_section_number : Nat,
   programs : Seq([service_id : Nat, pmt_pid : Nat])]
PmtSection ==
  [pcr_pid : Nat, info : Seq(Descriptor),
   streams : Seq([type : Byte, pid : Nat, descs : Seq(Descriptor)])]
\* fits: the entry's loop of descriptors ends within the section.
SdtSection ==
  [onid : Nat,
   entries : Seq([service_id : Nat, service_type : Nat, fits : BOOLEAN,
                  descs : Seq(Descriptor)])]
EitSection == [service_id : Nat, descs : Seq(Descriptor)]

\* The sum of a sequence of numbers; tables are too long for the folds.
Total(ns) ==
  LET sum[i \in 0..Len(ns)] == IF i = 0 THEN 0 ELSE sum[i - 1] + ns[i] IN sum[Len(ns)]

\* The number of bytes after len.
Size(d) == d.fixed + Total([i \in DOMAIN d.texts |-> 1 + Len(d.texts[i])])

\* The number of bytes of a loop of descriptors.
LoopLength(ds) == Total([i \in DOMAIN ds |-> 2 + Size(ds[i])])

\* d with its length byte back-filled.
Closed(d) == [d EXCEPT !.len = Size(d) % 256]

\* The elements of s at the places in keep, in order.
Chosen(s, keep) ==
  FlattenSeq([i \in DOMAIN s |-> IF i \in keep THEN <<s[i]>> ELSE << >>])

\* The places of the descriptors with a tag.
Tagged(ds, tag) == {i \in DOMAIN ds : ds[i].tag = tag}

\* Networks whose text is taken to be iso-8859-1 without saying so.
Latin(onid) == onid \in {1, 133}

Codepage == <<16, 0, 1>>

\* (mutant: the length byte stays what it was)
RecodeSameLength(text) == SubSeq(Codepage \o text, 1, Len(text))

\* recode_text without overflow.
Recode(text) == IF text = << >> THEN text ELSE Codepage \o text

Recoded(d) ==
  Closed([d EXCEPT !.texts = [i \in DOMAIN d.texts |-> Recode(d.texts[i])]])

-----------------------------------------------------------------------------
(* psi_read.c.                                                             *)

\* process_pat accepts one section in one packet.
PatValid(pat) ==
  /\ pat.pointer = 0
  /\ Len(pat.programs) * 4 + 9 <= 180
  /\ pat.last_section_number = 0

\* The last program counts.
ProcessPat(pat) == pat.programs[Len(pat.programs)]

\* sizeof(tmp): every service name of the section, whosever it is, is copied there
\* and gets a 0 at its end, however long it is.
TmpSize == 128

\* process_sdt leaves its array at an entry it comes to; what happens then is
\* undefined.  It exits at an entry that does not fit.
Smashes(sdt) ==
  \E i \in DOMAIN sdt.entries :
    /\ \A j \in 1..i : sdt.entries[j].fits
    /\ \E k \in Tagged(sdt.entries[i].descs, 72) :
         LET texts == sdt.entries[i].descs[k].texts IN
         Len(texts) = 2 /\ Len(texts[2]) >= TmpSize

\* What becomes of the program in process_sdt, for one section after the other.
ProcessSdt(sections) ==
  LET Ends(i) == Smashes(sections[i]) \/ \E j \in DOMAIN sections[i].entries :
                                           ~sections[i].entries[j].fits
  IN IF \A i \in DOMAIN sections : ~Ends(i) THEN "returns"
     ELSE IF \E i \in DOMAIN sections : Smashes(sections[i]) /\ \A j \in 1..i - 1 : ~Ends(j)
       THEN "smashed" ELSE "exit"

\* The entries of SDT sections from which process_sdt takes a service's name and
\* type: the last one counts.
Described(sections, id) ==
  LET Own(sdt) == Chosen(sdt.entries,
                         {i \in DOMAIN sdt.entries : /\ sdt.entries[i].service_id = id
                                                     /\ Tagged(sdt.entries[i].descs, 72) # {}})
  IN FlattenSeq([i \in DOMAIN sections |-> Own(sections[i])])

\* The stream types that are passed on.
StreamTypes == {1, 2, 128, 3, 4, 6, 129, 15, 17, 27, 36}

\* The places of the streams in a PMT that are.
PassedOn(pmt) == {i \in DOMAIN pmt.streams : pmt.streams[i].type \in StreamTypes}

\* (mutant: numbering starts with the PMT's own PID)
FirstPidSame(new_pmt_pid) == new_pmt_pid

FirstPid(new_pmt_pid) == new_pmt_pid + 1

\* process_pmt's pid_map, for the PIDs it gives a new one: it counts them on; a
\* PID that comes again gets another, the PCR's PID one only if it has none.
PidMap(pmt, new_pmt_pid) ==
  LET At(pid)   == {i \in PassedOn(pmt) : pmt.streams[i].pid = pid}
      Before(i) == {j \in PassedOn(pmt) : j < i}
  IN [pid \in {pmt.streams[i].pid : i \in PassedOn(pmt)} \cup {pmt.pcr_pid} |->
        FirstPid(new_pmt_pid) +
          Cardinality(IF At(pid) = {} THEN PassedOn(pmt) ELSE Before(Max(At(pid))))]

\* The PIDs process_pmt gives out for a PMT.
PidsNeeded(pmt) ==
  Cardinality(PassedOn(pmt)) +
    IF \E i \in PassedOn(pmt) : pmt.streams[i].pid = pmt.pcr_pid THEN 0 ELSE 1

\* pid_map[pid], 0 where process_pmt leaves it so.
Mapped(map, pid) == IF pid \in DOMAIN map THEN map[pid] ELSE 0

-----------------------------------------------------------------------------
(* psi_create.c.                                                           *)

\* The packets copy_section and write_section make of length bytes: the first
\* one has a pointer_field.
PacketsOf(length) == IF length <= 183 THEN 1 ELSE 1 + length \div 184

\* copy_pmt_descriptors: neither CA descriptors nor those of C+ Spain.
CopyPmtDescriptors(ds) == Chosen(ds, {i \in DOMAIN ds : ds[i].tag \notin {9, 192}})

\* copy_sdt_descriptors: service descriptors only.
CopySdtDescriptors(ds, onid) ==
  LET kept == Chosen(ds, Tagged(ds, 72))
  IN IF Latin(onid) THEN [i \in DOMAIN kept |-> Recoded(kept[i])] ELSE kept

\* (mutants: all streams stay; the PIDs stay)
PmtStreamsAll(pmt, map) ==
  [i \in DOMAIN pmt.streams |->
     [type  |-> pmt.streams[i].type, pid |-> Mapped(map, pmt.streams[i].pid),
      descs |-> CopyPmtDescriptors(pmt.streams[i].descs)]]

\* The streams in the new PMT: those whose PID has a new one.
PmtStreams(pmt, map) ==
  LET kept == Chosen(pmt.streams,
                     {i \in DOMAIN pmt.streams : Mapped(map, pmt.streams[i].pid) # 0})
  IN [i \in DOMAIN kept |->
        [type  |-> kept[i].type, pid |-> map[kept[i].pid],
         descs |-> CopyPmtDescriptors(kept[i].descs)]]

\* create_pmt.
CreatePmt(sv) ==
  LET streams == PmtStreams(sv.pmt, sv.pid_map) IN
  [service_id |-> sv.new_service_id,
   pcr_pid    |-> Mapped(sv.pid_map, sv.pmt.pcr_pid),
   info       |-> sv.pmt.info,
   streams    |-> streams,
   length     |-> 12 + LoopLength(sv.pmt.info)
                  + Total([i \in DOMAIN streams |-> 5 + LoopLength(streams[i].descs)]) + 4]

\* create_pat.
CreatePat(services) ==
  [programs |-> [s \in DOMAIN services |->
     [service_id |-> services[s].new_service_id, pmt_pid |-> services[s].new_pmt_pid]],
   length |-> 8 + 4 * Len(services) + 4]

\* A service's entries in the new SDT.
SdtEntries(sv) ==
  LET own == Chosen(sv.sdt.entries,
                    {i \in DOMAIN sv.sdt.entries : sv.sdt.entries[i].service_id = sv.service_id})
  IN [i \in DOMAIN own |->
        [service_id |-> sv.new_service_id, free_CA_mode |-> 0,
         descs |-> CopySdtDescriptors(own[i].descs, sv.onid)]]

\* create_sdt.
CreateSdt(services) ==
  LET entries == FlattenSeq([s \in DOMAIN services |-> SdtEntries(services[s])])
  IN [entries |-> entries,
      length  |-> 11 + Total([i \in DOMAIN entries |-> 5 + LoopLength(entries[i].descs)]) + 4]

\* create_nit's only transport stream: id, service list, delivery system (802
\* MHz, whatever is configured), private data, logical channel numbers.
TransportDescriptors(services) ==
  LET n == Len(services) IN
  << [tag |-> 65, len |-> (3 * n) % 256, fixed |-> 3 * n, texts |-> << >>],
     [tag |-> 90, len |-> 11, fixed |-> 11, texts |-> << >>],
     [tag |-> 95, len |-> 4, fixed |-> 4, texts |-> << >>],
     [tag |-> 131, len |-> (4 * n) % 256, fixed |-> 4 * n, texts |-> << >>] >>

\* create_nit.
CreateNit(services) ==
  LET descs == TransportDescriptors(services) IN
  [service_list |-> [s \in DOMAIN services |->
     <<services[s].new_service_id, services[s].service_type>>],
   channels     |-> [s \in DOMAIN services |->
     <<services[s].new_service_id, services[s].lcn>>],
   descs        |-> descs,
   transport_stream_loop_length |-> LoopLength(descs) - 4,
   length       |-> 12 + 6 + LoopLength(descs) + 4]

-----------------------------------------------------------------------------
(* What the tables say, whatever their bytes; properties are about it.     *)

\* Text without its code page.
Plain(text) ==
  IF Len(text) > 3 /\ SubSeq(text, 1, 3) = Codepage THEN SubSeq(text, 4, Len(text)) ELSE text

\* What an SDT entry's descriptors must be for the new SDT to hold its names
\* whole: complete, without a code page but with room for one if it is added.
NameFits(ds, onid) ==
  \A k \in Tagged(ds, 72) :
    /\ ds[k].len = Size(ds[k])
    /\ Latin(onid) =>
         /\ Len(ds[k].texts) = 2 /\ Size(ds[k]) + 6 <= 255
         /\ \A n \in 1..2 : Plain(ds[k].texts[n]) = ds[k].texts[n]

\* Provider and service names of a service's entries, in order.
Names(entries, id) ==
  FlattenSeq([i \in DOMAIN entries |->
    IF entries[i].service_id # id THEN << >>
    ELSE LET own == Chosen(entries[i].descs, Tagged(entries[i].descs, 72))
         IN [j \in DOMAIN own |-> [k \in DOMAIN own[j].texts |-> Plain(own[j].texts[k])]]])
=============================================================================
