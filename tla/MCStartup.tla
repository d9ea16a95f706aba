----------------------------- MODULE MCStartup -----------------------------
(***************************************************************************)
(* Instances of Startup for TLC: configuration files of one service or     *)
(* two, and the streams, SDT sections and events those meet.               *)
(***************************************************************************)
EXTENDS Startup

-----------------------------------------------------------------------------
(* Configuration files.                                                    *)

E(k, v) == [key |-> k, value |-> v]
Obj(entries) == [type |-> "object", entries |-> entries]
Field(k, v, ok) == [key |-> k, value |-> v, typed |-> ok]
Service(n) ==
  [type |-> "object",
   entries |-> <<Field("comment", 0, TRUE), Field("url", n, TRUE), Field("lcn", 90 + n, TRUE),
                 Field("service_id", 60000 + n, TRUE)>>]
Odd == [type |-> "object",
        entries |-> <<Field("service_id", 7, TRUE), Field("url", 9, FALSE),
                      Field("lcn", 5, TRUE), Field("lcn", 6, TRUE)>>]
Mux(entries, ss) == Obj(entries) @@ [services |-> <<ss>>]
File(common, muxes) ==
  [readable |-> TRUE, parses |-> TRUE, type |-> "object", common |-> common,
   muxes |-> <<[type |-> "array", values |-> muxes]>>]

Example == <<E("bandwidth_hz", 8000), E("transmission_mode", "8K"),
             E("constellation", "QAM_64"), E("guard_interval", "1/32"),
             E("code_rate_HP", "7/8"), E("gain", 0 - 6), E("onid", 9018), E("nid", 12339)>>
First == <<E("device", 1), E("frequency_khz", 802000), E("tsid", 57005)>>
Slowest == <<E("bandwidth_hz", 8000), E("bandwidth_hz", 6000), E("constellation", "QPSK"),
             E("guard_interval", "1/4"), E("code_rate_HP", "1/2"), E("unknown", 3)>>
Two == <<Service(0), Service(1)>>
Good == File(<<Obj(Example)>>, <<Mux(First, Two)>>)

Accepted == <<
  Good,
  File(<< >>, <<Mux(Slowest, Two)>>),
  File(<<Obj(Example)>>, <<Mux(First \o <<E("constellation", "QAM_16"),
       E("guard_interval", "1/8"), E("code_rate_HP", "3/4"), E("gain", 0)>>, <<Odd>>)>>),
  File(<<Obj(Slowest)>>, <<Mux(<<E("bandwidth_hz", 8000000), E("guard_interval", "1/16"),
       E("code_rate_HP", "5/6")>>, <<Service(0)>>)>>)>>

MCFiles == Accepted \o <<
  File(<<Obj(Example)>>, <<Mux(First \o <<E("gain", 3)>>, Two), Mux(First, <<Odd>>)>>),
  File(<<Obj(Example)>>, <<Mux(<<E("code_rate_HP", "4/5")>>, Two)>>),
  File(<<Obj(Example)>>, <<Mux(<<E("constellation", "QAM_256")>>, Two)>>),
  File(<<[type |-> "other"]>>, <<Mux(First, Two)>>),
  File(<< >>, <<[type |-> "other"]>>),
  File(<< >>, <<Obj(First) @@ [services |-> << >>]>>),
  File(<< >>, <<Mux(First, <<[type |-> "other"]>>)>>),
  File(<< >>, << >>),
  [Good EXCEPT !.muxes = <<[type |-> "other"]>>],
  [Good EXCEPT !.muxes = << >>],
  [Good EXCEPT !.type = "other"], [Good EXCEPT !.parses = FALSE],
  [Good EXCEPT !.readable = FALSE]>>

-----------------------------------------------------------------------------
(* Tables.                                                                 *)

Text(n, from) == [i \in 1..n |-> ((from + i) % 90) + 32]
D(tag, fixed, texts) ==
  LET d == [tag |-> tag, len |-> 0, fixed |-> fixed, texts |-> texts]
  IN [d EXCEPT !.len = Size(d)]

Ca == D(9, 4, << >>)
Lang == D(10, 4, << >>)
ES(type, pid, descs) == [type |-> type, pid |-> pid, descs |-> descs]
Pmt(pcr, info, streams) == [pcr_pid |-> pcr, info |-> info, streams |-> streams]

Pat(programs) == [pointer |-> 0, last_section_number |-> 0,
                  programs |-> [i \in DOMAIN programs |->
                    [service_id |-> programs[i][1], pmt_pid |-> programs[i][2]]]]

Named(id, name) ==
  [service_id |-> id, service_type |-> (id % 3) + 1, fits |-> TRUE,
   descs |-> <<D(93, 5, << >>), D(72, 1, <<Text(6, id), name>>)>>]
Unnamed(id) == [Named(id, << >>) EXCEPT !.service_type = 0, !.descs = <<D(93, 5, << >>)>>]
Cut(id) == [Named(id, << >>) EXCEPT !.fits = FALSE, !.descs = << >>]
Sdt(onid, entries) == [onid |-> onid, entries |-> entries]

\* The longest name is the last that process_sdt has room for; that of a section
\* which only create_sdt reads is the last that can be recoded.
Own == Sdt(1, <<Named(7, Text(20, 7)), Named(500, << >>), Unnamed(7)>>)
Foreign == Sdt(2, <<Named(500, Text(9, 1)), Named(8, Text(127, 8))>>)
Others == Sdt(1, <<Named(500, Text(3, 3)), Unnamed(8)>>)
Longest == Sdt(1, <<Named(8, Text(242, 2)), Named(7, Text(3, 3)), Named(8, << >>)>>)
TooLong == Sdt(1, <<Named(7, Text(20, 7)), Named(500, Text(128, 1)), Cut(8)>>)
TooShort == Sdt(1, <<Named(7, Text(20, 7)), Cut(8), Named(500, Text(128, 1))>>)

Usual == Pmt(100, << >>,
  <<ES(27, 100, <<Ca>>), ES(3, 101, <<Lang, Ca>>), ES(5, 110, << >>), ES(6, 102, << >>)>>)
OwnPcr == Pmt(8190, <<Ca, Lang>>, <<ES(2, 33, << >>), ES(4, 34, <<Lang>>), ES(4, 34, << >>)>>)
DataPcr == Pmt(110, <<Lang>>, <<ES(36, 100, << >>), ES(11, 110, <<Lang>>)>>)
Many(n, pcr) == Pmt(pcr, << >>, [i \in 1..n |-> ES(3, 200 + i, <<Lang>>)])

Stream(id, pmt, section) == [pat |-> Pat(<< <<id, 1000 + id>> >>), pmt_pid |-> 1000 + id,
                             pmt |-> pmt, earlier |-> << >>, sdt |-> section]

FirstStreams == <<
  Stream(7, Usual, Own), Stream(8, OwnPcr, Foreign), Stream(7, DataPcr, Own),
  Stream(7, Many(99, 250), Own),
  [Stream(7, Usual, Own) EXCEPT !.pat = Pat(<<<<6, 1006>>, <<7, 1007>>>>)],
  [Stream(7, Usual, Own) EXCEPT !.pat = Pat(<<<<7, 1007>>, <<0, 16>>>>)],
  [Stream(7, Usual, Own) EXCEPT !.pat.pointer = 1],
  [Stream(7, Usual, Own) EXCEPT !.pat.last_section_number = 1],
  [Stream(7, Usual, Own) EXCEPT !.pat = Pat([i \in 1..43 |-> <<7, 1007>>])],
  Stream(9, Usual, Own), Stream(7, Usual, TooLong), Stream(7, Usual, TooShort),
  [Stream(7, OwnPcr, Others) EXCEPT !.earlier = <<Others, Own>>],
  [Stream(7, Usual, Own) EXCEPT !.earlier = <<Others, TooShort, TooLong>>]>>
SecondStreams == <<Stream(8, Usual, Foreign), Stream(7, OwnPcr, Own), Stream(8, Many(98, 90), Foreign)>>
MCStreams == <<FirstStreams, SecondStreams>>
MCLaterPmt == << <<DataPcr>>, << >> >>
MCLaterSdt == << <<Foreign>>, <<Longest>> >>

-----------------------------------------------------------------------------
(* Events: long texts over several descriptors, items, empty texts.        *)

Short(name, text) == D(77, 3, <<Text(name, 1), Text(text, 5)>>)
Ext(items, text, from) == D(78, 5 + items, <<Text(text, from)>>)
Event(id, descs) == [service_id |-> id, descs |-> descs]
MCEitSections == <<
  Event(7, <<Short(20, 200), Ext(0, 249, 0), Ext(0, 249, 249), Ext(0, 30, 498)>>),
  Event(7, <<Ext(60, 189, 0), D(84, 2, << >>), Ext(0, 0, 0), Ext(0, 245, 11), Ext(0, 240, 7)>>),
  Event(8, <<Short(0, 240), Ext(0, 249, 0), Ext(9, 240, 249), Ext(0, 249, 489)>>),
  Event(7, [i \in 1..16 |-> Ext(0, 249, i)]),
  Event(7, <<Short(20, 230)>>),
  Event(9, <<Short(1, 1)>>)>>

\* The PIDs suffice for all of these streams, for the longest PMT just so.
ASSUME PidsSuffice

\* Names and texts fit, the longest of them just so, and the ids differ.
ASSUME NamesFit /\ IdsDiffer /\ EventsFit
=============================================================================
