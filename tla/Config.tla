------------------------------- MODULE Config -------------------------------
(***************************************************************************)
(* parse_config.c, and what mux_thread computes from a mux's parameters    *)
(* before anything else (dvb2dvb.c).                                       *)
(*                                                                         *)
(* A JSON object is the sequence of its [key, value] entries.  Something   *)
(* that may be missing is a sequence of at most one element; json_type is  *)
(* "other" where the code finds another type than it expects.  A field     *)
(* nobody sets is as calloc leaves it.                                     *)
(***************************************************************************)
EXTENDS Integers, Sequences, SequencesExt

\* The strings the enumerated parameters may have.
Enumerated == [
  transmission_mode |-> {"2K", "4K", "8K"},
  constellation     |-> {"QPSK", "QAM_16", "QAM_64"},
  guard_interval    |-> {"1/4", "1/8", "1/16", "1/32"},
  code_rate_HP      |-> {"1/2", "2/3", "3/4", "4/5", "5/6", "6/7", "7/8", "8/9"}]

\* struct mux_t as calloc leaves it: 0 is the first constant of each type.
NoParams == [
  device |-> 0, gain |-> 0, tsid |-> 0, onid |-> 0, nid |-> 0,
  frequency_khz |-> 0, bandwidth_hz |-> 0,
  transmission_mode |-> "2K", constellation |-> "QPSK",
  guard_interval |-> "1/32", code_rate_HP |-> "none"]

\* bandwidth_hz has 16 bits.
Stored(e) == IF e.key = "bandwidth_hz" THEN e.value % 65536 ELSE e.value

-----------------------------------------------------------------------------
(* parse_config.c.                                                         *)

\* parse_mux_params fails on another type and on an unknown string.
ParamsValid(json) ==
  /\ json.type = "object"
  /\ \A i \in DOMAIN json.entries :
       LET e == json.entries[i]
       IN e.key \in DOMAIN Enumerated => e.value \in Enumerated[e.key]

\* parse_mux_params: the entries in their order, unknown keys skipped.
ParseMuxParams(mux, json) ==
  FoldLeft(LAMBDA m, e : IF e.key \in DOMAIN m THEN [m EXCEPT ![e.key] = Stored(e)] ELSE m,
           mux, json.entries)

\* A service's url, service_id and lcn, if they are of the right type.
ParseService(json) ==
  FoldLeft(LAMBDA s, e : IF e.key \in DOMAIN s /\ e.typed THEN [s EXCEPT ![e.key] = e.value] ELSE s,
           [url |-> 0, service_id |-> 0, lcn |-> 0], json.entries)

\* parse_config ends with a number of muxes, not with an error.
ConfigValid(file) ==
  /\ file.readable /\ file.parses /\ file.type = "object"
  /\ file.muxes # << >> /\ file.muxes[1].type = "array"
  /\ file.muxes[1].values # << >>
  /\ file.common # << >> => ParamsValid(file.common[1])
  /\ \A j \in DOMAIN file.muxes[1].values :
       LET m == file.muxes[1].values[j] IN
       /\ ParamsValid(m)
       /\ m.services # << >>
       /\ \A i \in DOMAIN m.services[1] : m.services[1][i].type = "object"

\* (mutant: a mux starts from the one before it)
DefaultsPrevious(file, j) ==
  LET common == IF file.common = << >> THEN NoParams
                                       ELSE ParseMuxParams(NoParams, file.common[1])
  IN FoldLeft(ParseMuxParams, common, SubSeq(file.muxes[1].values, 1, j - 1))

\* mux_defaults, which every mux starts from.
Defaults(file, j) ==
  IF file.common = << >> THEN NoParams ELSE ParseMuxParams(NoParams, file.common[1])

\* *muxes_res; its length is the result of parse_config.
Muxes(file) ==
  [j \in DOMAIN file.muxes[1].values |->
     LET m == file.muxes[1].values[j] IN
     [params   |-> ParseMuxParams(Defaults(file, j), m),
      services |-> [i \in DOMAIN m.services[1] |-> ParseService(m.services[1][i])]]]

-----------------------------------------------------------------------------
(* mux_thread.                                                             *)

Fraction == [x \in {"1/32", "1/16", "1/8", "1/4"} |->
  CASE x = "1/32" -> <<32, 33>> [] x = "1/16" -> <<16, 17>>
    [] x = "1/8" -> <<8, 9>>    [] x = "1/4" -> <<4, 5>>]

Rate == [x \in {"1/2", "2/3", "3/4", "5/6", "7/8"} |->
  CASE x = "1/2" -> <<1, 2>> [] x = "2/3" -> <<2, 3>> [] x = "3/4" -> <<3, 4>>
    [] x = "5/6" -> <<5, 6>> [] x = "7/8" -> <<7, 8>>]

BitsPerCarrier == [QPSK |-> 2, QAM_16 |-> 4, QAM_64 |-> 6]

\* calc_channel_capacity goes on only with the code rates it knows.
CapacityKnown(params) == params.code_rate_HP \in DOMAIN Rate

\* (mutant: bandwidth_hz taken for Hz)
BandwidthInHz(params) == params.bandwidth_hz

\* The bandwidth in Hz: bandwidth_hz holds kHz.
Bandwidth(params) == params.bandwidth_hz * 1000

\* (mutant: upside down)
TimesInverted(x, f) == (x * f[2]) \div f[1]

\* x times a fraction, truncated.
Times(x, f) == (x * f[1]) \div f[2]

\* calc_channel_capacity.
ChannelCapacity(params) ==
  LET guarded == Times(Bandwidth(params) * BitsPerCarrier[params.constellation],
                       Fraction[params.guard_interval])
  IN (Times(guarded, Rate[params.code_rate_HP]) \div 544) * 423

\* ms_to_bits, with a product of 64 bits, for ms = 200 and 1000.
MsToBits(capacity, ms) == capacity \div (1000 \div ms)

TableNames == {"pat", "pmt", "sdt", "nit"}

\* pat_freq_in_bits .. nit_freq_in_bits.
FreqInBits(capacity) ==
  [t \in TableNames |-> MsToBits(capacity, IF t \in {"pat", "pmt"} THEN 200 ELSE 1000)]
=============================================================================
