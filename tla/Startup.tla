------------------------------ MODULE Startup ------------------------------
(***************************************************************************)
(* main and mux_thread as far as the data of the tables go: the            *)
(* configuration (Config), the tables of the input streams and of the      *)
(* output (Tables), the events that pass through (Events).  The order and  *)
(* the waiting of the threads is ServiceInit's subject; here each function *)
(* they call is one step.  A mux has at least one service.                 *)
(*                                                                         *)
(* The inputs are lists to choose from.  A stream is what init_service     *)
(* finds in it: a PAT, a PMT on the PID pmt_pid and SDT sections, of which *)
(* it holds the last; in LaterPmt and LaterSdt are the PMTs and the SDT    *)
(* sections sync_to_pcr may come across.                                   *)
(***************************************************************************)
EXTENDS Config, Events, FiniteSets

CONSTANTS
  Files,       \* configuration files, a sequence
  Streams,     \* for each service a sequence of streams
  LaterPmt,    \* for each service a sequence of PMTs
  LaterSdt,    \* for each service a sequence of SDT sections
  EitSections, \* EIT sections, a sequence
  MaxRounds    \* bound: times all tables are output

\* A JSON object's entries are a list; a bandwidth is a number.
IsObject(json) ==
  /\ IsList(json.entries)
  /\ \A i \in DOMAIN json.entries :
       json.entries[i].key = "bandwidth_hz" => json.entries[i].value \in Int

ASSUME InputAssumption ==
  /\ MaxRounds \in Nat /\ IsList(Files)
  /\ \A f \in DOMAIN Files : ConfigValid(Files[f]) =>
       /\ Files[f].common # << >> => IsObject(Files[f].common[1])
       /\ IsList(Files[f].muxes[1].values)
       /\ \A j \in DOMAIN Files[f].muxes[1].values :
            LET listed == Files[f].muxes[1].values[j].services[1]
            IN /\ IsObject(Files[f].muxes[1].values[j])
               /\ IsList(listed) /\ DOMAIN listed \subseteq DOMAIN Streams
  /\ DOMAIN LaterPmt = DOMAIN Streams /\ DOMAIN LaterSdt = DOMAIN Streams
  /\ \A s \in DOMAIN Streams :
       /\ \A i \in DOMAIN Streams[s] :
            /\ Streams[s][i] \in [pat : PatSection, pmt_pid : Nat, pmt : PmtSection,
                                 earlier : Seq(SdtSection), sdt : SdtSection]
            /\ Streams[s][i].pat.programs # << >>
       /\ \A i \in DOMAIN LaterPmt[s] : LaterPmt[s][i] \in PmtSection
       /\ \A i \in DOMAIN LaterSdt[s] :
            /\ LaterSdt[s][i] \in SdtSection
            /\ \A j \in DOMAIN LaterSdt[s][i].entries : LaterSdt[s][i].entries[j].fits
  /\ \A e \in DOMAIN EitSections : EitSections[e] \in EitSection

VARIABLES
  phase,      \* where the program is
  file,       \* the configuration file: its place in Files
  params,     \* the parameters in mux_t
  capacity,   \* channel_capacity
  freq,       \* pat/pmt/sdt/nit_freq_in_bits
  services,   \* mux_t.services
  svc,        \* the loop counter i
  pat, sdt, nit,
  cc,         \* section_t.cc of the tables, by PID
  out,        \* history: the packets of the latest output, by PID
  rounds,     \* history: how many there were
  eit         \* the EIT section passed on last: service, section, new_eit

vars == <<phase, file, params, capacity, freq, services, svc, pat, sdt, nit,
          cc, out, rounds, eit>>

NServices == Len(services)

-----------------------------------------------------------------------------
(* main.                                                                   *)

\* parse_config; anything but exactly one mux ends the program.
Configure(f) ==
  /\ phase = "config"
  /\ file' = f
  /\ IF ConfigValid(Files[f]) /\ Len(Muxes(Files[f])) = 1
       THEN LET mux == Muxes(Files[f])[1] IN
            /\ params' = mux.params
            /\ services' = mux.services
            /\ phase' = "capacity"
       ELSE /\ phase' = "exit"
            /\ UNCHANGED <<params, services>>
  /\ UNCHANGED <<capacity, freq, svc, pat, sdt, nit, cc, out, rounds, eit>>

\* The beginning of mux_thread, or exit(1) in calc_channel_capacity.
CalcCapacity ==
  /\ phase = "capacity"
  /\ IF CapacityKnown(params)
       THEN /\ capacity' = ChannelCapacity(params)
            /\ freq' = FreqInBits(capacity')
            /\ phase' = "init"
       ELSE /\ phase' = "exit"
            /\ UNCHANGED <<capacity, freq>>
  /\ UNCHANGED <<file, params, services, svc, pat, sdt, nit, cc, out, rounds, eit>>

-----------------------------------------------------------------------------
(* Preparation of the services.                                            *)

\* (mutant: counted from 0, so that the first service starts at 0)
NewPmtPidLow(s) == (s - 1) * 100

\* new_pmt_pid of service s, which the code counts from 0.
NewPmtPid(s) == s * 100

NextTurn(now, after) ==
  IF svc < NServices THEN phase' = now /\ svc' = svc + 1
                     ELSE phase' = after /\ svc' = 1

\* The SDT sections process_sdt gets, one after the other, while init_service still
\* waits for the PMT or the service's name.
Processed(st) == st.earlier \o <<st.sdt>>

\* service_t when init_service returns.
Initialised(st) ==
  LET program == ProcessPat(st.pat)
      read == [new_service_id |-> services[svc].service_id, lcn |-> services[svc].lcn,
               new_pmt_pid |-> NewPmtPid(svc),
               service_id |-> program.service_id, onid |-> st.sdt.onid,
               service_type |-> Last(Described(Processed(st), program.service_id)).service_type,
               pmt |-> st.pmt, sdt |-> st.sdt,
               pid_map |-> PidMap(st.pmt, NewPmtPid(svc)), new_pmt |-> << >>]
  IN [read EXCEPT !.new_pmt = CreatePmt(read)]

\* init_service: process_pat, process_sdt, process_pmt, create_pmt.  It searches
\* for ever if the PAT does not lead to the PMT or the SDT lacks the service; from
\* "smashed" on nothing is known.
InitService(st) ==
  /\ phase = "init"
  /\ IF ProcessSdt(Processed(st)) # "returns"
       THEN /\ phase' = ProcessSdt(Processed(st))
            /\ UNCHANGED <<services, svc>>
     ELSE IF /\ PatValid(st.pat) /\ ProcessPat(st.pat).pmt_pid = st.pmt_pid
             /\ Described(Processed(st), ProcessPat(st.pat).service_id) # << >>
       THEN /\ services' = [services EXCEPT ![svc] = Initialised(st)]
            /\ NextTurn("init", "sync")
       ELSE /\ phase' = "searching"
            /\ UNCHANGED <<services, svc>>
  /\ UNCHANGED <<file, params, capacity, freq, pat, sdt, nit, cc, out, rounds, eit>>

\* The PMTs and SDT sections of service s in sync_to_pcr, with the one it starts with.
Pmts(s, pmt) == {pmt} \cup {LaterPmt[s][i] : i \in DOMAIN LaterPmt[s]}
Sdts(s, section) == {section} \cup {LaterSdt[s][i] : i \in DOMAIN LaterSdt[s]}

\* (mutant: process_pmt is called for the new PMT, but not create_pmt)
SyncNewPidMap(pmt, section) ==
  /\ phase = "sync"
  /\ services' = [services EXCEPT ![svc].pmt = pmt, ![svc].sdt = section,
                    ![svc].pid_map = PidMap(pmt, services[svc].new_pmt_pid)]
  /\ NextTurn("sync", "create")
  /\ UNCHANGED <<file, params, capacity, freq, pat, sdt, nit, cc, out, rounds, eit>>

\* sync_to_pcr of one service, which takes over whatever PMT and SDT section come;
\* the mapping of the PIDs and the new PMT stay.
Sync(pmt, section) ==
  /\ phase = "sync"
  /\ services' = [services EXCEPT ![svc].pmt = pmt, ![svc].sdt = section]
  /\ NextTurn("sync", "create")
  /\ UNCHANGED <<file, params, capacity, freq, pat, sdt, nit, cc, out, rounds, eit>>

\* create_pat, create_sdt, create_nit.
CreateTables ==
  /\ phase = "create"
  /\ pat' = CreatePat(services)
  /\ sdt' = CreateSdt(services)
  /\ nit' = CreateNit(services)
  /\ cc' = [pid \in {0, 16, 17} \cup {services[s].new_pmt_pid : s \in 1..NServices} |-> 0]
  /\ out' = [pid \in DOMAIN cc' |-> << >>]
  /\ phase' = "loop"
  /\ UNCHANGED <<file, params, capacity, freq, services, svc, rounds, eit>>

-----------------------------------------------------------------------------
(* The main loop's use of the tables; Mux has its order.                   *)

Length(pid) ==
  CASE pid = 0  -> pat.length
    [] pid = 16 -> nit.length
    [] pid = 17 -> sdt.length
    [] OTHER    -> services[pid \div 100].new_pmt.length

\* The packets write_section makes: where a section starts, and their counter.
Packets(pid) ==
  [i \in 1..PacketsOf(Length(pid)) |-> [start |-> i = 1, cc |-> (cc[pid] + i - 1) % 16]]

\* (mutants: four bits forgotten; counted by section)
NextCcUnbounded(pid) == cc[pid] + PacketsOf(Length(pid))

NextCcSection(pid) == (cc[pid] + 1) % 16

NextCc(pid) == (cc[pid] + PacketsOf(Length(pid))) % 16

WriteTables ==
  /\ phase = "loop" /\ rounds < MaxRounds /\ eit = << >>
  /\ rounds' = rounds + 1
  /\ out' = [pid \in DOMAIN cc |-> Packets(pid)]
  /\ cc' = [pid \in DOMAIN cc |-> NextCc(pid)]
  /\ UNCHANGED <<phase, file, params, capacity, freq, services, svc, pat, sdt, nit, eit>>

\* read_to_next_pcr with an EIT section of its service (others are dropped).
PassEvent(s, e) ==
  /\ phase = "loop" /\ rounds = 0
  /\ EitSections[e].service_id = services[s].service_id
  /\ eit' = << [section |-> EitSections[e], service |-> s,
                new_eit |-> RewriteEit(EitSections[e], services[s], params.onid)] >>
  /\ UNCHANGED <<phase, file, params, capacity, freq, services, svc, pat, sdt, nit,
                 cc, out, rounds>>

-----------------------------------------------------------------------------
Init ==
  /\ phase = "config" /\ file = 0
  /\ params = NoParams /\ capacity = 0 /\ freq = [t \in TableNames |-> 0]
  /\ services = << >> /\ svc = 1
  /\ pat = << >> /\ sdt = << >> /\ nit = << >>
  /\ cc = << >> /\ out = << >> /\ rounds = 0
  /\ eit = << >>

Next ==
  \/ \E f \in DOMAIN Files : Configure(f)
  \/ CalcCapacity
  \/ svc <= NServices /\ \E i \in DOMAIN Streams[svc] : InitService(Streams[svc][i])
  \/ /\ phase = "sync"
     /\ \E pmt \in Pmts(svc, services[svc].pmt), section \in Sdts(svc, services[svc].sdt) :
          Sync(pmt, section)
  \/ CreateTables
  \/ WriteTables
  \/ \E s \in 1..NServices, e \in DOMAIN EitSections : PassEvent(s, e)

Spec == Init /\ [][Next]_vars

-----------------------------------------------------------------------------
(* What is promised.                                                       *)

Configured == file # 0 /\ ConfigValid(Files[file])

\* The services that have got through init_service.
Ready ==
  IF phase \in {"sync", "create", "loop"} THEN 1..NServices
  ELSE IF phase = "init" THEN 1..svc - 1 ELSE {}

\* The numbers of 13 bits; those that MPEG-2 and DVB leave to tables and streams.
Pids == 0..8191
UsablePids == {pid \in Pids : 32 <= pid /\ pid # 8191}

\* The state of every part is as its type says: counters of four bits, PIDs of
\* 13 bits.
TypeOK ==
  /\ phase \in {"config", "capacity", "init", "searching", "smashed", "sync", "create",
                "loop", "exit"}
  /\ file \in 0..Len(Files) /\ capacity \in Nat /\ freq \in [TableNames -> Nat]
  /\ svc \in Nat \ {0} /\ rounds \in 0..MaxRounds
  /\ \A pid \in DOMAIN cc : cc[pid] \in 0..15
  /\ \A s \in Ready : /\ services[s].new_pmt_pid \in Pids
                      /\ \A pid \in DOMAIN services[s].pid_map :
                           services[s].pid_map[pid] \in Pids \ {0}

\* A key's places in an object.
Places(json, key) == {i \in DOMAIN json.entries : json.entries[i].key = key}

\* What a configuration file says of a parameter of mux j.
Meant(f, j, key) ==
  LET own    == f.muxes[1].values[j]
      common == IF f.common = << >> THEN [entries |-> << >>] ELSE f.common[1]
  IN IF Places(own, key) # {} THEN own.entries[Max(Places(own, key))].value
     ELSE IF Places(common, key) # {} THEN common.entries[Max(Places(common, key))].value
     ELSE NoParams[key]

\* The numbers that bandwidth_hz can hold.
IsU16(n) == n \in Nat /\ n < 65536

\* Every mux of an accepted file has the parameters the file means: its own
\* ones, the common ones where it has none (parse_config copies mux_defaults to
\* every mux), never those of another mux; a bandwidth of 16 bits presumed.
ConfigMeans ==
  Configured =>
    \A j \in DOMAIN Files[file].muxes[1].values : \A key \in DOMAIN NoParams :
      \/ Muxes(Files[file])[j].params[key] = Meant(Files[file], j, key)
      \/ key = "bandwidth_hz" /\ ~IsU16(Meant(Files[file], j, key))

\* EN 300 744's useful bitrate in kbit/s: 27/32 of the bandwidth in symbols,
\* 188 of 204 bytes.
StandardKbps ==
  LET a == (params.bandwidth_hz \div 1000) * 27 * 188 * BitsPerCarrier[params.constellation]
             * Fraction[params.guard_interval][1] * Rate[params.code_rate_HP][1]
      b == 32 * 204 * Fraction[params.guard_interval][2] * Rate[params.code_rate_HP][2]
  IN (a \div b) * 1000 + ((a % b) * 1000) \div b

\* calc_channel_capacity's truncations (it divides by 544 before it multiplies
\* by 423) cost at most 425 bit/s, for every bandwidth of whole MHz.
StandardRate ==
  capacity # 0 /\ params.bandwidth_hz % 1000 = 0 =>
    capacity - StandardKbps * 1000 \in -425..999

\* The tables, as often as mux_thread repeats them, leave room for the services.
TablesFit ==
  phase = "loop" /\ params.bandwidth_hz # 0 =>
    LET pmts == Total([s \in 1..NServices |-> PacketsOf(services[s].new_pmt.length)])
        Takes(packets, t) == packets * 1504 * (capacity \div freq[t])
    IN Takes(PacketsOf(pat.length), "pat") + Takes(pmts, "pmt")
         + Takes(PacketsOf(sdt.length), "sdt") + Takes(PacketsOf(nit.length), "nit") < capacity

\* sizeof(section_t.buf)
SectionSize == 4096

\* No table is longer than its buffer, and the channel has room for that many full
\* buffers: five times a second PAT and PMTs, once SDT and NIT.  Nothing in the code
\* checks either.
TablesShort ==
  phase = "loop" =>
    /\ pat.length <= SectionSize /\ sdt.length <= SectionSize /\ nit.length <= SectionSize
    /\ \A s \in 1..NServices : services[s].new_pmt.length <= SectionSize
    /\ (5 * (1 + NServices) + 2) * PacketsOf(SectionSize) * 1504 < capacity

\* The new PIDs of service s.
NewPids(s) == Range(services[s].pid_map)

\* The numbers of services and of streams up to which the PIDs suffice; nothing
\* in the code checks them.
PidsSuffice ==
  /\ \A f \in DOMAIN Files : ConfigValid(Files[f]) =>
       \A j \in DOMAIN Files[f].muxes[1].values :
         Len(Files[f].muxes[1].values[j].services[1]) <= 80
  /\ \A s \in DOMAIN Streams : \A i \in DOMAIN Streams[s] :
       PidsNeeded(Streams[s][i].pmt) <= 99

\* No two things in the output have the same PID: mux_thread gives every service
\* 100 PIDs, process_pmt counts on from its PMT's PID, and both go on whatever
\* the number of streams.  PidsSuffice says how far.
PidsDistinct ==
  /\ \A s \in Ready :
       /\ {services[s].new_pmt_pid} \cup NewPids(s) \subseteq UsablePids
       /\ services[s].new_pmt_pid \notin NewPids(s)
  /\ \A s, t \in Ready : s # t =>
       ({services[s].new_pmt_pid} \cup NewPids(s))
         \cap ({services[t].new_pmt_pid} \cup NewPids(t)) = {}
  /\ \A s \in Ready : \A p, q \in DOMAIN services[s].pid_map :
       services[s].pid_map[p] = services[s].pid_map[q] => p = q

\* The streams service s may have been initialised from.
Sources(s) ==
  {i \in DOMAIN Streams[s] :
     /\ services[s].service_id = ProcessPat(Streams[s][i].pat).service_id
     /\ services[s].onid = Streams[s][i].sdt.onid
     /\ services[s].pmt \in Pmts(s, Streams[s][i].pmt)
     /\ services[s].sdt \in Sdts(s, Streams[s][i].sdt)}

\* The new PMT of service sv and its pid_map are those of a PMT of its stream.
Lists(sv, pmt) ==
  /\ DOMAIN sv.pid_map = {pmt.streams[j].pid : j \in PassedOn(pmt)} \cup {pmt.pcr_pid}
  /\ sv.new_pmt.pcr_pid = sv.pid_map[pmt.pcr_pid]
  /\ \A j \in PassedOn(pmt) : \E k \in DOMAIN sv.new_pmt.streams :
       /\ sv.new_pmt.streams[k].type = pmt.streams[j].type
       /\ sv.new_pmt.streams[k].pid = sv.pid_map[pmt.streams[j].pid]

\* A receiver that starts from the new PAT finds every service: its PMT is on the
\* PID the PAT says and lists, under the PIDs read_to_next_pcr writes, all streams
\* of the PMT init_service has read that are passed on and nothing else, also if
\* sync_to_pcr has replaced that PMT since; NIT and SDT name services of the PAT,
\* the SDT every one that the section held for it names.
ReceiverFinds ==
  phase = "loop" =>
    LET ids == {pat.programs[i].service_id : i \in DOMAIN pat.programs}
        named == {sdt.entries[i].service_id : i \in DOMAIN sdt.entries}
    IN
    /\ \A i \in DOMAIN pat.programs : \E s \in Ready :
         LET sv == services[s]
             listed == {sv.new_pmt.streams[j].pid : j \in DOMAIN sv.new_pmt.streams}
         IN /\ pat.programs[i] = [service_id |-> sv.new_pmt.service_id,
                                  pmt_pid |-> sv.new_pmt_pid]
            /\ listed \cup {sv.new_pmt.pcr_pid} = NewPids(s)
            /\ \E k \in Sources(s) : Lists(sv, Streams[s][k].pmt)
    /\ ids = {nit.service_list[i][1] : i \in DOMAIN nit.service_list}
    /\ ids = {nit.channels[i][1] : i \in DOMAIN nit.channels}
    /\ named \subseteq ids
    /\ \A s \in Ready : \A i \in DOMAIN services[s].sdt.entries :
         services[s].sdt.entries[i].service_id = services[s].service_id =>
           services[s].new_service_id \in named

\* create_sdt puts every name that the stream of a service has for it, in the one
\* of its SDT sections that the service holds, into the new SDT, under the new id,
\* whole; the recoding only adds the code page.  Which section that is, and whether
\* it describes the service at all, is SdtDescribes' subject (ServiceInit).
NamesKept ==
  phase = "loop" =>
    \A s \in Ready : \E k \in Sources(s) :
      \E section \in Sdts(s, Streams[s][k].sdt) :
        /\ section = services[s].sdt
        /\ Names(sdt.entries, services[s].new_service_id) =
             Names(section.entries, ProcessPat(Streams[s][k].pat).service_id)

\* The names of all services fit.
NamesFit ==
  \A s \in DOMAIN Streams : \A i \in DOMAIN Streams[s] :
    LET st == Streams[s][i] IN
    \A section \in Sdts(s, st.sdt) :
      \A j \in DOMAIN section.entries :
        section.entries[j].service_id = ProcessPat(st.pat).service_id =>
          NameFits(section.entries[j].descs, st.sdt.onid)

\* The service_ids the configuration gives the services of a mux are their own.
IdsDiffer ==
  \A f \in DOMAIN Files : ConfigValid(Files[f]) =>
    \A j \in DOMAIN Files[f].muxes[1].values :
      LET listed == Files[f].muxes[1].values[j].services[1] IN
      \A s, t \in DOMAIN listed : s # t =>
        ParseService(listed[s]).service_id # ParseService(listed[t]).service_id

\* The texts of all EIT sections fit.
EventsFit == \A e \in DOMAIN EitSections : TextsFit(EitSections[e].descs)

\* Of an event's text, which copy_eit_descriptors moves from descriptor to
\* descriptor, nothing is lost, doubled or out of place but what overflows from
\* the last descriptor.
EventTextKept ==
  eit # << >> =>
    ExtendedText(eit[1].new_eit.descs) \o eit[1].new_eit.overflow
      = ExtendedText(eit[1].section.descs)

\* recode_text's byte arithmetic: no number of bytes to copy is negative, the
\* overflow fits its buffer and grows by at most 5 for each descriptor, and every
\* length byte is true, if the recoded texts of the input can fit at all.
LengthsFit ==
  /\ eit # << >> =>
       LET ev == eit[1].new_eit
           in == eit[1].section.descs
       IN /\ \A n \in ev.copies : n >= 0
          /\ Len(ev.overflow) <= ChunkSize /\ Len(ev.overflow) <= 5 * Cardinality(Tagged(in, 78))
          /\ \A i \in DOMAIN in :
               in[i].tag = 78 \/ Size(in[i]) + 6 <= 255 =>
                 ev.descs[i].len = Size(ev.descs[i])
  /\ phase = "loop" =>
       \A i \in DOMAIN sdt.entries : \A j \in DOMAIN sdt.entries[i].descs :
         LET d == sdt.entries[i].descs[j] IN d.len = Size(d)

\* README: EIT sections are rewritten and passed through.  Every length byte in them
\* is true.  (Not that of a short event that grows beyond 255 bytes.)
EventLengthsTrue ==
  eit # << >> =>
    \A i \in DOMAIN eit[1].new_eit.descs :
      LET d == eit[1].new_eit.descs[i] IN d.len = Size(d)

\* README: "The input streams must contain as a minimum the PAT, PMT and SDT
\* tables", no more: init_service gets through with a stream that has a PAT with its
\* PMT's PID and an SDT section with its service.  (It does not if the PAT has a
\* network PID after that.)
SearchEnds ==
  [][\A i \in DOMAIN Streams[svc] :
       LET st == Streams[svc][i] IN
       /\ InitService(st) /\ PatValid(st.pat)
       /\ \E j \in DOMAIN st.pat.programs :
            LET program == st.pat.programs[j] IN
            /\ program.service_id # 0 /\ program.pmt_pid = st.pmt_pid
            /\ Described(Processed(st), program.service_id) # << >>
       => phase' # "searching"]_vars

\* write_section numbers the packets of a PID without a gap, within a section and
\* from one output of the section to the next.
CcContinuous ==
  [][\A pid \in DOMAIN out : out'[pid] # out[pid] =>
       /\ out[pid] # << >> => out'[pid][1].cc = (Last(out[pid]).cc + 1) % 16
       /\ \A i \in 2..Len(out'[pid]) : out'[pid][i].cc = (out'[pid][i - 1].cc + 1) % 16]_out

\* README: the output's services have no CA descriptors.  (They may: create_pmt
\* copies the descriptors of the program as they are.)
NoCa ==
  \A s \in Ready :
    LET pmt == services[s].new_pmt IN
    /\ \A i \in DOMAIN pmt.info : pmt.info[i].tag # 9
    /\ \A j \in DOMAIN pmt.streams :
         \A i \in DOMAIN pmt.streams[j].descs : pmt.streams[j].descs[i].tag # 9
=============================================================================
