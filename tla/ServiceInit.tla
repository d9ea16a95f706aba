---------------------------- MODULE ServiceInit ----------------------------
(***************************************************************************)
(* What mux_thread does before its main loop, with the curl threads that   *)
(* feed it: init_service for one service after the other (PAT, then PMT    *)
(* and SDT), the wait for every service's status, sync_to_pcr for one      *)
(* service after the other.                                                *)
(*                                                                         *)
(* Each stream repeats a sequence of packets, is joined anywhere and ends  *)
(* some time (curl_easy_perform returns and nothing reconnects).  A table  *)
(* fits in one packet here (Sections is about those that do not); what     *)
(* matters of an SDT section is whether it describes the service, of a PAT *)
(* whether process_pat accepts it.  An input buffer is a queue of packets: *)
(* RingBuffer says when it is one.                                         *)
(***************************************************************************)
EXTENDS Integers, Sequences, FiniteSets

CONSTANTS
  NServices,   \* mux_t.nservices
  Stream,      \* the packets each stream repeats
  Sizes,       \* packets curl passes to curl_callback at once
  InbufSize,   \* packets an input buffer holds
  MaxPackets   \* bound: where in its packets a stream ends

Services == 0..NServices - 1
Longest == CHOOSE n \in {Len(Stream[s]) : s \in Services} :
             \A s \in Services : Len(Stream[s]) <= n
Kinds == {"pat", "pat_bad", "pmt", "sdt", "sdt_other", "pcr"}

ASSUME StreamsAssumption ==
  /\ NServices \in Nat \ {0}
  /\ Stream \in [Services -> Seq(Kinds) \ {<< >>}]
  /\ Sizes \subseteq Nat \ {0}
  /\ InbufSize \in Nat \ {0, 1}
  /\ MaxPackets \in Nat /\ \A s \in Services : Len(Stream[s]) <= MaxPackets

VARIABLES
  pos,       \* the number of the packet each stream sends next
  inbuf,     \* service_t.inbuf
  wrote,     \* curl_callback is between rb_write and status=1
  status,    \* service_t.status
  phase,     \* where mux_thread is
  svc,       \* its loop counter i
  pmt_pid,   \* set by process_pat (0 when it has failed)
  pmt, sdt,  \* the sections held; "none" when length is 0
  name,      \* name # NULL: process_sdt has met the service
  synced,    \* start_pcr is known
  active_services

curlVars == <<pos, inbuf, wrote, status>>
tables == <<pmt_pid, pmt, sdt, name, synced>>
muxVars == <<phase, svc, tables, active_services>>
vars == <<curlVars, muxVars>>

-----------------------------------------------------------------------------
(* The curl threads.                                                       *)

\* The n packets a stream delivers next.
Upcoming(s, n) ==
  [i \in 1..n |-> Stream[s][((pos[s] + i - 2) % Len(Stream[s])) + 1]]

\* curl_callback up to rb_write, which takes what fits; the rest is dropped.
CurlWrite(s, n) ==
  LET room == InbufSize - Len(inbuf[s]) IN
  /\ ~wrote[s]
  /\ pos[s] + n - 1 <= MaxPackets
  /\ inbuf' = [inbuf EXCEPT ![s] =
       @ \o SubSeq(Upcoming(s, n), 1, IF n <= room THEN n ELSE room)]
  /\ pos' = [pos EXCEPT ![s] = @ + n]
  /\ wrote' = [wrote EXCEPT ![s] = TRUE]
  /\ UNCHANGED <<status, muxVars>>

\* "Confirm there are bytes in the buffer"
CurlStatus(s) ==
  /\ wrote[s]
  /\ status' = [status EXCEPT ![s] = 1]
  /\ wrote' = [wrote EXCEPT ![s] = FALSE]
  /\ UNCHANGED <<pos, inbuf, muxVars>>

Curl(s) == (\E n \in Sizes : CurlWrite(s, n)) \/ CurlStatus(s)

-----------------------------------------------------------------------------
(* The mux thread.                                                         *)

\* rb_read of one packet; it waits for more than that.
Read(packet) ==
  /\ Len(inbuf[svc]) > 1
  /\ packet = Head(inbuf[svc])
  /\ inbuf' = [inbuf EXCEPT ![svc] = Tail(@)]
  /\ UNCHANGED <<pos, wrote, status>>

\* The next service's turn, or the next phase.
NextTurn(now, after) ==
  IF svc + 1 < NServices
    THEN phase' = now /\ svc' = svc + 1
    ELSE phase' = after /\ svc' = 0

Assign(f, value) == [f EXCEPT ![svc] = value]

\* init_service: search for the PAT; the result of process_pat is not used.
FindPat(packet) ==
  /\ phase = "pat"
  /\ Read(packet)
  /\ IF packet \in {"pat", "pat_bad"}
       THEN /\ phase' = "tables"
            /\ pmt_pid' = Assign(pmt_pid, packet = "pat")
       ELSE UNCHANGED <<phase, pmt_pid>>
  /\ UNCHANGED <<svc, pmt, sdt, name, synced, active_services>>

\* (mutant: process_sdt does not clear sdt.length)
KeptSdtAlways(packet, known) == packet

\* What process_sdt leaves of the section just read.
KeptSdt(packet, known) == IF known THEN packet ELSE "none"

\* init_service: one more packet while the PMT or the SDT is missing.
FindTables(packet) ==
  /\ phase = "tables"
  /\ Read(packet)
  /\ pmt' = IF packet = "pmt" /\ pmt_pid[svc] THEN Assign(pmt, "pmt") ELSE pmt
  /\ IF packet \in {"sdt", "sdt_other"}
       THEN /\ name' = Assign(name, name[svc] \/ packet = "sdt")
            /\ sdt' = Assign(sdt, KeptSdt(packet, name'[svc]))
       ELSE UNCHANGED <<name, sdt>>
  /\ IF pmt'[svc] # "none" /\ sdt'[svc] # "none"
       THEN NextTurn("pat", "wait")
       ELSE UNCHANGED <<phase, svc>>
  /\ UNCHANGED <<pmt_pid, synced, active_services>>

\* (mutants: <= for <, = for +=)
PollLonger ==
  /\ phase = "wait"
  /\ active_services' = active_services + status[svc]
  /\ IF active_services' > NServices
       THEN NextTurn("wait", "sync")
       ELSE NextTurn("wait", "wait")
  /\ UNCHANGED <<curlVars, tables>>

PollLast ==
  /\ phase = "wait"
  /\ active_services' = status[svc]
  /\ IF active_services' >= NServices
       THEN NextTurn("wait", "sync")
       ELSE NextTurn("wait", "wait")
  /\ UNCHANGED <<curlVars, tables>>

\* The loop that waits for the services adds up status, one service at a time,
\* and looks at the sum after each round.
Poll ==
  /\ phase = "wait"
  /\ active_services' = active_services + status[svc]
  /\ IF active_services' >= NServices
       THEN NextTurn("wait", "sync")
       ELSE NextTurn("wait", "wait")
  /\ UNCHANGED <<curlVars, tables>>

\* sync_to_pcr: newer tables are taken as they come, without process_sdt.
Sync(packet) ==
  /\ phase = "sync"
  /\ Read(packet)
  /\ pmt' = IF packet = "pmt" THEN Assign(pmt, "pmt") ELSE pmt
  /\ sdt' = IF packet \in {"sdt", "sdt_other"} THEN Assign(sdt, packet) ELSE sdt
  /\ IF packet = "pcr"
       THEN /\ synced' = Assign(synced, TRUE)
            /\ NextTurn("sync", "loop")
       ELSE UNCHANGED <<synced, phase, svc>>
  /\ UNCHANGED <<pmt_pid, name, active_services>>

Mux ==
  \/ \E packet \in Kinds : FindPat(packet) \/ FindTables(packet) \/ Sync(packet)
  \/ Poll

-----------------------------------------------------------------------------
Init ==
  /\ pos \in [Services -> 1..Longest] /\ \A s \in Services : pos[s] <= Len(Stream[s])
  /\ inbuf = [s \in Services |-> << >>]
  /\ wrote = [s \in Services |-> FALSE]
  /\ status = [s \in Services |-> 0]
  /\ phase = "pat" /\ svc = 0
  /\ pmt_pid = [s \in Services |-> FALSE]
  /\ pmt = [s \in Services |-> "none"]
  /\ sdt = [s \in Services |-> "none"]
  /\ name = [s \in Services |-> FALSE]
  /\ synced = [s \in Services |-> FALSE]
  /\ active_services = 0

Next == Mux \/ \E s \in Services : Curl(s)

Spec == Init /\ [][Next]_vars

\* Every thread keeps running, and every stream delivers all its packets.
FairSpec == Spec /\ WF_vars(Mux) /\ \A s \in Services : WF_vars(Curl(s))
-----------------------------------------------------------------------------
(* Properties.                                                             *)

\* Every variable has its type, and no input buffer holds more than it can.
TypeOK ==
  /\ \A s \in Services : pos[s] \in 1..MaxPackets + 1
  /\ inbuf \in [Services -> Seq(Kinds)] /\ \A s \in Services : Len(inbuf[s]) <= InbufSize
  /\ wrote \in [Services -> BOOLEAN] /\ status \in [Services -> {0, 1}]
  /\ phase \in {"pat", "tables", "wait", "sync", "loop"} /\ svc \in Services
  /\ pmt_pid \in [Services -> BOOLEAN] /\ name \in [Services -> BOOLEAN]
  /\ synced \in [Services -> BOOLEAN]
  /\ pmt \in [Services -> {"none", "pmt"}]
  /\ sdt \in [Services -> {"none", "sdt", "sdt_other"}]
  /\ active_services \in 0..2 * NServices - 1

\* The services init_service has returned for.
Initialised ==
  IF phase \in {"pat", "tables"} THEN 0..svc - 1 ELSE Services

\* Whatever is dropped and in whatever order the tables come: no SDT section stays
\* before the service's name is known ("Not found, keep searching for other
\* sections"), which is what init_service waits for; it leaves no service without a
\* PMT and a section, and the main loop does not begin before every service's PCR
\* has come.  The section need not be the one with the name: see SdtDescribes.
Ready ==
  /\ \A s \in Services : sdt[s] # "none" => name[s]
  /\ \A s \in Initialised : pmt_pid[s] /\ pmt[s] = "pmt" /\ sdt[s] # "none"
  /\ phase = "loop" => \A s \in Services : synced[s]

\* mux_thread gets to its main loop, although it serves one stream at a time
\* while the others fill their buffers.
Started == <>(phase = "loop")

\* "Waiting for services - %d started": the wait ends when all services have.  (It
\* may end before, as active_services counts those that have anew in every round;
\* init_service has read from the others, though: Ready.)
AllStarted == phase \in {"sync", "loop"} => \A s \in Services : status[s] = 1

\* create_sdt copies a service's descriptors from sv->sdt.
SdtDescribes == phase = "loop" => \A s \in Services : sdt[s] = "sdt"
=============================================================================
