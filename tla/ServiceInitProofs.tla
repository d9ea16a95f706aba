------------------------- MODULE ServiceInitProofs -------------------------
(***************************************************************************)
(* What init_service leaves, for any number of services, any streams and   *)
(* any size of the input buffers.                                          *)
(*                                                                         *)
(* Ready is inductive only with what is known of the services that         *)
(* init_service has not reached: no PMT is held before its PID is known,   *)
(* no SDT section before the name is (PmtAfterPat, SdtNames); and of those *)
(* that sync_to_pcr has been called for (PcrsFound).                       *)
(***************************************************************************)
EXTENDS ServiceInit, Arithmetic, SequenceTheorems

\* The services init_service has not begun to look for tables of.
Untouched ==
  {s \in Services : \/ phase = "pat" /\ s >= svc
                    \/ phase = "tables" /\ s > svc}

\* What the steps rely on of the mux thread's variables.
MuxTypes ==
  /\ phase \in {"pat", "tables", "wait", "sync", "loop"} /\ svc \in Services
  /\ pmt_pid \in [Services -> BOOLEAN] /\ name \in [Services -> BOOLEAN]
  /\ pmt \in [Services -> {"none", "pmt"}]
  /\ sdt \in [Services -> {"none", "sdt", "sdt_other"}]

\* No PMT is held before its PID is known: the PAT is only looked for first.
PmtAfterPat ==
  \A s \in Services : /\ pmt[s] = "pmt" => pmt_pid[s]
                      /\ s \in Untouched => pmt[s] = "none"

\* No SDT section stays before one has named the service.
SdtNames == \A s \in Services : sdt[s] # "none" => name[s]

\* The services init_service has returned for have all they need.
Tabled ==
  \A s \in Initialised : pmt_pid[s] /\ pmt[s] = "pmt" /\ sdt[s] # "none" /\ name[s]

Inv == MuxTypes /\ PmtAfterPat /\ SdtNames /\ Tabled

\* The services sync_to_pcr has returned for have a PCR.
PcrsFound ==
  /\ synced \in [Services -> BOOLEAN]
  /\ phase = "sync" => \A s \in Services : s < svc => synced[s]
  /\ phase = "loop" => \A s \in Services : synced[s]

\* The invariant holds when the threads start.
LEMMA InitInv == Init => Inv
BY StreamsAssumption
   DEF Init, Inv, MuxTypes, PmtAfterPat, SdtNames, Tabled, Initialised, Services

\* A curl thread changes nothing the invariant is about.
LEMMA CurlInv ==
  ASSUME Inv, NEW s \in Services, Curl(s)
  PROVE  Inv'
BY DEF Curl, CurlWrite, CurlStatus, muxVars, tables, Inv, MuxTypes, PmtAfterPat,
       SdtNames, Tabled, Initialised, Untouched

\* The next turn or phase: the counter stays a service's.
LEMMA TurnTypes ==
  ASSUME NEW now, NEW after, svc \in Services, NextTurn(now, after)
  PROVE  /\ svc' \in Services /\ phase' \in {now, after}
         /\ phase' = now => \/ svc' = svc + 1
                            \/ svc' = 0 /\ phase' = after
         /\ phase' # now => svc + 1 = NServices
BY StreamsAssumption DEF NextTurn, Services

\* A PAT found, or another packet: the service at hand still has no PMT.
LEMMA FindPatInv ==
  ASSUME Inv, NEW packet \in Kinds, FindPat(packet)
  PROVE  Inv'
<1> USE DEF Inv, Services
<1>1. /\ phase = "pat" /\ phase' \in {"pat", "tables"}
      /\ svc' = svc /\ pmt' = pmt /\ sdt' = sdt /\ name' = name
      /\ svc \in Services /\ pmt[svc] = "none"
  BY DEF FindPat, MuxTypes, PmtAfterPat, Untouched
<1>2. /\ pmt_pid' \in [Services -> BOOLEAN]
      /\ \A s \in Services : s # svc => pmt_pid'[s] = pmt_pid[s]
  <2>1. CASE packet \in {"pat", "pat_bad"}
    BY <2>1 DEF FindPat, Assign, MuxTypes
  <2>2. CASE packet \notin {"pat", "pat_bad"}
    BY <2>2 DEF FindPat, MuxTypes
  <2> QED BY <2>1, <2>2
<1>3. MuxTypes' /\ SdtNames'
  BY <1>1, <1>2 DEF MuxTypes, SdtNames
<1>4. PmtAfterPat'
  BY <1>1, <1>2 DEF PmtAfterPat, Untouched
<1>5. Tabled'
  <2>1. Initialised' = Initialised /\ \A s \in Initialised : s \in Services /\ s # svc
    BY <1>1, StreamsAssumption DEF Initialised
  <2> QED BY <1>1, <1>2, <2>1 DEF Tabled
<1> QED BY <1>3, <1>4, <1>5

\* A table found, or another packet: the service is left with both, and the
\* name is known, or it is not left.
LEMMA FindTablesInv ==
  ASSUME Inv, NEW packet \in Kinds, FindTables(packet)
  PROVE  Inv'
<1> USE DEF Inv, Services
<1>1. /\ pmt_pid' = pmt_pid /\ phase = "tables"
      /\ pmt' \in [Services -> {"none", "pmt"}]
      /\ \A s \in Services : pmt'[s] = "pmt" => pmt_pid[s]
      /\ \A s \in Services : s # svc => pmt'[s] = pmt[s]
  BY DEF FindTables, Assign, MuxTypes, PmtAfterPat
<1>2. /\ name' \in [Services -> BOOLEAN]
      /\ sdt' \in [Services -> {"none", "sdt", "sdt_other"}]
      /\ \A s \in Services : s # svc => sdt'[s] = sdt[s] /\ name'[s] = name[s]
      /\ SdtNames'
  <2>1. CASE packet \in {"sdt", "sdt_other"}
    <3>1. /\ name' = [name EXCEPT ![svc] = name[svc] \/ packet = "sdt"]
          /\ sdt' = [sdt EXCEPT ![svc] = IF name'[svc] THEN packet ELSE "none"]
      BY <2>1 DEF FindTables, Assign, KeptSdt
    <3> QED BY <2>1, <3>1 DEF MuxTypes, SdtNames
  <2>2. CASE packet \notin {"sdt", "sdt_other"}
    BY <2>2 DEF FindTables, MuxTypes, SdtNames
  <2> QED BY <2>1, <2>2
<1>3. CASE pmt'[svc] # "none" /\ sdt'[svc] # "none"
  <2>1. NextTurn("pat", "wait")
    BY <1>3 DEF FindTables
  <2>2. /\ svc \in Services /\ svc' \in Services /\ phase' \in {"pat", "wait"}
        /\ phase' = "pat" => svc' = svc + 1
        /\ phase' # "pat" => svc + 1 = NServices
    BY <2>1, TurnTypes DEF MuxTypes
  <2>3. PmtAfterPat'
    BY <1>1, <2>2 DEF PmtAfterPat, Untouched, MuxTypes
  <2>4. pmt_pid'[svc] /\ pmt'[svc] = "pmt" /\ sdt'[svc] # "none" /\ name'[svc]
    BY <1>1, <1>2, <1>3 DEF MuxTypes, SdtNames
  <2>5. \A s \in Initialised' : s \in Services /\ (s = svc \/ s \in Initialised)
    <3>1. CASE phase' = "pat"
      BY <1>1, <2>2, <3>1, StreamsAssumption DEF Initialised
    <3>2. CASE phase' = "wait"
      BY <1>1, <2>2, <3>2, StreamsAssumption DEF Initialised
    <3> QED BY <2>2, <3>1, <3>2
  <2>6. \A s \in Initialised : s # svc
    BY <1>1, StreamsAssumption DEF Initialised, MuxTypes
  <2>7. Tabled'
    BY <1>1, <1>2, <2>4, <2>5, <2>6 DEF Tabled
  <2> QED BY <1>1, <1>2, <2>2, <2>3, <2>7 DEF MuxTypes
<1>4. CASE ~(pmt'[svc] # "none" /\ sdt'[svc] # "none")
  <2>1. phase' = phase /\ svc' = svc
    BY <1>4 DEF FindTables
  <2>2. MuxTypes' /\ PmtAfterPat'
    BY <1>1, <1>2, <2>1 DEF MuxTypes, PmtAfterPat, Untouched
  <2>3. /\ Initialised' = Initialised
        /\ \A s \in Initialised : s \in Services /\ s # svc
    BY <1>1, <2>1, StreamsAssumption DEF Initialised, MuxTypes
  <2>4. Tabled'
    BY <1>1, <1>2, <2>3 DEF Tabled
  <2> QED BY <1>2, <2>2, <2>4
<1> QED BY <1>3, <1>4

\* A round of the wait only moves the counter.
LEMMA PollInv ==
  ASSUME Inv, Poll
  PROVE  Inv'
<1>1. /\ svc' \in Services /\ phase = "wait" /\ phase' \in {"wait", "sync"}
  BY TurnTypes DEF Poll, Inv, MuxTypes
<1> QED
  BY <1>1 DEF Poll, tables, Inv, MuxTypes, PmtAfterPat, SdtNames, Tabled,
              Initialised, Untouched

\* The tables taken during sync_to_pcr replace tables that are there.
LEMMA SyncInv ==
  ASSUME Inv, NEW packet \in Kinds, Sync(packet)
  PROVE  Inv'
<1>1. /\ svc \in Services /\ svc' \in Services
      /\ phase = "sync" /\ phase' \in {"sync", "loop"}
  BY TurnTypes DEF Sync, Inv, MuxTypes
<1>2. /\ pmt' \in [Services -> {"none", "pmt"}]
      /\ \A s \in Services : pmt[s] = "pmt" => pmt'[s] = "pmt"
  BY DEF Sync, Assign, Inv, MuxTypes
<1>3. /\ sdt' \in [Services -> {"none", "sdt", "sdt_other"}]
      /\ \A s \in Services : sdt[s] # "none" => sdt'[s] # "none"
  BY DEF Sync, Assign, Inv, MuxTypes
<1>4. pmt_pid' = pmt_pid /\ name' = name
  BY DEF Sync
<1>5. \A s \in Services : pmt_pid[s] /\ pmt[s] = "pmt" /\ sdt[s] # "none" /\ name[s]
  BY <1>1 DEF Inv, Tabled, Initialised
<1> QED
  BY <1>1, <1>2, <1>3, <1>4, <1>5
     DEF Inv, MuxTypes, PmtAfterPat, SdtNames, Tabled, Initialised, Untouched

\* Every step keeps the invariant.
LEMMA StepInv == Inv /\ [Next]_vars => Inv'
<1> SUFFICES ASSUME Inv, [Next]_vars PROVE Inv'
  OBVIOUS
<1>1. CASE Next
  BY <1>1, CurlInv, FindPatInv, FindTablesInv, PollInv, SyncInv DEF Next, Mux
<1>2. CASE UNCHANGED vars
  BY <1>2 DEF vars, muxVars, tables, Inv, MuxTypes, PmtAfterPat, SdtNames, Tabled,
              Initialised, Untouched
<1> QED BY <1>1, <1>2

\* sync_to_pcr serves the services in turn, and no other step takes a PCR away.
LEMMA PcrsFoundStep == MuxTypes /\ PcrsFound /\ [Next]_vars => PcrsFound'
<1> SUFFICES ASSUME MuxTypes, PcrsFound, [Next]_vars PROVE PcrsFound'
  OBVIOUS
<1>1. CASE UNCHANGED <<phase, svc, synced>>
  BY <1>1 DEF PcrsFound
<1>2. CASE UNCHANGED synced /\ phase' \notin {"sync", "loop"}
  BY <1>2 DEF PcrsFound
<1>3. ASSUME NEW s \in Services, Curl(s) PROVE PcrsFound'
  BY <1>1, <1>3 DEF Curl, CurlWrite, CurlStatus, muxVars, tables
<1>4. ASSUME NEW packet \in Kinds, FindPat(packet) PROVE PcrsFound'
  BY <1>2, <1>4 DEF FindPat
<1>5. ASSUME NEW packet \in Kinds, FindTables(packet) PROVE PcrsFound'
  BY <1>2, <1>5 DEF FindTables, NextTurn
<1>6. CASE Poll
  <2>1. UNCHANGED synced /\ (phase' = "sync" => svc' = 0) /\ phase' # "loop"
    BY <1>6 DEF Poll, NextTurn, tables
  <2>2. phase' = "sync" => \A s \in Services : ~(s < svc')
    BY <2>1 DEF Services
  <2> QED BY <2>1, <2>2 DEF PcrsFound
<1>7. ASSUME NEW packet \in Kinds, Sync(packet) PROVE PcrsFound'
  <2>1. CASE packet # "pcr"
    BY <1>1, <1>7, <2>1 DEF Sync
  <2>2. CASE packet = "pcr"
    <3>1. /\ synced' = [synced EXCEPT ![svc] = TRUE] /\ NextTurn("sync", "loop")
          /\ phase = "sync" /\ svc \in Services /\ NServices \in Nat
      BY <1>7, <2>2, StreamsAssumption DEF Sync, Assign, MuxTypes
    <3>2. \A s \in Services : s < svc + 1 => synced'[s]
      BY <3>1 DEF PcrsFound, Services
    <3>3. /\ phase' = "sync" => svc' = svc + 1
          /\ phase' = "loop" => svc + 1 = NServices
          /\ phase' \in {"sync", "loop"}
      BY <3>1 DEF NextTurn, Services
    <3>4. \A s \in Services : s < NServices
      BY <3>1 DEF Services
    <3>5. synced' \in [Services -> BOOLEAN]
      BY <3>1 DEF PcrsFound
    <3> QED BY <3>2, <3>3, <3>4, <3>5 DEF PcrsFound
  <2> QED BY <2>1, <2>2
<1>8. CASE UNCHANGED vars
  BY <1>1, <1>8 DEF vars, muxVars, tables
<1> QED BY <1>3, <1>4, <1>5, <1>6, <1>7, <1>8 DEF Next, Mux

\* Whatever is dropped and in whatever order the tables come, no SDT section stays
\* before the name is known, init_service leaves a service with a PMT and an SDT
\* section, sync_to_pcr does not take them away, and no service is left without a
\* PCR when the main loop begins.
THEOREM ServicesReady == Spec => []Ready
<1>1. Init => PcrsFound
  BY DEF Init, PcrsFound
<1>2. Inv => MuxTypes
  BY DEF Inv
<1>3. Inv /\ PcrsFound => Ready
  BY DEF Inv, SdtNames, Tabled, PcrsFound, Ready
<1> QED BY InitInv, StepInv, PcrsFoundStep, <1>1, <1>2, <1>3, PTL DEF Spec

-----------------------------------------------------------------------------
(* Types.                                                                  *)

\* The sum is that of the services polled in this round and less than
\* NServices from earlier ones, or the loop would have ended.
Counted ==
  /\ phase \in {"pat", "tables"} => active_services = 0
  /\ phase = "wait" => active_services <= NServices - 1 + svc

TypeInv == TypeOK /\ Counted

LEMMA LongestStream == Longest \in Nat
<1> DEFINE lengths == {Len(Stream[s]) : s \in Services}
<1>1. lengths \subseteq 0..MaxPackets /\ lengths # {} /\ MaxPackets \in Nat
  <2>1. \A s \in Services : Len(Stream[s]) \in 0..MaxPackets
    <3> TAKE s \in Services
    <3>1. Stream[s] \in Seq(Kinds) /\ Len(Stream[s]) <= MaxPackets /\ MaxPackets \in Nat
      BY StreamsAssumption
    <3> QED BY <3>1, LenProperties
  <2>2. 0 \in Services
    BY StreamsAssumption DEF Services
  <2> QED BY <2>1, <2>2, StreamsAssumption, Zenon
<1>2. \E n \in lengths : \A k \in lengths : k <= n
  <2> HIDE DEF lengths
  <2> QED BY <1>1, Greatest
<1>3. \E n \in lengths : \A s \in Services : Len(Stream[s]) <= n
  BY <1>2
<1>4. Longest \in lengths
  BY <1>3, Zenon DEF Longest
<1> HIDE DEF lengths
<1> QED BY <1>1, <1>4

LEMMA InitType == Init => TypeInv
<1> SUFFICES ASSUME Init PROVE TypeInv
  OBVIOUS
<1>1. \A s \in Services : pos[s] \in 1..MaxPackets + 1
  <2> TAKE s \in Services
  <2>1. pos[s] \in 1..Longest /\ pos[s] <= Len(Stream[s])
    BY DEF Init
  <2>2. Stream[s] \in Seq(Kinds) /\ Len(Stream[s]) <= MaxPackets /\ MaxPackets \in Nat
    BY StreamsAssumption
  <2>3. Len(Stream[s]) \in Nat
    BY <2>2, LenProperties
  <2> QED BY <2>1, <2>2, <2>3, LongestStream
<1>2. /\ inbuf \in [Services -> Seq(Kinds)]
      /\ \A s \in Services : Len(inbuf[s]) <= InbufSize
  <2>1. << >> \in Seq(Kinds) /\ Len(<< >>) = 0 /\ InbufSize \in Nat
    BY EmptySeq, StreamsAssumption
  <2>2. inbuf = [s \in Services |-> << >>]
    BY DEF Init
  <2>3. inbuf \in [Services -> Seq(Kinds)]
    BY <2>1, <2>2, Zenon
  <2>4. \A s \in Services : Len(inbuf[s]) = 0
    BY <2>1, <2>2, Zenon
  <2> QED BY <2>1, <2>3, <2>4
<1>3. NServices \in Nat \ {0} /\ 0 \in Services
  BY StreamsAssumption DEF Services
<1>4. active_services \in 0..2 * NServices - 1 /\ Counted
  BY <1>3 DEF Init, Counted
<1>5. /\ wrote \in [Services -> BOOLEAN] /\ status \in [Services -> {0, 1}]
      /\ phase \in {"pat", "tables", "wait", "sync", "loop"} /\ svc \in Services
      /\ pmt_pid \in [Services -> BOOLEAN] /\ name \in [Services -> BOOLEAN]
      /\ synced \in [Services -> BOOLEAN]
      /\ pmt \in [Services -> {"none", "pmt"}]
      /\ sdt \in [Services -> {"none", "sdt", "sdt_other"}]
  BY <1>3 DEF Init
<1> QED BY <1>1, <1>2, <1>4, <1>5 DEF TypeInv, TypeOK

\* curl_callback writes packets of the stream, and no more than there is room.
LEMMA CurlWriteType ==
  ASSUME TypeInv, NEW r \in Services, NEW n \in Sizes, CurlWrite(r, n)
  PROVE  TypeInv'
<1>1. /\ InbufSize \in Nat /\ n \in Nat /\ n > 0 /\ MaxPackets \in Nat
      /\ Stream[r] \in Seq(Kinds) /\ Stream[r] # << >>
  BY StreamsAssumption
<1>2. /\ pos[r] \in Nat /\ pos[r] >= 1 /\ pos[r] + n - 1 <= MaxPackets
      /\ inbuf \in [Services -> Seq(Kinds)] /\ Len(inbuf[r]) <= InbufSize
      /\ pos' = [pos EXCEPT ![r] = @ + n]
  BY DEF CurlWrite, TypeInv, TypeOK
<1>3. inbuf[r] \in Seq(Kinds) /\ Len(inbuf[r]) \in Nat
  BY <1>2, LenProperties
<1> DEFINE more == Upcoming(r, n)
           room == InbufSize - Len(inbuf[r])
           k == IF n <= room THEN n ELSE room
<1>4. k \in Nat /\ k <= room /\ k <= n /\ room \in Nat
  BY <1>1, <1>2, <1>3
<1>5. \A i \in 1..k : more[i] \in Kinds
  <2> TAKE i \in 1..k
  <2>1. i \in 1..n
    BY <1>1, <1>4
  <2>2. more[i] = Stream[r][((pos[r] + i - 2) % Len(Stream[r])) + 1]
    BY <2>1 DEF Upcoming
  <2>3. Len(Stream[r]) \in Nat /\ Len(Stream[r]) > 0 /\ pos[r] + i - 2 \in Int
    BY <1>1, <1>2, <2>1, EmptySeq, SMTT(30)
  <2>4. (pos[r] + i - 2) % Len(Stream[r]) \in 0..Len(Stream[r]) - 1
    BY <2>3, DivMod, Zenon
  <2>5. ((pos[r] + i - 2) % Len(Stream[r])) + 1 \in 1..Len(Stream[r])
    BY <2>3, <2>4, SMTT(30)
  <2> QED BY <1>1, <2>2, <2>5, ElementOfSeq, Zenon
<1>6. SubSeq(more, 1, k) \in Seq(Kinds) /\ Len(SubSeq(more, 1, k)) = k
  <2> HIDE DEF more, k
  <2>1. 1 \in Int /\ k \in Int
    BY <1>4
  <2>2. /\ SubSeq(more, 1, k) \in Seq(Kinds)
        /\ Len(SubSeq(more, 1, k)) = IF 1 <= k THEN k - 1 + 1 ELSE 0
    BY <1>5, <2>1, SubSeqProperties
  <2> QED BY <1>4, <2>2
<1>7. inbuf' = [inbuf EXCEPT ![r] = inbuf[r] \o SubSeq(more, 1, k)]
  BY DEF CurlWrite
<1> DEFINE both == inbuf[r] \o SubSeq(more, 1, k)
<1>8. both \in Seq(Kinds) /\ Len(both) = Len(inbuf[r]) + k
  <2> HIDE DEF more, k
  <2> QED BY <1>3, <1>6, ConcatProperties
<1>9. Len(both) <= InbufSize
  <2> HIDE DEF both, more, k
  <2> QED BY <1>1, <1>3, <1>4, <1>8 DEF room
<1> HIDE DEF both, more, k, room
<1>10. inbuf' = [inbuf EXCEPT ![r] = both]
  BY <1>7 DEF both
<1>11. /\ inbuf' \in [Services -> Seq(Kinds)]
       /\ \A s \in Services : Len(inbuf'[s]) <= InbufSize
  <2>1. inbuf'[r] = both /\ \A s \in Services : s # r => inbuf'[s] = inbuf[s]
    BY <1>2, <1>10
  <2>2. inbuf' \in [Services -> Seq(Kinds)]
    BY <1>2, <1>8, <1>10
  <2> QED BY <1>9, <2>1, <2>2 DEF TypeInv, TypeOK
<1>12. \A s \in Services : pos'[s] \in 1..MaxPackets + 1
  <2> TAKE s \in Services
  <2>1. CASE s = r
    BY <1>1, <1>2, <2>1, SMTT(30)
  <2>2. CASE s # r
    BY <1>2, <2>2 DEF TypeInv, TypeOK
  <2> QED BY <2>1, <2>2
<1>13. wrote' \in [Services -> BOOLEAN]
  BY DEF CurlWrite, TypeInv, TypeOK
<1> QED BY <1>11, <1>12, <1>13 DEF CurlWrite, muxVars, tables, TypeInv, TypeOK, Counted

LEMMA CurlStatusType ==
  ASSUME TypeInv, NEW r \in Services, CurlStatus(r)
  PROVE  TypeInv'
<1>1. wrote' \in [Services -> BOOLEAN] /\ status' \in [Services -> {0, 1}]
  BY DEF CurlStatus, TypeInv, TypeOK
<1> QED BY <1>1 DEF CurlStatus, muxVars, tables, TypeInv, TypeOK, Counted

\* A packet read leaves the rest.
LEMMA ReadType ==
  ASSUME TypeInv, NEW packet, Read(packet)
  PROVE  /\ \A s \in Services : pos'[s] \in 1..MaxPackets + 1
         /\ inbuf' \in [Services -> Seq(Kinds)]
         /\ \A s \in Services : Len(inbuf'[s]) <= InbufSize
         /\ wrote' \in [Services -> BOOLEAN] /\ status' \in [Services -> {0, 1}]
<1>1. /\ inbuf \in [Services -> Seq(Kinds)] /\ svc \in Services
      /\ inbuf[svc] \in Seq(Kinds) /\ Len(inbuf[svc]) > 1
      /\ Len(inbuf[svc]) <= InbufSize /\ InbufSize \in Nat
      /\ inbuf' = [inbuf EXCEPT ![svc] = Tail(inbuf[svc])]
      /\ UNCHANGED <<pos, wrote, status>>
  BY StreamsAssumption DEF Read, TypeInv, TypeOK
<1>2. /\ Tail(inbuf[svc]) \in Seq(Kinds)
      /\ Len(Tail(inbuf[svc])) = Len(inbuf[svc]) - 1
      /\ Len(inbuf[svc]) \in Nat
  BY <1>1
<1>3. Len(Tail(inbuf[svc])) <= InbufSize
  BY <1>1, <1>2
<1>4. inbuf' \in [Services -> Seq(Kinds)]
  BY <1>1, <1>2
<1>5. \A s \in Services : Len(inbuf'[s]) <= InbufSize
  <2> TAKE s \in Services
  <2>1. CASE s = svc
    BY <1>1, <1>3, <2>1
  <2>2. CASE s # svc
    BY <1>1, <2>2 DEF TypeInv, TypeOK
  <2> QED BY <2>1, <2>2
<1> QED BY <1>1, <1>4, <1>5 DEF TypeInv, TypeOK

LEMMA FindPatType ==
  ASSUME TypeInv, NEW packet \in Kinds, FindPat(packet)
  PROVE  TypeInv'
<1>1. Read(packet)
  BY DEF FindPat
<1>2. pmt_pid' \in [Services -> BOOLEAN] /\ phase' \in {"pat", "tables"}
  BY DEF FindPat, Assign, TypeInv, TypeOK
<1>3. phase = "pat" /\ UNCHANGED <<svc, pmt, sdt, name, synced, active_services>>
  BY DEF FindPat
<1>4. Counted'
  BY <1>2, <1>3 DEF TypeInv, Counted
<1> QED BY <1>1, <1>2, <1>3, <1>4, ReadType DEF TypeInv, TypeOK

LEMMA FindTablesType ==
  ASSUME TypeInv, NEW packet \in Kinds, FindTables(packet)
  PROVE  TypeInv'
<1>1. Read(packet)
  BY DEF FindTables
<1>2. pmt' \in [Services -> {"none", "pmt"}]
  BY DEF FindTables, Assign, TypeInv, TypeOK
<1>3. /\ name' \in [Services -> BOOLEAN]
      /\ sdt' \in [Services -> {"none", "sdt", "sdt_other"}]
  BY ZenonT(30) DEF FindTables, Assign, KeptSdt, TypeInv, TypeOK
<1>4. /\ phase = "tables" /\ svc \in Services /\ active_services = 0
      /\ UNCHANGED <<pmt_pid, synced, active_services>>
  BY DEF FindTables, TypeInv, TypeOK, Counted
<1>5. svc' \in Services /\ phase' \in {"pat", "tables", "wait"}
  <2>1. CASE NextTurn("pat", "wait")
    BY <1>4, <2>1, TurnTypes
  <2>2. CASE UNCHANGED <<phase, svc>>
    BY <1>4, <2>2
  <2> QED BY <2>1, <2>2 DEF FindTables
<1>6. Counted'
  <2>1. active_services' = 0 /\ NServices \in Nat /\ svc' \in 0..NServices - 1
    BY <1>4, <1>5, StreamsAssumption DEF Services
  <2>2. 0 <= NServices - 1 + svc'
    <3> DEFINE k == svc'
    <3>1. k \in 0..NServices - 1 /\ NServices \in Nat
      BY <2>1
    <3> HIDE DEF k
    <3>2. 0 <= NServices - 1 + k
      BY <3>1
    <3> QED BY <3>2 DEF k
  <2> QED BY <2>1, <2>2 DEF Counted
<1> QED BY <1>1, <1>2, <1>3, <1>4, <1>5, <1>6, ReadType DEF TypeInv, TypeOK

LEMMA PollType ==
  ASSUME TypeInv, Poll
  PROVE  TypeInv'
<1>1. /\ phase = "wait" /\ svc \in 0..NServices - 1 /\ NServices \in Nat
      /\ status[svc] \in {0, 1} /\ active_services \in Nat
      /\ active_services <= NServices - 1 + svc
      /\ active_services' = active_services + status[svc]
      /\ UNCHANGED <<curlVars, tables>>
  BY StreamsAssumption DEF Poll, TypeInv, TypeOK, Counted, Services
<1>2. active_services' \in 0..2 * NServices - 1
  BY <1>1
<1>3. CASE svc + 1 < NServices
  <2>1. phase' = "wait" /\ svc' = svc + 1
    BY <1>3 DEF Poll, NextTurn
  <2>2. svc' \in Services /\ Counted'
    BY <1>1, <1>3, <2>1 DEF Services, Counted
  <2> QED BY <1>1, <1>2, <2>1, <2>2
          DEF curlVars, tables, TypeInv, TypeOK
<1>4. CASE ~(svc + 1 < NServices)
  <2>1. svc' = 0 /\ phase' = IF active_services' >= NServices THEN "sync" ELSE "wait"
    BY <1>4 DEF Poll, NextTurn
  <2>2. svc' \in Services /\ Counted' /\ phase' \in {"wait", "sync"}
    BY <1>1, <1>2, <2>1 DEF Services, Counted
  <2> QED BY <1>1, <1>2, <2>2
          DEF curlVars, tables, TypeInv, TypeOK
<1> QED BY <1>3, <1>4

LEMMA SyncType ==
  ASSUME TypeInv, NEW packet \in Kinds, Sync(packet)
  PROVE  TypeInv'
<1>1. Read(packet)
  BY DEF Sync
<1>2. /\ pmt' \in [Services -> {"none", "pmt"}]
      /\ sdt' \in [Services -> {"none", "sdt", "sdt_other"}]
      /\ synced' \in [Services -> BOOLEAN]
  BY DEF Sync, Assign, TypeInv, TypeOK
<1>3. phase = "sync" /\ svc \in Services /\ UNCHANGED <<pmt_pid, name, active_services>>
  BY DEF Sync, TypeInv, TypeOK
<1>4. svc' \in Services /\ phase' \in {"sync", "loop"}
  <2>1. CASE NextTurn("sync", "loop")
    BY <1>3, <2>1, TurnTypes
  <2>2. CASE UNCHANGED <<phase, svc>>
    BY <1>3, <2>2
  <2> QED BY <2>1, <2>2 DEF Sync
<1>5. Counted'
  BY <1>4 DEF Counted
<1> QED BY <1>1, <1>2, <1>3, <1>4, <1>5, ReadType DEF TypeInv, TypeOK

LEMMA StepType == TypeInv /\ [Next]_vars => TypeInv'
<1> SUFFICES ASSUME TypeInv, [Next]_vars PROVE TypeInv'
  OBVIOUS
<1>1. CASE Next
  <2>1. CASE \E s \in Services : Curl(s)
    BY <2>1, CurlWriteType, CurlStatusType DEF Curl
  <2>2. CASE Mux
    BY <2>2, FindPatType, FindTablesType, SyncType, PollType DEF Mux
  <2> QED BY <1>1, <2>1, <2>2 DEF Next
<1>2. CASE UNCHANGED vars
  BY <1>2 DEF vars, curlVars, muxVars, tables, TypeInv, TypeOK, Counted
<1> QED BY <1>1, <1>2

\* Every variable keeps its type, no input buffer takes more than it holds, and
\* the sum of the services' status stays below twice their number, although the
\* wait adds it up anew in every round without starting from 0.
THEOREM TypeCorrect == Spec => []TypeOK
<1>1. TypeInv => TypeOK
  BY DEF TypeInv
<1> QED BY <1>1, InitType, StepType, PTL DEF Spec
=============================================================================
