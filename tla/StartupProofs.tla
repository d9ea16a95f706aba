--------------------------- MODULE StartupProofs ---------------------------
(***************************************************************************)
(* The configuration, the capacity, and the tables and events of the       *)
(* output, for every configuration file, any streams and any event.        *)
(*                                                                         *)
(* The fold over an object's entries is shown to be a loop (ParseLoop):    *)
(* that such a function on sets exists follows from a least number of      *)
(* entries for which it would not.  A least number of rounds after which a *)
(* parameter would be wrong then gives what the loop computes              *)
(* (ParsedParams).  Rated carries the parameters' types from the file to   *)
(* the capacity, where the truncations are a matter of inequalities that   *)
(* are linear for each pair of fractions.  Inv says where every service of *)
(* the output comes from; with the lemmas of TableProofs that gives the    *)
(* tables made of them.                                                    *)
(***************************************************************************)
EXTENDS Startup, TableProofs

-----------------------------------------------------------------------------
(* The fold over a JSON object's entries as the run of a loop.             *)

\* One round of parse_mux_params.
Taken(m, e) == IF e.key \in DOMAIN m THEN [m EXCEPT ![e.key] = Stored(e)] ELSE m

\* The place a fold takes last.
Top(s) == CHOOSE x \in s : \A y \in s : x >= y

\* What a fold is defined by: its value for every set of places.
IsFold(f, mux, es, n) ==
  f = [s \in SUBSET (1..n) |->
         IF s = {} THEN mux ELSE Taken(f[s \ {Top(s)}], es[Top(s)])]

LEMMA TopIs ==
  ASSUME NEW k \in Nat, NEW s \in SUBSET (1..k), k \in s
  PROVE  Top(s) = k
<1>1. \A y \in s : k >= y
  OBVIOUS
<1>2. \A x \in s : (\A y \in s : x >= y) => x = k
  OBVIOUS
<1> QED BY <1>1, <1>2 DEF Top

LEMMA FoldExists ==
  ASSUME NEW mux, NEW es, NEW n \in Nat
  PROVE  \E f : IsFold(f, mux, es, n)
<1> DEFINE Bad == {k \in Nat : ~\E f : IsFold(f, mux, es, k)}
<1> SUFFICES ASSUME Bad # {} PROVE FALSE
  BY Zenon
<1>1. PICK k \in Bad : \A j \in Bad : k <= j
  <2> Bad \subseteq Nat OBVIOUS
  <2> HIDE DEF Bad
  <2> QED BY Least
<1>2. k \in Nat /\ ~\E f : IsFold(f, mux, es, k)
  OBVIOUS
<1>3. CASE k = 0
  <2> DEFINE f == [s \in SUBSET (1..0) |-> mux]
  <2>1. \A s \in SUBSET (1..0) : s = {}
    OBVIOUS
  <2>2. IsFold(f, mux, es, 0)
    BY <2>1, Zenon DEF IsFold
  <2> QED BY <1>2, <1>3, <2>2, Zenon
<1>4. CASE k > 0
  <2>1. k - 1 \in Nat /\ ~(k - 1 \in Bad)
    BY <1>1, <1>2, <1>4
  <2>2. PICK g : IsFold(g, mux, es, k - 1)
    BY <2>1, Zenon
  <2> DEFINE f == [s \in SUBSET (1..k) |->
                     IF k \in s THEN Taken(g[s \ {k}], es[k]) ELSE g[s]]
             T == SUBSET (1..k)
             U == SUBSET (1..k - 1)
  <2>3. \A s \in U : /\ s \in T /\ k \notin s
                     /\ g[s] = IF s = {} THEN mux ELSE Taken(g[s \ {Top(s)}], es[Top(s)])
    <3>1. \A s \in U : g[s] = IF s = {} THEN mux ELSE Taken(g[s \ {Top(s)}], es[Top(s)])
      BY <2>2, Zenon DEF IsFold
    <3>2. \A s \in U : s \in T /\ k \notin s
      BY <1>2, <1>4
    <3> QED BY <3>1, <3>2
  <2>4. \A s \in U : f[s] = g[s]
    BY <2>3, Zenon
  <2>5. ASSUME NEW s \in T
        PROVE  f[s] = IF s = {} THEN mux ELSE Taken(f[s \ {Top(s)}], es[Top(s)])
    <3>1. CASE k \in s
      <4>1. Top(s) = k /\ s # {}
        BY <1>2, <3>1, TopIs
      <4>2. s \ {k} \in U
        BY <1>2, <1>4
      <4>3. f[s \ {k}] = g[s \ {k}]
        BY <2>4, <4>2, Zenon
      <4>4. f[s] = Taken(g[s \ {k}], es[k])
        BY <3>1, Zenon
      <4> HIDE DEF f
      <4> QED BY <4>1, <4>3, <4>4, Zenon
    <3>2. CASE k \notin s
      <4>1. s \in U
        BY <1>2, <1>4, <3>2
      <4>2. s # {} => s \ {Top(s)} \in U
        BY <4>1
      <4> HIDE DEF f
      <4> QED BY <2>3, <2>4, <4>1, <4>2, Zenon
    <3> QED BY <3>1, <3>2
  <2>6. IsFold(f, mux, es, k)
    BY <2>5, Zenon DEF IsFold
  <2> QED BY <1>2, <2>6, Zenon
<1> QED BY <1>2, <1>3, <1>4

\* parse_mux_params is a loop over the entries: it starts from what it is given
\* and takes one after the other.
LEMMA ParseLoop ==
  ASSUME NEW mux, NEW json, NEW n \in Nat, DOMAIN json.entries = 1..n
  PROVE  \E m : /\ m[0] = mux
                /\ \A k \in 1..n : m[k] = Taken(m[k - 1], json.entries[k])
                /\ ParseMuxParams(mux, json) = m[n]
<1> DEFINE es == json.entries
           F == CHOOSE f : IsFold(f, mux, es, n)
           m == [k \in 0..n |-> F[1..k]]
<1>1. ParseMuxParams(mux, json) = F[DOMAIN es]
  BY Zenon DEF ParseMuxParams, FoldLeft, MapThenFoldSet, Max, Top, Taken, IsFold
<1>2. IsFold(F, mux, es, n)
  BY FoldExists, Zenon
<1>3. \A s \in SUBSET (1..n) :
        F[s] = IF s = {} THEN mux ELSE Taken(F[s \ {Top(s)}], es[Top(s)])
  <2> HIDE DEF F
  <2> QED BY <1>2, Zenon DEF IsFold
<1> HIDE DEF F
<1>4. m[0] = mux
  <2>1. 1..0 = {} /\ {} \in SUBSET (1..n) /\ 0 \in 0..n
    OBVIOUS
  <2> QED BY <1>3, <2>1, Zenon
<1>5. ASSUME NEW k \in 1..n PROVE m[k] = Taken(m[k - 1], es[k])
  <2>1. /\ k \in Nat /\ k - 1 \in 0..n /\ k \in 0..n /\ k \in 1..k
    OBVIOUS
  <2>6. 1..k # {}
    BY <2>1, Zenon
  <2>4. 1..k \in SUBSET (1..n) /\ 1..k \in SUBSET (1..k)
    OBVIOUS
  <2>5. (1..k) \ {k} = 1..k - 1
    OBVIOUS
  <2>2. Top(1..k) = k
    BY <2>1, <2>4, TopIs
  <2>3. F[1..k] = Taken(F[1..k - 1], es[k])
    BY <1>3, <2>2, <2>4, <2>5, <2>6, Zenon
  <2> QED BY <2>1, <2>3, Zenon
<1>6. ParseMuxParams(mux, json) = m[n]
  BY <1>1
<1> QED BY <1>4, <1>5, <1>6, Zenon

\* What parse_mux_params does to a parameter: the last entry of that name counts.
Settled(json, mux, key, value) ==
  \/ Places(json, key) = {} /\ value = mux[key]
  \/ \E i \in Places(json, key) :
       (\A j \in Places(json, key) : j <= i) /\ value = Stored(json.entries[i])

LEMMA ParsedParams ==
  ASSUME NEW mux, NEW json, IsList(json.entries)
  PROVE  /\ DOMAIN ParseMuxParams(mux, json) = DOMAIN mux
         /\ \A key \in DOMAIN mux :
              Settled(json, mux, key, ParseMuxParams(mux, json)[key])
<1> DEFINE es == json.entries
           n == Len(es)
<1>1. n \in Nat /\ DOMAIN es = 1..n
  BY LenProperties DEF IsList
<1>2. PICK m : /\ m[0] = mux
               /\ \A k \in 1..n : m[k] = Taken(m[k - 1], es[k])
               /\ ParseMuxParams(mux, json) = m[n]
  <2> HIDE DEF n
  <2> QED BY <1>1, ParseLoop
<1> HIDE DEF n
<1> DEFINE Upto(k, key) == {i \in 1..k : es[i].key = key}
           Good(k) == /\ DOMAIN m[k] = DOMAIN mux
                      /\ \A key \in DOMAIN mux :
                           \/ Upto(k, key) = {} /\ m[k][key] = mux[key]
                           \/ \E i \in Upto(k, key) :
                                (\A j \in Upto(k, key) : j <= i) /\ m[k][key] = Stored(es[i])
<1>3. Good(0)
  <2>1. \A key : Upto(0, key) = {}
    OBVIOUS
  <2> QED BY <1>2, <2>1, Zenon
<1>4. ASSUME NEW k \in 1..n, Good(k - 1) PROVE Good(k)
  <2>1. m[k] = Taken(m[k - 1], es[k]) /\ k \in Nat /\ k > 0
    BY <1>1, <1>2
  <2>2. \A key : Upto(k, key) = IF es[k].key = key THEN Upto(k - 1, key) \cup {k}
                                                 ELSE Upto(k - 1, key)
    BY <2>1
  <2>3. DOMAIN m[k] = DOMAIN mux
    BY <1>4, <2>1 DEF Taken
  <2>4. ASSUME NEW key \in DOMAIN mux
        PROVE  \/ Upto(k, key) = {} /\ m[k][key] = mux[key]
               \/ \E i \in Upto(k, key) :
                    (\A j \in Upto(k, key) : j <= i) /\ m[k][key] = Stored(es[i])
    <3>1. CASE es[k].key = key
      <4>1. m[k][key] = Stored(es[k])
        BY <1>4, <2>1, <3>1 DEF Taken
      <4>2. k \in Upto(k, key) /\ \A j \in Upto(k, key) : j <= k
        BY <2>1, <3>1
      <4> QED BY <4>1, <4>2, Zenon
    <3>2. CASE es[k].key # key
      <4>1. m[k][key] = m[k - 1][key]
        BY <1>4, <2>1, <3>2 DEF Taken
      <4>2. Upto(k, key) = Upto(k - 1, key)
        BY <2>2, <3>2
      <4> HIDE DEF Upto
      <4> QED BY <1>4, <4>1, <4>2
    <3> QED BY <3>1, <3>2
  <2> QED BY <2>3, <2>4, Zenon
<1>5. Good(n)
  <2> DEFINE Bad == {k \in 0..n : ~Good(k)}
  <2> HIDE DEF Good
  <2> SUFFICES ASSUME Bad # {} PROVE FALSE
    BY <1>1
  <2>1. PICK k \in Bad : \A j \in Bad : k <= j
    <3> Bad \subseteq Nat BY <1>1
    <3> HIDE DEF Bad
    <3> QED BY Least
  <2>2. k \in 0..n /\ ~Good(k) /\ k # 0
    BY <1>3
  <2>3. k \in 1..n /\ k - 1 \in 0..n /\ ~(k - 1 \in Bad)
    BY <1>1, <2>1, <2>2
  <2>4. Good(k - 1)
    BY <2>3
  <2> QED BY <1>4, <2>2, <2>3, <2>4
<1>6. \A key : Upto(n, key) = Places(json, key)
  BY <1>1 DEF Places
<1>7. \A key \in DOMAIN mux : Settled(json, mux, key, m[n][key])
  <2> TAKE key \in DOMAIN mux
  <2>1. Upto(n, key) = Places(json, key)
    BY <1>6
  <2>2. \/ Upto(n, key) = {} /\ m[n][key] = mux[key]
        \/ \E i \in Upto(n, key) :
             (\A j \in Upto(n, key) : j <= i) /\ m[n][key] = Stored(es[i])
    BY <1>5
  <2> HIDE DEF Upto
  <2> QED BY <2>1, <2>2 DEF Settled
<1>8. DOMAIN m[n] = DOMAIN mux
  BY <1>5
<1> QED BY <1>2, <1>7, <1>8

-----------------------------------------------------------------------------
(* The parameters of a mux.                                                *)

\* Fields of enumerated strings have one of these or calloc's value, and the
\* bandwidth has 16 bits.
Sound(p) ==
  /\ DOMAIN p = DOMAIN NoParams
  /\ \A key \in DOMAIN Enumerated : p[key] \in Enumerated[key] \cup {NoParams[key]}
  /\ IsU16(p["bandwidth_hz"])

LEMMA Keys ==
  /\ DOMAIN Enumerated \subseteq DOMAIN NoParams
  /\ "bandwidth_hz" \in DOMAIN NoParams /\ "bandwidth_hz" \notin DOMAIN Enumerated
BY DEF Enumerated, NoParams

\* 16 bits hold the remainder of every number, and every number of 16 bits.
LEMMA U16Fits == ASSUME NEW n \in Int PROVE IsU16(n % 65536)
BY DEF IsU16

LEMMA U16Kept == ASSUME NEW n, IsU16(n) PROVE n % 65536 = n
BY DEF IsU16

LEMMA NoParamsSound == Sound(NoParams)
BY DEF Sound, Enumerated, NoParams, IsU16

LEMMA ParseSound ==
  ASSUME NEW mux, NEW json, Sound(mux), IsObject(json), ParamsValid(json)
  PROVE  Sound(ParseMuxParams(mux, json))
<1> DEFINE p == ParseMuxParams(mux, json)
<1>1. DOMAIN p = DOMAIN NoParams
  BY ParsedParams DEF IsObject, Sound
<1>2. \A key \in DOMAIN NoParams : Settled(json, mux, key, p[key])
  BY ParsedParams DEF IsObject, Sound
<1> HIDE DEF p
<1>3. ASSUME NEW key \in DOMAIN Enumerated
      PROVE  p[key] \in Enumerated[key] \cup {NoParams[key]}
  <2>1. Settled(json, mux, key, p[key])
    BY <1>2, Keys
  <2>2. CASE p[key] = mux[key]
    BY <2>2 DEF Sound
  <2>3. ASSUME NEW i \in Places(json, key), p[key] = Stored(json.entries[i])
        PROVE  p[key] \in Enumerated[key]
    <3>1. i \in DOMAIN json.entries /\ json.entries[i].key = key
      BY DEF Places
    <3>2. json.entries[i].value \in Enumerated[key]
      BY <3>1 DEF ParamsValid
    <3>3. Stored(json.entries[i]) = json.entries[i].value
      BY <3>1, Keys DEF Stored
    <3> QED BY <2>3, <3>2, <3>3
  <2> QED BY <2>1, <2>2, <2>3 DEF Settled
<1>4. IsU16(p["bandwidth_hz"])
  <2> DEFINE key == "bandwidth_hz"
  <2>1. Settled(json, mux, key, p[key])
    BY <1>2, Keys
  <2>2. CASE p[key] = mux[key]
    BY <2>2 DEF Sound
  <2>3. ASSUME NEW i \in Places(json, key), p[key] = Stored(json.entries[i])
        PROVE  IsU16(p[key])
    <3>1. i \in DOMAIN json.entries /\ json.entries[i].key = key
      BY DEF Places
    <3>2. json.entries[i].value \in Int
      BY <3>1 DEF IsObject
    <3>3. Stored(json.entries[i]) = json.entries[i].value % 65536
      BY <3>1 DEF Stored
    <3> QED BY <2>3, <3>2, <3>3, U16Fits
  <2> QED BY <2>1, <2>2, <2>3 DEF Settled
<1> QED BY <1>1, <1>3, <1>4 DEF Sound, p

\* The parameters of every mux of an accepted file.
LEMMA MuxSound ==
  ASSUME NEW f \in DOMAIN Files, ConfigValid(Files[f]),
         NEW j \in DOMAIN Files[f].muxes[1].values
  PROVE  /\ Sound(Defaults(Files[f], j))
         /\ Muxes(Files[f])[j].params
              = ParseMuxParams(Defaults(Files[f], j), Files[f].muxes[1].values[j])
         /\ Sound(Muxes(Files[f])[j].params)
<1>1. Sound(Defaults(Files[f], j))
  <2>1. CASE Files[f].common = << >>
    BY <2>1, NoParamsSound DEF Defaults
  <2>2. CASE Files[f].common # << >>
    <3>1. IsObject(Files[f].common[1]) /\ ParamsValid(Files[f].common[1])
      BY <2>2, InputAssumption, ZenonT(30) DEF ConfigValid
    <3>2. Sound(ParseMuxParams(NoParams, Files[f].common[1]))
      BY <3>1, NoParamsSound, ParseSound
    <3> QED BY <2>2, <3>2 DEF Defaults
  <2> QED BY <2>1, <2>2
<1>2. Muxes(Files[f])[j].params
        = ParseMuxParams(Defaults(Files[f], j), Files[f].muxes[1].values[j])
  BY ZenonT(30) DEF Muxes
<1>3. IsObject(Files[f].muxes[1].values[j]) /\ ParamsValid(Files[f].muxes[1].values[j])
  BY InputAssumption, ZenonT(30) DEF ConfigValid
<1> QED BY <1>1, <1>2, <1>3, ParseSound

\* What an entry stores is its value, unless 16 bits are too few.
LEMMA StoredMeant ==
  ASSUME NEW json, IsObject(json), NEW key, NEW i \in Places(json, key),
         key = "bandwidth_hz" => IsU16(json.entries[i].value)
  PROVE  Stored(json.entries[i]) = json.entries[i].value
<1>1. i \in DOMAIN json.entries /\ json.entries[i].key = key
  BY DEF Places
<1>2. CASE key = "bandwidth_hz"
  BY <1>1, <1>2, U16Kept DEF Stored
<1>3. CASE key # "bandwidth_hz"
  BY <1>1, <1>3 DEF Stored
<1> QED BY <1>2, <1>3

LEMMA LastEntry ==
  ASSUME NEW json, IsList(json.entries), NEW key, NEW i \in Places(json, key),
         \A j \in Places(json, key) : j <= i
  PROVE  Max(Places(json, key)) = i
<1>1. Places(json, key) \subseteq Nat
  <2>1. DOMAIN json.entries = 1..Len(json.entries) /\ Len(json.entries) \in Nat
    BY LenProperties DEF IsList
  <2> QED BY <2>1 DEF Places
<1>2. \A x \in Places(json, key) : (\A y \in Places(json, key) : x >= y) => x = i
  BY <1>1
<1>3. \A y \in Places(json, key) : i >= y
  BY <1>1
<1> QED BY <1>2, <1>3 DEF Max

\* A parameter's value is that of the last entry of its name, if it has one.
LEMMA ParsedParam ==
  ASSUME NEW mux, NEW json, IsObject(json), NEW key \in DOMAIN mux
  PROVE  /\ Places(json, key) = {} => ParseMuxParams(mux, json)[key] = mux[key]
         /\ Places(json, key) # {} =>
              /\ Max(Places(json, key)) \in Places(json, key)
              /\ ParseMuxParams(mux, json)[key]
                   = Stored(json.entries[Max(Places(json, key))])
<1>1. IsList(json.entries)
  BY DEF IsObject
<1>2. Settled(json, mux, key, ParseMuxParams(mux, json)[key])
  BY <1>1, ParsedParams
<1>3. CASE Places(json, key) = {}
  BY <1>2, <1>3, Zenon DEF Settled
<1>4. CASE Places(json, key) # {}
  <2>1. PICK i \in Places(json, key) :
           /\ \A k \in Places(json, key) : k <= i
           /\ ParseMuxParams(mux, json)[key] = Stored(json.entries[i])
    BY <1>2, <1>4, Zenon DEF Settled
  <2>2. Max(Places(json, key)) = i
    BY <1>1, <2>1, LastEntry
  <2> QED BY <1>4, <2>1, <2>2, Zenon
<1> QED BY <1>3, <1>4

LEMMA ParamMeant ==
  ASSUME NEW f \in DOMAIN Files, ConfigValid(Files[f]),
         NEW j \in DOMAIN Files[f].muxes[1].values, NEW key \in DOMAIN NoParams,
         key = "bandwidth_hz" => IsU16(Meant(Files[f], j, key))
  PROVE  Muxes(Files[f])[j].params[key] = Meant(Files[f], j, key)
<1>1. PICK own : own = Files[f].muxes[1].values[j]
  OBVIOUS
<1>2. PICK d : d = Defaults(Files[f], j)
  OBVIOUS
<1>3. /\ Muxes(Files[f])[j].params[key] = ParseMuxParams(d, own)[key]
      /\ DOMAIN d = DOMAIN NoParams
  BY <1>1, <1>2, MuxSound DEF Sound
<1>4. IsObject(own)
  BY <1>1, InputAssumption
<1>5. CASE Places(own, key) # {}
  <2>1. /\ Max(Places(own, key)) \in Places(own, key)
        /\ ParseMuxParams(d, own)[key] = Stored(own.entries[Max(Places(own, key))])
    BY <1>3, <1>4, <1>5, ParsedParam
  <2>2. Meant(Files[f], j, key) = own.entries[Max(Places(own, key))].value
    BY <1>1, <1>5, Zenon DEF Meant
  <2>3. Stored(own.entries[Max(Places(own, key))]) = own.entries[Max(Places(own, key))].value
    BY <1>4, <2>1, <2>2, StoredMeant
  <2> QED BY <1>3, <2>1, <2>2, <2>3
<1>6. CASE Places(own, key) = {} /\ Files[f].common = << >>
  <2>1. Places([entries |-> << >>], key) = {}
    BY DEF Places
  <2>2. Meant(Files[f], j, key) = NoParams[key] /\ d = NoParams
    BY <1>1, <1>2, <1>6, <2>1, Zenon DEF Meant, Defaults
  <2>3. ParseMuxParams(d, own)[key] = d[key]
    BY <1>3, <1>4, <1>6, ParsedParam
  <2> QED BY <1>3, <2>2, <2>3
<1>7. CASE Places(own, key) = {} /\ Files[f].common # << >>
  <2>1. PICK common : common = Files[f].common[1]
    OBVIOUS
  <2>2. IsObject(common) /\ d = ParseMuxParams(NoParams, common)
    BY <1>2, <1>7, <2>1, InputAssumption DEF Defaults
  <2>3. ParseMuxParams(d, own)[key] = d[key]
    BY <1>3, <1>4, <1>7, ParsedParam
  <2>4. CASE Places(common, key) = {}
    <3>1. d[key] = NoParams[key]
      BY <2>2, <2>4, ParsedParam
    <3>2. Meant(Files[f], j, key) = NoParams[key]
      BY <1>1, <1>7, <2>1, <2>4, Zenon DEF Meant
    <3> QED BY <1>3, <2>3, <3>1, <3>2
  <2>5. CASE Places(common, key) # {}
    <3>1. /\ Max(Places(common, key)) \in Places(common, key)
          /\ d[key] = Stored(common.entries[Max(Places(common, key))])
      BY <2>2, <2>5, ParsedParam
    <3>2. Meant(Files[f], j, key) = common.entries[Max(Places(common, key))].value
      BY <1>1, <1>7, <2>1, <2>5, Zenon DEF Meant
    <3>3. Stored(common.entries[Max(Places(common, key))])
            = common.entries[Max(Places(common, key))].value
      BY <2>2, <3>1, <3>2, StoredMeant
    <3> QED BY <1>3, <2>3, <3>1, <3>2, <3>3
  <2> QED BY <2>4, <2>5
<1> QED BY <1>5, <1>6, <1>7

-----------------------------------------------------------------------------
(* The program's.                                                          *)

\* The file the program has read is one of them.
FileKnown == file \in 0..Len(Files)

LEMMA FileInvariant == Spec => []FileKnown
<1>0. Len(Files) \in Nat /\ DOMAIN Files = 1..Len(Files)
  BY InputAssumption, LenProperties, ZenonT(30) DEF IsList
<1>1. Init => FileKnown
  BY <1>0 DEF Init, FileKnown
<1>2. FileKnown /\ [Next]_vars => FileKnown'
  <2> SUFFICES ASSUME FileKnown, [Next]_vars PROVE FileKnown'
    OBVIOUS
  <2>1. ASSUME NEW f \in DOMAIN Files, Configure(f) PROVE FileKnown'
    BY <1>0, <2>1 DEF FileKnown, Configure
  <2>2. CASE UNCHANGED file
    BY <2>2 DEF FileKnown
  <2>3. ASSUME NEW pmt, NEW section, Sync(pmt, section) PROVE UNCHANGED file
    BY <2>3 DEF Sync
  <2> QED BY <2>1, <2>2, <2>3
          DEF Next, CalcCapacity, InitService, CreateTables, WriteTables, PassEvent, vars
<1> QED BY <1>1, <1>2, PTL DEF Spec

\* parse_config gives every mux the parameters its file means, whatever entries
\* come twice, are unknown or are missing, and nothing of another mux.
THEOREM ParamsAsMeant == Spec => []ConfigMeans
<1>1. FileKnown => ConfigMeans
  <2>1. FileKnown /\ Configured => file \in DOMAIN Files /\ ConfigValid(Files[file])
    BY InputAssumption, LenProperties, SMTT(30) DEF FileKnown, Configured, IsList
  <2> QED BY <2>1, ParamMeant DEF ConfigMeans
<1> QED BY <1>1, FileInvariant, PTL

-----------------------------------------------------------------------------
(* The capacity.                                                           *)

\* A quotient of natural numbers, in multiples of the divisor.
LEMMA Quotient ==
  ASSUME NEW x \in Nat, NEW d \in Nat, d > 0
  PROVE  /\ x \div d \in Nat /\ x % d \in Nat
         /\ d * (x \div d) <= x /\ x < d * (x \div d) + d
         /\ x = d * (x \div d) + (x % d)
<1>1. PICK q \in Int, r \in 0..d - 1 : q = x \div d /\ r = x % d /\ x = d * q + r
  BY DivMod
<1>2. q >= 0
  <2> SUFFICES ASSUME q <= -1 PROVE FALSE
    OBVIOUS
  <2>1. d * q <= d * (-1)
    OBVIOUS
  <2> QED BY <1>1, <2>1
<1>3. q \in Nat /\ r \in Nat /\ d * q <= x /\ x < d * q + d
  <2>1. d * q \in Int
    OBVIOUS
  <2> QED BY <1>1, <1>2, <2>1
<1> QED BY <1>1, <1>3

\* A quotient to the thousandth, as the standard's rate is written.
InThousandths(a, b) == (a \div b) * 1000 + ((a % b) * 1000) \div b

Between(a, b, k) == k \in Nat /\ b * k <= a * 1000 /\ a * 1000 < b * k + b

LEMMA Thousandths ==
  ASSUME NEW a \in Nat, NEW b \in Nat, b > 0
  PROVE  Between(a, b, InThousandths(a, b))
<1> DEFINE k == InThousandths(a, b)
<1>1. PICK q \in Nat, r \in Nat : q = a \div b /\ r = a % b /\ a = b * q + r
  BY Quotient
<1>2. PICK t \in Nat : t = (r * 1000) \div b /\ b * t <= r * 1000 /\ r * 1000 < b * t + b
  BY <1>1, Quotient
<1>3. k = q * 1000 + t
  BY <1>1, <1>2 DEF InThousandths
<1> HIDE DEF k
<1>4. b * k = (b * q) * 1000 + b * t
  BY <1>3
<1>5. b * q \in Nat /\ b * t \in Nat
  OBVIOUS
<1>6. b * k <= a * 1000 /\ a * 1000 < b * k + b
  <2> DEFINE bq == b * q
             bt == b * t
             bk == b * k
  <2>1. /\ bk = bq * 1000 + bt /\ a = bq + r /\ bt <= r * 1000 /\ r * 1000 < bt + b
        /\ bq \in Nat /\ bt \in Nat
    BY <1>1, <1>2, <1>4, <1>5
  <2> HIDE DEF bq, bt, bk
  <2>2. bk <= a * 1000 /\ a * 1000 < bk + b
    BY <2>1
  <2> QED BY <2>2 DEF bk
<1>7. k \in Nat
  BY <1>3
<1>8. Between(a, b, k)
  BY <1>6, <1>7 DEF Between
<1> QED BY <1>8 DEF k

\* The fractions of the guard interval and of the code rate.
IsFraction(f1, f2) ==
  \/ (f1 = 32 /\ f2 = 33) \/ (f1 = 16 /\ f2 = 17)
  \/ (f1 = 8 /\ f2 = 9) \/ (f1 = 4 /\ f2 = 5)

IsRate(r1, r2) ==
  \/ (r1 = 1 /\ r2 = 2) \/ (r1 = 2 /\ r2 = 3) \/ (r1 = 3 /\ r2 = 4)
  \/ (r1 = 5 /\ r2 = 6) \/ (r1 = 7 /\ r2 = 8)

LEMMA Fractions ==
  /\ Fraction["1/32"] = <<32, 33>> /\ Fraction["1/16"] = <<16, 17>>
  /\ Fraction["1/8"] = <<8, 9>> /\ Fraction["1/4"] = <<4, 5>>
BY DEF Fraction

LEMMA Rates ==
  /\ Rate["1/2"] = <<1, 2>> /\ Rate["2/3"] = <<2, 3>> /\ Rate["3/4"] = <<3, 4>>
  /\ Rate["5/6"] = <<5, 6>> /\ Rate["7/8"] = <<7, 8>>
BY DEF Rate

\* The constants of the modulation.
LEMMA Modulation ==
  ASSUME NEW p, Sound(p), CapacityKnown(p)
  PROVE  /\ BitsPerCarrier[p.constellation] \in {2, 4, 6}
         /\ \E f1, f2 \in Nat : Fraction[p.guard_interval] = <<f1, f2>> /\ IsFraction(f1, f2)
         /\ \E r1, r2 \in Nat : Rate[p.code_rate_HP] = <<r1, r2>> /\ IsRate(r1, r2)
<1>1. p.constellation \in {"QPSK", "QAM_16", "QAM_64"}
  BY DEF Sound, Enumerated, NoParams
<1>2. p.guard_interval \in {"1/4", "1/8", "1/16", "1/32"}
  BY DEF Sound, Enumerated, NoParams
<1>3. p.code_rate_HP \in {"1/2", "2/3", "3/4", "5/6", "7/8"}
  BY DEF CapacityKnown, Rate
<1>4. BitsPerCarrier[p.constellation] \in {2, 4, 6}
  BY <1>1 DEF BitsPerCarrier
<1>5. \E f1, f2 \in Nat : Fraction[p.guard_interval] = <<f1, f2>> /\ IsFraction(f1, f2)
  BY <1>2, Fractions DEF IsFraction
<1>6. \E r1, r2 \in Nat : Rate[p.code_rate_HP] = <<r1, r2>> /\ IsRate(r1, r2)
  BY <1>3, Rates DEF IsRate
<1> QED BY <1>4, <1>5, <1>6

\* The four truncations of calc_channel_capacity against the standard's rate k in
\* kbit/s, for y bits per symbol and MHz.
LEMMA RateMet ==
  ASSUME Sound(params), CapacityKnown(params), params.bandwidth_hz % 1000 = 0
  PROVE  ChannelCapacity(params) - StandardKbps * 1000 \in -425..999
<1>1. PICK f1, f2 \in Nat :
         Fraction[params.guard_interval] = <<f1, f2>> /\ IsFraction(f1, f2)
  BY Modulation
<1>2. PICK r1, r2 \in Nat :
         Rate[params.code_rate_HP] = <<r1, r2>> /\ IsRate(r1, r2)
  BY Modulation
<1>3. PICK bits : bits = BitsPerCarrier[params.constellation] /\ bits \in {2, 4, 6}
  BY Modulation
<1>4. PICK m \in Nat : params.bandwidth_hz = 1000 * m /\ params.bandwidth_hz \div 1000 = m
  <2>1. params.bandwidth_hz \in Nat
    BY DEF Sound, IsU16
  <2> QED BY <2>1
<1>5. PICK y \in Nat : y = m * bits
  BY <1>3
<1>6. f2 > 0 /\ r2 > 0
  BY <1>1, <1>2 DEF IsFraction, IsRate
<1>7. PICK q1 \in Nat : /\ q1 = ((y * 1000000) * f1) \div f2
                        /\ f2 * q1 <= (y * 1000000) * f1
                        /\ (y * 1000000) * f1 < f2 * q1 + f2
  <2>1. PICK x \in Nat : x = (y * 1000000) * f1
    BY SMT
  <2> QED BY <1>6, <2>1, Quotient, SMT
<1>8. PICK q2 \in Nat : /\ q2 = (q1 * r1) \div r2
                        /\ r2 * q2 <= q1 * r1 /\ q1 * r1 < r2 * q2 + r2
  <2>1. PICK x \in Nat : x = q1 * r1
    OBVIOUS
  <2> QED BY <1>6, <2>1, Quotient
<1>9. PICK q3 \in Nat : q3 = q2 \div 544 /\ 544 * q3 <= q2 /\ q2 < 544 * q3 + 544
  BY SMT
<1>10. ChannelCapacity(params) = q3 * 423
  <2>1. Bandwidth(params) * BitsPerCarrier[params.constellation] = y * 1000000
    BY <1>3, <1>4, <1>5, SMT DEF Bandwidth
  <2>2. Times(y * 1000000, Fraction[params.guard_interval]) = q1
    BY <1>1, <1>7, SMT DEF Times
  <2>3. Times(q1, Rate[params.code_rate_HP]) = q2
    BY <1>2, <1>8 DEF Times
  <2> QED BY <1>9, <2>1, <2>2, <2>3, SMT DEF ChannelCapacity
<1>11. PICK a \in Nat : a = ((y * 5076) * f1) * r1
  BY SMT
<1>12. PICK b \in Nat : b = (6528 * f2) * r2 /\ b > 0
  BY <1>6, SMT
<1>13. PICK k : k = InThousandths(a, b)
  OBVIOUS
<1>14. StandardKbps = k
  <2>1. /\ Fraction[params.guard_interval][1] = f1 /\ Fraction[params.guard_interval][2] = f2
        /\ Rate[params.code_rate_HP][1] = r1 /\ Rate[params.code_rate_HP][2] = r2
    BY <1>1, <1>2
  <2>2. ((m * 27) * 188) * bits = y * 5076
    BY <1>3, <1>5, SMT
  <2>3. (((((params.bandwidth_hz \div 1000) * 27) * 188)
            * BitsPerCarrier[params.constellation])
           * Fraction[params.guard_interval][1]) * Rate[params.code_rate_HP][1] = a
    BY <1>3, <1>4, <1>11, <2>1, <2>2, SMT
  <2>4. ((32 * 204) * Fraction[params.guard_interval][2]) * Rate[params.code_rate_HP][2] = b
    BY <1>12, <2>1, SMT
  <2>5. PICK a1 : a1 = (((((params.bandwidth_hz \div 1000) * 27) * 188)
            * BitsPerCarrier[params.constellation])
           * Fraction[params.guard_interval][1]) * Rate[params.code_rate_HP][1]
    OBVIOUS
  <2>6. PICK b1 : b1 = ((32 * 204) * Fraction[params.guard_interval][2]) * Rate[params.code_rate_HP][2]
    OBVIOUS
  <2>7. StandardKbps = (a1 \div b1) * 1000 + ((a1 % b1) * 1000) \div b1
    BY <2>5, <2>6, SMT DEF StandardKbps
  <2>8. a1 = a /\ b1 = b
    BY <2>3, <2>4, <2>5, <2>6, SMT
  <2> QED BY <1>13, <2>7, <2>8, SMT DEF InThousandths
<1>15. k \in Nat /\ b * k <= a * 1000 /\ a * 1000 < b * k + b
  <2>1. a \in Nat /\ b \in Nat /\ b > 0
    BY <1>11, <1>12, SMT
  <2>2. Between(a, b, k)
    BY <1>13, <2>1, Thousandths, ZenonT(60)
  <2> QED BY <2>2, SMT DEF Between
<1>16. 423 * q3 - k * 1000 >= -425 /\ 423 * q3 - k * 1000 <= 999
  <2>1. /\ ((6528 * f2) * r2) * k <= (((y * 5076) * f1) * r1) * 1000
        /\ (((y * 5076) * f1) * r1) * 1000 < ((6528 * f2) * r2) * k + ((6528 * f2) * r2)
    BY <1>11, <1>12, <1>15, SMT
  <2>2. k \in Int /\ q1 \in Int /\ q2 \in Int /\ q3 \in Int
    BY <1>15, SMT
  <2>3. /\ f2 * q1 <= (y * 1000000) * f1 /\ (y * 1000000) * f1 < f2 * q1 + f2
        /\ r2 * q2 <= q1 * r1 /\ q1 * r1 < r2 * q2 + r2
        /\ 544 * q3 <= q2 /\ q2 < 544 * q3 + 544
    BY <1>7, <1>8, <1>9, SMT
  <2>4. CASE f1 = 32 /\ f2 = 33
    BY <1>2, <2>1, <2>2, <2>3, <2>4, SMT DEF IsRate
  <2>5. CASE f1 = 16 /\ f2 = 17
    BY <1>2, <2>1, <2>2, <2>3, <2>5, SMT DEF IsRate
  <2>6. CASE f1 = 8 /\ f2 = 9
    BY <1>2, <2>1, <2>2, <2>3, <2>6, SMT DEF IsRate
  <2>7. CASE f1 = 4 /\ f2 = 5
    BY <1>2, <2>1, <2>2, <2>3, <2>7, SMT DEF IsRate
  <2> QED BY <1>1, <2>4, <2>5, <2>6, <2>7, SMT DEF IsFraction
<1> QED BY <1>10, <1>14, <1>15, <1>16, SMT

\* What process_sdt may do.
LEMMA SdtEnds ==
  ASSUME NEW st
  PROVE  ProcessSdt(Processed(st)) \in {"returns", "smashed", "exit"}
BY DEF ProcessSdt

\* The capacity is that of the parameters held, which are those of an accepted
\* file.
Rated ==
  /\ phase \in {"config", "capacity"} => capacity = 0
  /\ phase = "capacity" => Sound(params)
  /\ capacity # 0 => /\ Sound(params) /\ CapacityKnown(params)
                     /\ capacity = ChannelCapacity(params)

LEMMA ConfigureRated ==
  ASSUME Rated, NEW f \in DOMAIN Files, Configure(f)
  PROVE  Rated'
<1>1. phase = "config" /\ capacity = 0 /\ capacity' = 0
  BY DEF Configure, Rated
<1>2. CASE ConfigValid(Files[f]) /\ Len(Muxes(Files[f])) = 1
  <2>1. params' = Muxes(Files[f])[1].params
    BY <1>2 DEF Configure
  <2>2. PICK values : values = Files[f].muxes[1].values
    OBVIOUS
  <2>3. 1 \in DOMAIN values
    <3>1. DOMAIN values = 1..Len(values) /\ Len(values) \in Nat
      BY <1>2, <2>2, InputAssumption, LenProperties, ZenonT(30) DEF IsList
    <3>2. PICK ms : ms = Muxes(Files[f])
      OBVIOUS
    <3>3. /\ DOMAIN ms = 1..Len(values)
          /\ ms = [j \in 1..Len(values) |-> ms[j]]
      BY <2>2, <3>1, <3>2, ZenonT(30) DEF Muxes
    <3>4. Len(ms) = Len(values)
      BY <3>1, <3>3
    <3>5. Len(values) = 1
      BY <1>2, <3>2, <3>4
    <3> QED BY <3>1, <3>5
  <2>4. Sound(Muxes(Files[f])[1].params)
    BY <1>2, <2>2, <2>3, MuxSound
  <2>5. Sound(params)'
    BY <2>1, <2>4 DEF Sound
  <2> QED BY <1>1, <2>5 DEF Rated
<1>3. CASE ~(ConfigValid(Files[f]) /\ Len(Muxes(Files[f])) = 1)
  <2>1. phase' = "exit"
    BY <1>3 DEF Configure
  <2> QED BY <1>1, <2>1 DEF Rated
<1> QED BY <1>2, <1>3

LEMMA RatedStep == Rated /\ [Next]_vars => Rated'
<1> SUFFICES ASSUME Rated, [Next]_vars PROVE Rated'
  OBVIOUS
<1>1. ASSUME NEW f \in DOMAIN Files, Configure(f) PROVE Rated'
  BY <1>1, ConfigureRated
<1>2. CASE CalcCapacity
  <2>1. params' = params /\ phase = "capacity" /\ capacity = 0 /\ Sound(params)
    BY <1>2 DEF CalcCapacity, Rated
  <2>2. CASE CapacityKnown(params)
    <3>1. capacity' = ChannelCapacity(params) /\ phase' = "init"
      BY <1>2, <2>2 DEF CalcCapacity
    <3> QED BY <2>1, <2>2, <3>1 DEF Rated
  <2>3. CASE ~CapacityKnown(params)
    <3>1. capacity' = capacity /\ phase' = "exit"
      BY <1>2, <2>3 DEF CalcCapacity
    <3> QED BY <2>1, <3>1 DEF Rated
  <2> QED BY <2>2, <2>3
<1>3. ASSUME UNCHANGED <<params, capacity>>, phase' \notin {"config", "capacity"}
      PROVE  Rated'
  BY <1>3 DEF Rated
<1>4. ASSUME NEW st, InitService(st) PROVE Rated'
  BY <1>3, <1>4, SdtEnds DEF InitService, NextTurn
<1>5. ASSUME NEW pmt, NEW section, Sync(pmt, section) PROVE Rated'
  BY <1>3, <1>5 DEF Sync, NextTurn
<1>6. CASE CreateTables \/ WriteTables
  BY <1>3, <1>6 DEF CreateTables, WriteTables
<1>7. ASSUME NEW s, NEW e, PassEvent(s, e) PROVE Rated'
  BY <1>3, <1>7 DEF PassEvent
<1>8. CASE UNCHANGED vars
  BY <1>8 DEF vars, Rated
<1> QED BY <1>1, <1>2, <1>4, <1>5, <1>6, <1>7, <1>8 DEF Next

\* Whatever the truncations of calc_channel_capacity, the capacity is the
\* standard's useful bitrate to less than a kbit/s, for every accepted file whose
\* bandwidth is a whole number of MHz.
THEOREM CapacityAsStandard == Spec => []StandardRate
<1>1. Init => Rated
  BY DEF Init, Rated
<1>2. Rated => StandardRate
  <2> SUFFICES ASSUME Rated, capacity # 0, params.bandwidth_hz % 1000 = 0
               PROVE  capacity - StandardKbps * 1000 \in -425..999
    BY DEF StandardRate
  <2>1. /\ Sound(params) /\ CapacityKnown(params) /\ capacity = ChannelCapacity(params)
    BY DEF Rated
  <2>2. ChannelCapacity(params) - StandardKbps * 1000 \in -425..999
    BY <2>1, RateMet
  <2> QED BY <2>1, <2>2
<1> QED BY <1>1, <1>2, RatedStep, PTL DEF Spec


-----------------------------------------------------------------------------
(* The services.                                                           *)

\* An element of a list may be replaced.
LEMMA Replaced ==
  ASSUME NEW x, IsList(x), NEW i \in DOMAIN x, NEW e
  PROVE  /\ IsList([x EXCEPT ![i] = e]) /\ DOMAIN [x EXCEPT ![i] = e] = DOMAIN x
         /\ Len([x EXCEPT ![i] = e]) = Len(x)
         /\ [x EXCEPT ![i] = e][i] = e
         /\ \A j \in DOMAIN x : j # i => [x EXCEPT ![i] = e][j] = x[j]
<1> DEFINE y == [x EXCEPT ![i] = e]
           S == {x[j] : j \in DOMAIN x}
           T == {y[j] : j \in DOMAIN y}
<1>1. Len(x) \in Nat /\ DOMAIN x = 1..Len(x) /\ x \in [1..Len(x) -> S]
  BY LenProperties DEF IsList
<1>2. /\ DOMAIN y = DOMAIN x /\ y[i] = e
      /\ \A j \in DOMAIN x : j # i => y[j] = x[j]
  BY <1>1
<1>3. y \in [1..Len(x) -> T]
  <2>1. y = [j \in DOMAIN y |-> y[j]]
    BY <1>1
  <2>2. \A j \in 1..Len(x) : y[j] \in T
    BY <1>1, <1>2
  <2> HIDE DEF y, T
  <2> QED BY <1>1, <1>2, <2>1, <2>2, Zenon
<1>4. y \in Seq(T) /\ Len(y) = Len(x)
  <2> HIDE DEF y, T, S
  <2> QED BY <1>1, <1>3
<1> QED BY <1>2, <1>4, Zenon DEF IsList

\* The services in the configuration file; the id one of them is to have.
Entries == Files[file].muxes[1].values[1].services[1]
Id(s) == ParseService(Entries[s]).service_id

\* service_t as init_service leaves it, and sync_to_pcr with another PMT and another
\* SDT section.
Made(s, st, pmt, section, id, lcn, type) ==
  LET map == PidMap(st.pmt, s * 100) IN
  [new_service_id |-> id, lcn |-> lcn, new_pmt_pid |-> s * 100,
   service_id |-> ProcessPat(st.pat).service_id, onid |-> st.sdt.onid,
   service_type |-> type, pmt |-> pmt, sdt |-> section, pid_map |-> map,
   new_pmt |-> CreatePmt([new_service_id |-> id, pmt |-> st.pmt, pid_map |-> map])]

\* Service s is one of a stream, with a PMT and a section it may hold.
MadeOf(sv, s, st) ==
  \E pmt \in Pmts(s, st.pmt), section \in Sdts(s, st.sdt) : \E lcn, type :
    sv = Made(s, st, pmt, section, Id(s), lcn, type)

\* What a service has that has got through init_service is of one of its streams.
Given(s) == \E i \in DOMAIN Streams[s] : MadeOf(services[s], s, Streams[s][i])

\* The PMT and the SDT section held may be replaced.
LEMMA Closure ==
  ASSUME NEW s, NEW pmt, NEW section, NEW x \in Pmts(s, pmt), NEW y \in Sdts(s, section)
  PROVE  Pmts(s, x) \subseteq Pmts(s, pmt) /\ Sdts(s, y) \subseteq Sdts(s, section)
BY DEF Pmts, Sdts

\* The loop counter is a service or the number after the last.
Listed ==
  /\ IsList(services) /\ DOMAIN services \subseteq DOMAIN Streams
  /\ svc \in 1..NServices + 1
  /\ phase \in {"config", "capacity"} => svc = 1

\* The services are those of the file, ...
FromFile ==
  phase \notin {"config", "exit"} =>
    /\ file \in DOMAIN Files /\ ConfigValid(Files[file])
    /\ 1 \in DOMAIN Files[file].muxes[1].values
    /\ NServices = Len(Entries)

\* ... until init_service gets to them as parse_service leaves them.
Waiting ==
  phase \in {"capacity", "init"} =>
    \A s \in svc..NServices : services[s] = ParseService(Entries[s])

Inv == Listed /\ FromFile /\ Waiting /\ \A s \in Ready : s \in DOMAIN services /\ Given(s)

LEMMA ServicesCount ==
  ASSUME Listed
  PROVE  NServices \in Nat /\ DOMAIN services = 1..NServices
BY LenProperties DEF Listed, IsList, NServices

LEMMA ReadyCount ==
  ASSUME Listed
  PROVE  Ready \subseteq DOMAIN services
BY ServicesCount DEF Listed, Ready

LEMMA InitInv == Init => Inv
<1> SUFFICES ASSUME Init PROVE Inv
  OBVIOUS
<1>1. services = << >> /\ svc = 1 /\ phase = "config"
  BY DEF Init
<1>2. << >> \in Seq({services[i] : i \in DOMAIN services})
      /\ Len(<< >>) = 0 /\ DOMAIN << >> = {}
  BY EmptySeq
<1>3. IsList(services) /\ NServices = 0 /\ DOMAIN services = {}
  BY <1>1, <1>2 DEF IsList, NServices
<1> QED BY <1>1, <1>3 DEF Inv, Listed, FromFile, Waiting, Ready

\* A step that changes neither the services nor the counter nor the file.
LEMMA OtherInv ==
  ASSUME Inv, UNCHANGED <<services, svc, file>>, Ready' \subseteq Ready,
         phase' \in {"config", "capacity"} => phase \in {"config", "capacity"},
         phase' \in {"capacity", "init"} => phase \in {"capacity", "init"},
         phase' \notin {"config", "exit"} => phase \notin {"config", "exit"}
  PROVE  Inv'
<1>1. NServices' = NServices /\ Entries' = Entries
  BY DEF NServices, Entries
<1>2. Listed'
  BY <1>1 DEF Inv, Listed, IsList
<1>3. FromFile'
  BY <1>1 DEF Inv, FromFile
<1>4. Waiting'
  BY <1>1 DEF Inv, Waiting
<1>5. \A s \in Ready : s \in DOMAIN services' /\ Given(s)'
  <2> TAKE s \in Ready
  <2>1. s \in DOMAIN services /\ Given(s)
    BY DEF Inv
  <2>2. services'[s] = services[s] /\ Id(s)' = Id(s)
    BY <1>1 DEF Id
  <2> QED BY <2>1, <2>2 DEF Given, MadeOf
<1> QED BY <1>2, <1>3, <1>4, <1>5 DEF Inv

LEMMA ConfigureInv ==
  ASSUME Inv, NEW f \in DOMAIN Files, Configure(f)
  PROVE  Inv'
<1>1. /\ svc' = 1 /\ svc = 1 /\ phase = "config" /\ phase' \in {"capacity", "exit"}
      /\ file' = f
  BY DEF Configure, Inv, Listed
<1>2. Ready' = {}
  BY <1>1 DEF Ready
<1>3. CASE ConfigValid(Files[f]) /\ Len(Muxes(Files[f])) = 1
  <2> DEFINE values == Files[f].muxes[1].values
             listed == values[1].services[1]
  <2>1. services' = Muxes(Files[f])[1].services /\ Entries' = listed
    BY <1>1, <1>3 DEF Configure, Entries
  <2>2. Muxes(Files[f]) = [j \in DOMAIN values |->
          [params   |-> ParseMuxParams(Defaults(Files[f], j), values[j]),
           services |-> [i \in DOMAIN values[j].services[1] |->
                           ParseService(values[j].services[1][i])]]]
    BY DEF Muxes
  <2>3. IsList(values)
    BY <1>3, InputAssumption
  <2>4. DOMAIN values = 1..Len(values) /\ Len(values) \in Nat
    <3> HIDE DEF values
    <3> QED BY <2>3, LenProperties DEF IsList
  <2>5. 1 \in DOMAIN values
    <3> HIDE DEF values
    <3>1. Len(Muxes(Files[f])) = Len(values)
      BY <2>2, <2>4
    <3> QED BY <1>3, <2>4, <3>1
  <2>6. IsList(listed) /\ DOMAIN listed \subseteq DOMAIN Streams
    BY <1>3, <2>5, InputAssumption
  <2>7. services' = [i \in DOMAIN listed |-> ParseService(listed[i])]
    <3> HIDE DEF values
    <3> QED BY <2>1, <2>2, <2>5
  <2>8. 1 \in DOMAIN Files[f].muxes[1].values
    BY <2>5
  <2> HIDE DEF values, listed
  <2>9. Len(listed) \in Nat /\ DOMAIN listed = 1..Len(listed)
    BY <2>6, LenProperties DEF IsList
  <2>10. /\ IsList(services') /\ Len(services') = Len(listed)
         /\ DOMAIN services' = DOMAIN listed
    <3> DEFINE y == services'
               T == {y[i] : i \in DOMAIN y}
    <3>1. DOMAIN y = 1..Len(listed) /\ \A i \in 1..Len(listed) : y[i] = ParseService(listed[i])
      BY <2>7, <2>9
    <3>2. \A i \in 1..Len(listed) : y[i] \in T
      BY <3>1
    <3>3. y = [i \in 1..Len(listed) |-> y[i]]
      BY <2>7, <2>9
    <3> HIDE DEF y, T
    <3>4. y \in Seq(T) /\ Len(y) = Len(listed)
      BY <2>9, <3>2, <3>3, MapSeq
    <3> QED BY <2>9, <3>1, <3>4 DEF IsList, y, T
  <2>11. Listed'
    BY <1>1, <2>6, <2>9, <2>10 DEF Listed, NServices
  <2>12. FromFile'
    BY <1>1, <1>3, <2>1, <2>8, <2>10 DEF FromFile, NServices
  <2>13. Waiting'
    <3>1. \A s \in 1..Len(listed) : services'[s] = ParseService(listed[s])
      BY <2>7, <2>9
    <3> QED BY <1>1, <2>1, <2>10, <3>1 DEF Waiting, NServices
  <2> QED BY <1>2, <2>11, <2>12, <2>13 DEF Inv
<1>4. CASE ~(ConfigValid(Files[f]) /\ Len(Muxes(Files[f])) = 1)
  <2>1. UNCHANGED services /\ phase' = "exit"
    BY <1>4 DEF Configure
  <2> QED BY <1>1, <1>2, <2>1 DEF Inv, Listed, FromFile, Waiting, NServices, IsList
<1> QED BY <1>3, <1>4

\* Where the counter goes.
LEMMA TurnKeeps ==
  ASSUME NEW now, NEW after, NServices \in Nat, svc \in 1..NServices,
         NextTurn(now, after)
  PROVE  /\ svc' \in 1..NServices /\ phase' \in {now, after}
         /\ phase' # after => svc' = svc + 1
         /\ phase' # now => svc = NServices
BY DEF NextTurn

\* create_pmt reads what init_service has got so far.
LEMMA InitialisedMade ==
  ASSUME NEW st
  PROVE  \E lcn, type :
           Initialised(st) = Made(svc, st, st.pmt, st.sdt, services[svc].service_id, lcn, type)
<1> PICK lcn : lcn = services[svc].lcn
  OBVIOUS
<1> PICK type : type = Last(Described(Processed(st), ProcessPat(st.pat).service_id)).service_type
  OBVIOUS
<1> PICK id, own, onid, map :
      /\ id = services[svc].service_id /\ own = ProcessPat(st.pat).service_id
      /\ onid = st.sdt.onid /\ map = PidMap(st.pmt, svc * 100)
  OBVIOUS
<1> DEFINE read == [new_service_id |-> id, lcn |-> lcn,
               new_pmt_pid |-> svc * 100, service_id |-> own, onid |-> onid,
               service_type |-> type, pmt |-> st.pmt, sdt |-> st.sdt,
               pid_map |-> map, new_pmt |-> << >>]
           part == [new_service_id |-> id, pmt |-> st.pmt, pid_map |-> map]
<1>1. Initialised(st) = [read EXCEPT !.new_pmt = CreatePmt(read)]
  BY DEF Initialised, NewPmtPid
<1>2. CreatePmt(read) = CreatePmt(part)
  BY DEF CreatePmt
<1>3. PICK new : new = CreatePmt(part)
  OBVIOUS
<1>4. [read EXCEPT !.new_pmt = new] =
        [new_service_id |-> id, lcn |-> lcn,
         new_pmt_pid |-> svc * 100, service_id |-> own, onid |-> onid,
         service_type |-> type, pmt |-> st.pmt, sdt |-> st.sdt,
         pid_map |-> map, new_pmt |-> new]
  BY SMT
<1>5. Made(svc, st, st.pmt, st.sdt, id, lcn, type) =
        [new_service_id |-> id, lcn |-> lcn,
         new_pmt_pid |-> svc * 100, service_id |-> own, onid |-> onid,
         service_type |-> type, pmt |-> st.pmt, sdt |-> st.sdt,
         pid_map |-> map, new_pmt |-> new]
  BY <1>3 DEF Made
<1> HIDE DEF read
<1>6. Initialised(st) = Made(svc, st, st.pmt, st.sdt, id, lcn, type)
  BY <1>1, <1>2, <1>3, <1>4, <1>5
<1> QED BY <1>6

LEMMA InitServiceInv ==
  ASSUME Inv, svc <= NServices, NEW k \in DOMAIN Streams[svc],
         InitService(Streams[svc][k])
  PROVE  Inv'
<1>1. /\ phase = "init" /\ NServices \in Nat /\ DOMAIN services = 1..NServices
      /\ file' = file /\ Entries' = Entries /\ \A s : Id(s)' = Id(s)
  BY ServicesCount DEF InitService, Inv, Entries, Id
<1>2. svc \in 1..NServices
  BY <1>1 DEF Inv, Listed
<1>3. CASE UNCHANGED <<services, svc>> /\ phase' \in {"searching", "smashed", "exit"}
  BY <1>1, <1>3, OtherInv DEF Ready
<1>4. CASE /\ services' = [services EXCEPT ![svc] = Initialised(Streams[svc][k])]
           /\ NextTurn("init", "sync")
  <2> DEFINE st == Streams[svc][k]
             new == Initialised(st)
  <2>1. /\ IsList(services') /\ DOMAIN services' = DOMAIN services
        /\ Len(services') = Len(services) /\ services'[svc] = new
        /\ \A s \in DOMAIN services : s # svc => services'[s] = services[s]
    <3>1. services' = [services EXCEPT ![svc] = new]
      BY <1>4
    <3>2. IsList(services) /\ svc \in DOMAIN services
      BY <1>1, <1>2 DEF Inv, Listed
    <3> HIDE DEF new
    <3>3. /\ IsList([services EXCEPT ![svc] = new])
          /\ DOMAIN [services EXCEPT ![svc] = new] = DOMAIN services
          /\ Len([services EXCEPT ![svc] = new]) = Len(services)
          /\ [services EXCEPT ![svc] = new][svc] = new
          /\ \A s \in DOMAIN services : s # svc => [services EXCEPT ![svc] = new][s] = services[s]
      BY <3>2, Replaced
    <3> QED BY <3>1, <3>3, Zenon
  <2>2. \E lcn, type : new = Made(svc, st, st.pmt, st.sdt, Id(svc), lcn, type)
    <3>1. svc \in svc..NServices
      BY <1>1, <1>2
    <3>2. services[svc].service_id = Id(svc)
      BY <1>1, <3>1 DEF Inv, Waiting, Id
    <3> QED BY <3>2, InitialisedMade
  <2>3. ASSUME NEW s, s = svc PROVE Given(s)'
    <3>1. PICK lcn, type : new = Made(svc, st, st.pmt, st.sdt, Id(svc), lcn, type)
      BY <2>2
    <3>2. /\ st.pmt \in Pmts(s, Streams[s][k].pmt) /\ st.sdt \in Sdts(s, Streams[s][k].sdt)
          /\ k \in DOMAIN Streams[s]
      BY <2>3 DEF Pmts, Sdts
    <3>3. services'[s] = Made(s, Streams[s][k], st.pmt, st.sdt, Id(s), lcn, type)
      <4> HIDE DEF new
      <4> QED BY <2>1, <2>3, <3>1
    <3>4. Id(s)' = Id(s)
      BY <1>1
    <3> HIDE DEF new
    <3> QED BY <3>2, <3>3, <3>4, Zenon DEF Given, MadeOf
  <2> HIDE DEF new
  <2>4. /\ svc' \in 1..NServices /\ phase' \in {"init", "sync"}
        /\ phase' # "sync" => svc' = svc + 1
        /\ phase' # "init" => svc = NServices
    BY <1>1, <1>2, <1>4, TurnKeeps
  <2>5. NServices' = NServices
    BY <2>1 DEF NServices
  <2>6. Listed'
    <3>1. svc' \in 1..NServices' + 1
      BY <1>1, <2>4, <2>5
    <3>2. phase' \notin {"config", "capacity"}
      BY <2>4
    <3> QED BY <2>1, <3>1, <3>2 DEF Inv, Listed
  <2>7. FromFile'
    BY <1>1, <2>5 DEF Inv, FromFile
  <2>8. Waiting'
    <3>1. ASSUME phase' = "init", NEW s \in svc'..NServices PROVE services'[s] = ParseService(Entries[s])
      <4>1. svc' = svc + 1
        BY <2>4, <3>1
      <4>2. s \in svc..NServices /\ s # svc /\ s \in 1..NServices
        BY <1>1, <1>2, <4>1
      <4> QED BY <1>1, <2>1, <4>2 DEF Inv, Waiting
    <3>2. phase' # "capacity"
      BY <2>4
    <3> QED BY <1>1, <2>5, <3>1, <3>2 DEF Waiting
  <2>9. \A s \in Ready' : s \in DOMAIN services /\ (s = svc \/ s \in Ready)
    <3>1. CASE phase' = "init"
      <4>1. Ready' = 1..svc' - 1 /\ svc' = svc + 1 /\ Ready = 1..svc - 1
        BY <1>1, <2>4, <3>1 DEF Ready
      <4>2. svc' - 1 = svc
        BY <1>2, <4>1
      <4>3. \A s \in 1..svc : s \in 1..NServices /\ (s = svc \/ s \in 1..svc - 1)
        BY <1>1, <1>2
      <4> QED BY <1>1, <4>1, <4>2, <4>3
    <3>2. CASE phase' = "sync"
      <4>1. Ready' = 1..NServices /\ svc = NServices /\ Ready = 1..svc - 1
        BY <1>1, <2>4, <2>5, <3>2 DEF Ready
      <4>2. \A s \in 1..NServices : s = NServices \/ s \in 1..NServices - 1
        BY <1>1
      <4> QED BY <1>1, <4>1, <4>2
    <3> QED BY <2>4, <3>1, <3>2
  <2>10. \A s \in Ready' : s \in DOMAIN services' /\ Given(s)'
    <3> TAKE s \in Ready'
    <3>1. CASE s = svc
      BY <1>1, <1>2, <2>1, <2>3, <3>1
    <3>2. CASE s # svc
      <4>1. s \in DOMAIN services /\ Given(s) /\ services'[s] = services[s]
        BY <2>1, <2>9, <3>2 DEF Inv
      <4> QED BY <1>1, <2>1, <4>1 DEF Given, MadeOf
    <3> QED BY <3>1, <3>2
  <2> QED BY <2>6, <2>7, <2>8, <2>10 DEF Inv
<1> QED BY <1>3, <1>4, SdtEnds DEF InitService

LEMMA MadePmt ==
  ASSUME NEW n, NEW stream, NEW x, NEW y, NEW number, NEW channel, NEW kind, NEW later
  PROVE  [Made(n, stream, x, y, number, channel, kind) EXCEPT !.pmt = later]
           = Made(n, stream, later, y, number, channel, kind)
<1> PICK first, own, onid, map, new_pmt :
      /\ first = n * 100 /\ own = ProcessPat(stream.pat).service_id
      /\ onid = stream.sdt.onid /\ map = PidMap(stream.pmt, n * 100)
      /\ new_pmt = CreatePmt([new_service_id |-> number, pmt |-> stream.pmt, pid_map |-> map])
  OBVIOUS
<1> DEFINE R(u, v) ==
        [new_service_id |-> number, lcn |-> channel,
         new_pmt_pid |-> first, service_id |-> own, onid |-> onid,
         service_type |-> kind, pmt |-> u, sdt |-> v,
         pid_map |-> map, new_pmt |-> new_pmt]
<1>1. \A u, v : Made(n, stream, u, v, number, channel, kind) = R(u, v)
  BY DEF Made
<1>2. [R(x, y) EXCEPT !.pmt = later] = R(later, y)
  BY SMT
<1> HIDE DEF R
<1> QED BY <1>1, <1>2

LEMMA MadeSdt ==
  ASSUME NEW n, NEW stream, NEW x, NEW y, NEW number, NEW channel, NEW kind, NEW later
  PROVE  [Made(n, stream, x, y, number, channel, kind) EXCEPT !.sdt = later]
           = Made(n, stream, x, later, number, channel, kind)
<1> PICK first, own, onid, map, new_pmt :
      /\ first = n * 100 /\ own = ProcessPat(stream.pat).service_id
      /\ onid = stream.sdt.onid /\ map = PidMap(stream.pmt, n * 100)
      /\ new_pmt = CreatePmt([new_service_id |-> number, pmt |-> stream.pmt, pid_map |-> map])
  OBVIOUS
<1> DEFINE R(u, v) ==
        [new_service_id |-> number, lcn |-> channel,
         new_pmt_pid |-> first, service_id |-> own, onid |-> onid,
         service_type |-> kind, pmt |-> u, sdt |-> v,
         pid_map |-> map, new_pmt |-> new_pmt]
<1>1. \A u, v : Made(n, stream, u, v, number, channel, kind) = R(u, v)
  BY DEF Made
<1>2. [R(x, y) EXCEPT !.sdt = later] = R(x, later)
  BY SMT
<1> HIDE DEF R
<1> QED BY <1>1, <1>2

LEMMA SyncInv ==
  ASSUME Inv, NEW pmt, NEW section, Sync(pmt, section),
         svc \in DOMAIN services =>
           /\ pmt \in Pmts(svc, services[svc].pmt)
           /\ section \in Sdts(svc, services[svc].sdt)
  PROVE  Inv'
<1>1. /\ phase = "sync" /\ NServices \in Nat /\ DOMAIN services = 1..NServices
      /\ IsList(services) /\ svc \in 1..NServices + 1 /\ file' = file
      /\ Entries' = Entries /\ \A s : Id(s)' = Id(s)
  BY ServicesCount DEF Sync, Inv, Listed, Entries, Id
<1> DEFINE Later(sv) == [[sv EXCEPT !.pmt = pmt] EXCEPT !.sdt = section]
<1>2. services' = [services EXCEPT ![svc] = Later(services[svc])]
  <2>1. services' = [services EXCEPT ![svc].pmt = pmt, ![svc].sdt = section]
    BY DEF Sync
  <2>2. services = [s \in 1..NServices |-> services[s]]
    BY <1>1, LenProperties DEF IsList
  <2> QED BY <1>1, <2>1, <2>2
<1> HIDE DEF Later
<1>3. NextTurn("sync", "create")
  BY DEF Sync
<1>4. /\ IsList(services') /\ DOMAIN services' = DOMAIN services
      /\ Len(services') = Len(services)
      /\ \A s \in DOMAIN services :
           services'[s] = IF s = svc THEN Later(services[s]) ELSE services[s]
  <2>1. CASE svc \in DOMAIN services
    <3> PICK new : new = Later(services[svc])
      OBVIOUS
    <3>1. services' = [services EXCEPT ![svc] = new]
      BY <1>2
    <3>2. /\ IsList([services EXCEPT ![svc] = new])
          /\ DOMAIN [services EXCEPT ![svc] = new] = DOMAIN services
          /\ Len([services EXCEPT ![svc] = new]) = Len(services)
          /\ [services EXCEPT ![svc] = new][svc] = new
          /\ \A s \in DOMAIN services : s # svc => [services EXCEPT ![svc] = new][s] = services[s]
      BY <1>1, <2>1, Replaced, Zenon
    <3>3. \A s \in DOMAIN services : services'[s] = IF s = svc THEN new ELSE services[s]
      BY <3>1, <3>2, Zenon
    <3> QED BY <3>1, <3>2, <3>3, Zenon
  <2>2. CASE ~(svc \in DOMAIN services)
    <3>1. services = [s \in 1..NServices |-> services[s]]
      BY <1>1, LenProperties DEF IsList
    <3>2. services' = services
      BY <1>1, <1>2, <2>2, <3>1
    <3> QED BY <1>1, <2>2, <3>2
  <2> QED BY <2>1, <2>2
<1>5. svc' \in 1..NServices + 1 /\ phase' \in {"sync", "create"}
  BY <1>1, <1>3 DEF NextTurn
<1>6. NServices' = NServices
  BY <1>4 DEF NServices
<1>7. Listed' /\ FromFile' /\ Waiting'
  <2>1. Listed'
    BY <1>4, <1>5, <1>6 DEF Inv, Listed
  <2>2. FromFile'
    BY <1>1, <1>6 DEF Inv, FromFile
  <2>3. Waiting'
    BY <1>5 DEF Waiting
  <2> QED BY <2>1, <2>2, <2>3
<1>8. Ready' = Ready
  BY <1>1, <1>5, <1>6 DEF Ready
<1>9. \A s \in Ready : s \in DOMAIN services' /\ Given(s)'
  <2> TAKE s \in Ready
  <2>1. s \in DOMAIN services /\ Given(s)
    BY DEF Inv
  <2>2. PICK i \in DOMAIN Streams[s] : MadeOf(services[s], s, Streams[s][i])
    BY <2>1 DEF Given
  <2> PICK st : st = Streams[s][i]
    OBVIOUS
  <2>3. PICK x \in Pmts(s, st.pmt), y \in Sdts(s, st.sdt) : \E lcn, type :
          services[s] = Made(s, st, x, y, Id(s), lcn, type)
    BY <2>2 DEF MadeOf
  <2>4. PICK lcn, type : services[s] = Made(s, st, x, y, Id(s), lcn, type)
    BY <2>3
  <2>5. services[s].pmt = x /\ services[s].sdt = y
    BY <2>4 DEF Made
  <2>6. MadeOf(services'[s], s, st)
    <3>1. CASE s = svc
      <4>1. pmt \in Pmts(s, x) /\ section \in Sdts(s, y)
        BY <2>1, <2>5, <3>1
      <4>2. pmt \in Pmts(s, st.pmt) /\ section \in Sdts(s, st.sdt)
        BY <2>3, <4>1, Closure
      <4>3. services'[s] = Made(s, st, pmt, section, Id(s), lcn, type)
        <5>1. services'[s] = Later(services[s])
          BY <1>4, <2>1, <3>1
        <5>2. Later(services[s]) = Made(s, st, pmt, section, Id(s), lcn, type)
          <6>1. [services[s] EXCEPT !.pmt = pmt] = Made(s, st, pmt, y, Id(s), lcn, type)
            BY <2>4, MadePmt
          <6>2. PICK new : new = Made(s, st, pmt, y, Id(s), lcn, type)
            OBVIOUS
          <6>3. [new EXCEPT !.sdt = section] = Made(s, st, pmt, section, Id(s), lcn, type)
            BY <6>2, MadeSdt
          <6> QED BY <6>1, <6>2, <6>3, Zenon DEF Later
        <5> QED BY <5>1, <5>2
      <4> QED BY <4>2, <4>3, Zenon DEF MadeOf
    <3>2. CASE s # svc
      BY <1>4, <2>1, <2>2, <3>2
    <3> QED BY <3>1, <3>2
  <2>7. Id(s)' = Id(s) /\ s \in DOMAIN services'
    BY <1>1, <1>4, <2>1
  <2>8. Given(s)'
    <3>1. PICK u \in Pmts(s, st.pmt), v \in Sdts(s, st.sdt) : \E l, t :
            services'[s] = Made(s, st, u, v, Id(s), l, t)
      BY <2>6 DEF MadeOf
    <3>2. PICK l, t : services'[s] = Made(s, st, u, v, Id(s), l, t)
      BY <3>1
    <3> QED BY <2>7, <3>2 DEF Given, MadeOf
  <2> QED BY <2>7, <2>8
<1> QED BY <1>7, <1>8, <1>9 DEF Inv

LEMMA StepInv == Inv /\ [Next]_vars => Inv'
<1> SUFFICES ASSUME Inv, [Next]_vars PROVE Inv'
  OBVIOUS
<1>1. CASE \E f \in DOMAIN Files : Configure(f)
  BY <1>1, ConfigureInv
<1>2. CASE svc <= NServices /\ \E i \in DOMAIN Streams[svc] : InitService(Streams[svc][i])
  BY <1>2, InitServiceInv
<1>3. ASSUME NEW pmt \in Pmts(svc, services[svc].pmt),
             NEW section \in Sdts(svc, services[svc].sdt), Sync(pmt, section)
      PROVE  Inv'
  BY <1>3, SyncInv
<1>4. CASE CalcCapacity
  <2>1. /\ UNCHANGED <<services, svc, file>> /\ phase = "capacity"
        /\ phase' \in {"init", "exit"} /\ svc = 1
    BY <1>4 DEF CalcCapacity, Inv, Listed
  <2>2. Ready' \subseteq Ready
    BY <2>1 DEF Ready
  <2> QED BY <2>1, <2>2, OtherInv
<1>5. CASE CreateTables
  <2>1. UNCHANGED <<services, svc, file>> /\ phase = "create" /\ phase' = "loop"
    BY <1>5 DEF CreateTables
  <2>2. Ready' \subseteq Ready
    BY <2>1 DEF Ready, NServices
  <2> QED BY <2>1, <2>2, OtherInv
<1>6. CASE \/ WriteTables \/ UNCHANGED vars
           \/ \E s \in 1..NServices, e \in DOMAIN EitSections : PassEvent(s, e)
  <2>1. UNCHANGED <<services, svc, phase, file>>
    BY <1>6 DEF WriteTables, PassEvent, vars
  <2>2. Ready' = Ready
    BY <2>1 DEF Ready, NServices
  <2> QED BY <2>1, <2>2, OtherInv
<1> QED BY <1>1, <1>2, <1>3, <1>4, <1>5, <1>6 DEF Next

\* A service of the output in its parts.
LEMMA GivenParts ==
  ASSUME Inv, NEW s \in Ready
  PROVE  /\ s \in DOMAIN services /\ s \in DOMAIN Streams /\ s \in 1..NServices
         /\ \E i \in Sources(s) :
              LET sv == services[s]
                  st == Streams[s][i]
              IN /\ i \in DOMAIN Streams[s]
                 /\ st \in [pat : PatSection, pmt_pid : Nat, pmt : PmtSection,
                            earlier : Seq(SdtSection), sdt : SdtSection]
                 /\ sv.new_service_id = Id(s) /\ sv.new_pmt_pid = s * 100
                 /\ sv.service_id = ProcessPat(st.pat).service_id
                 /\ sv.onid = st.sdt.onid
                 /\ sv.sdt \in Sdts(s, st.sdt) /\ sv.sdt \in SdtSection
                 /\ sv.pid_map = PidMap(st.pmt, s * 100)
                 /\ sv.new_pmt = CreatePmt([new_service_id |-> Id(s), pmt |-> st.pmt,
                                            pid_map |-> sv.pid_map])
<1>1. s \in DOMAIN services /\ Given(s) /\ s \in DOMAIN Streams /\ DOMAIN services = 1..NServices
  BY ServicesCount DEF Inv, Listed
<1>2. PICK i \in DOMAIN Streams[s] : MadeOf(services[s], s, Streams[s][i])
  BY <1>1 DEF Given
<1> PICK st : st = Streams[s][i]
  OBVIOUS
<1>3. PICK pmt \in Pmts(s, st.pmt), section \in Sdts(s, st.sdt) : \E lcn, type :
        services[s] = Made(s, st, pmt, section, Id(s), lcn, type)
  BY <1>2 DEF MadeOf
<1>4. /\ services[s].new_service_id = Id(s) /\ services[s].new_pmt_pid = s * 100
      /\ services[s].service_id = ProcessPat(st.pat).service_id
      /\ services[s].onid = st.sdt.onid /\ services[s].pmt = pmt
      /\ services[s].sdt = section
      /\ services[s].pid_map = PidMap(st.pmt, s * 100)
      /\ services[s].new_pmt = CreatePmt([new_service_id |-> Id(s), pmt |-> st.pmt,
                                          pid_map |-> PidMap(st.pmt, s * 100)])
  BY <1>3 DEF Made
<1>5. st \in [pat : PatSection, pmt_pid : Nat, pmt : PmtSection,
              earlier : Seq(SdtSection), sdt : SdtSection]
  BY <1>1, InputAssumption, Zenon
<1>6. section \in SdtSection
  <2>1. CASE section = st.sdt
    BY <1>5, <2>1
  <2>2. CASE section \in {LaterSdt[s][j] : j \in DOMAIN LaterSdt[s]}
    <3>1. PICK j \in DOMAIN LaterSdt[s] : section = LaterSdt[s][j]
      BY <2>2
    <3> QED BY <1>1, <3>1, InputAssumption, Zenon
  <2> QED BY <1>3, <2>1, <2>2 DEF Sdts
<1>7. i \in Sources(s)
  BY <1>3, <1>4, Zenon DEF Sources
<1>8. LET sv == services[s]
      IN /\ st \in [pat : PatSection, pmt_pid : Nat, pmt : PmtSection,
                    earlier : Seq(SdtSection), sdt : SdtSection]
         /\ sv.new_service_id = Id(s) /\ sv.new_pmt_pid = s * 100
         /\ sv.service_id = ProcessPat(st.pat).service_id
         /\ sv.onid = st.sdt.onid
         /\ sv.sdt \in Sdts(s, st.sdt) /\ sv.sdt \in SdtSection
         /\ sv.pid_map = PidMap(st.pmt, s * 100)
         /\ sv.new_pmt = CreatePmt([new_service_id |-> Id(s), pmt |-> st.pmt,
                                    pid_map |-> sv.pid_map])
  BY <1>3, <1>4, <1>5, <1>6
<1> QED BY <1>1, <1>7, <1>8

LEMMA WithinHundred == ASSUME NEW x \in Int, 32 <= x, x <= 8099 PROVE x \in UsablePids
BY SMT DEF UsablePids, Pids

\* The 100 PIDs from s * 100 on are service s's, and process_pmt gives each of
\* them once.
LEMMA InvDistinct == PidsSuffice /\ Inv => PidsDistinct
<1> SUFFICES ASSUME PidsSuffice, Inv PROVE PidsDistinct
  OBVIOUS
<1>1. \A s \in Ready : s \in 1..80 /\ s \in DOMAIN Streams
  <2> TAKE s \in Ready
  <2>1. s \in DOMAIN Streams /\ s \in 1..NServices
    BY GivenParts
  <2>2. NServices \in Nat
    BY ServicesCount DEF Inv
  <2>3. phase \notin {"config", "exit"}
    BY DEF Ready
  <2>4. NServices <= 80
    BY <2>3 DEF Inv, FromFile, PidsSuffice, Entries
  <2> QED BY <2>1, <2>2, <2>4
<1>2. ASSUME NEW s \in Ready
      PROVE  /\ services[s].new_pmt_pid = s * 100
             /\ NewPids(s) \subseteq s * 100 + 1..s * 100 + 99
             /\ \A p, q \in DOMAIN services[s].pid_map :
                  services[s].pid_map[p] = services[s].pid_map[q] => p = q
  <2>1. PICK i \in DOMAIN Streams[s] :
          /\ Streams[s][i] \in [pat : PatSection, pmt_pid : Nat, pmt : PmtSection,
                                earlier : Seq(SdtSection), sdt : SdtSection]
          /\ services[s].new_pmt_pid = s * 100
          /\ services[s].pid_map = PidMap(Streams[s][i].pmt, s * 100)
    BY GivenParts, Zenon
  <2> DEFINE pmt == Streams[s][i].pmt
             n == s * 100
             map == services[s].pid_map
  <2>2. IsList(pmt.streams) /\ PidsNeeded(pmt) <= 99 /\ n \in Nat
    <3>1. s \in DOMAIN Streams /\ s \in 1..80
      BY <1>1
    <3>2. PidsNeeded(pmt) <= 99
      BY <3>1, Zenon DEF PidsSuffice
    <3>3. IsList(pmt.streams)
      <4>1. pmt \in PmtSection
        BY <2>1
      <4> QED BY <4>1, PmtList
    <3>4. n \in Nat
      BY <3>1
    <3> QED BY <3>2, <3>3, <3>4
  <2>3. PidsNeeded(pmt) \in Int
    <3> HIDE DEF pmt
    <3> QED BY <2>2, PassedFinite DEF PidsNeeded
  <2>4. services[s].new_pmt_pid = n /\ map = PidMap(pmt, n)
    BY <2>1
  <2> HIDE DEF pmt, n, map
  <2>5. \A p \in DOMAIN map : map[p] = (n + 1) + Number(pmt, p)
    BY <2>4, MapValue
  <2>6. \A p \in DOMAIN map : Number(pmt, p) \in 0..98
    <3> TAKE p \in DOMAIN map
    <3>1. Number(pmt, p) \in 0..PidsNeeded(pmt) - 1
      BY <2>2, <2>4, NumberRange
    <3> QED BY <2>2, <2>3, <3>1
  <2>7. \A p \in DOMAIN map : map[p] \in n + 1..n + 99
    <3> TAKE p \in DOMAIN map
    <3>1. Number(pmt, p) \in 0..98 /\ map[p] = (n + 1) + Number(pmt, p)
      BY <2>5, <2>6
    <3> QED BY <2>2, <3>1
  <2>8. \A p, q \in DOMAIN map : map[p] = map[q] => p = q
    <3> TAKE p, q \in DOMAIN map
    <3> HAVE map[p] = map[q]
    <3>1. /\ Number(pmt, p) \in 0..98 /\ map[p] = (n + 1) + Number(pmt, p)
          /\ Number(pmt, q) \in 0..98 /\ map[q] = (n + 1) + Number(pmt, q)
      BY <2>5, <2>6
    <3>2. Number(pmt, p) = Number(pmt, q)
      <4> DEFINE a == Number(pmt, p)
                 b == Number(pmt, q)
      <4>1. a \in 0..98 /\ b \in 0..98 /\ (n + 1) + a = (n + 1) + b /\ n \in Nat
        BY <2>2, <3>1
      <4> HIDE DEF a, b
      <4>2. a = b
        BY <4>1
      <4> QED BY <4>2 DEF a, b
    <3> QED BY <2>2, <2>4, <3>2, NumberOnce
  <2>9. NewPids(s) \subseteq n + 1..n + 99
    <3>1. NewPids(s) = {map[p] : p \in DOMAIN map}
      BY DEF NewPids, Range, map
    <3> QED BY <2>7, <3>1
  <2> QED BY <2>4, <2>8, <2>9 DEF n, map
<1> DEFINE PidsOf(s) == {services[s].new_pmt_pid} \cup NewPids(s)
<1>3. \A s \in Ready : PidsOf(s) \subseteq s * 100..s * 100 + 99
  <2> TAKE s \in Ready
  <2>1. s * 100 \in Nat /\ s \in Nat
    BY <1>1
  <2> QED BY <1>2, <2>1
<1>4. \A s \in Ready : /\ PidsOf(s) \subseteq UsablePids
                       /\ services[s].new_pmt_pid \notin NewPids(s)
  <2> TAKE s \in Ready
  <2>1. s \in 1..80
    BY <1>1
  <2>2. PidsOf(s) \subseteq s * 100..s * 100 + 99
    BY <1>3
  <2>3. PidsOf(s) \subseteq UsablePids
    <3>1. \A x \in s * 100..s * 100 + 99 : x \in Int /\ 32 <= x /\ x <= 8099
      BY <2>1
    <3> HIDE DEF PidsOf
    <3>2. \A x \in PidsOf(s) : x \in Int /\ 32 <= x /\ x <= 8099
      BY <2>2, <3>1
    <3> QED BY <3>2, WithinHundred
  <2>4. /\ services[s].new_pmt_pid = s * 100
        /\ NewPids(s) \subseteq s * 100 + 1..s * 100 + 99
    BY <1>2
  <2> QED BY <2>1, <2>3, <2>4
<1>5. \A s, t \in Ready : s # t => PidsOf(s) \cap PidsOf(t) = {}
  <2> TAKE s, t \in Ready
  <2>1. s \in 1..80 /\ t \in 1..80
    BY <1>1
  <2>2. PidsOf(s) \subseteq s * 100..s * 100 + 99 /\ PidsOf(t) \subseteq t * 100..t * 100 + 99
    BY <1>3
  <2> HIDE DEF PidsOf
  <2> QED BY <2>1, <2>2
<1> QED BY <1>2, <1>4, <1>5, SMTT(30) DEF PidsDistinct

\* As long as a service's 100 PIDs suffice (and nothing in the code sees to
\* that), no two things in the output get the same PID, whatever PIDs the input
\* streams use and repeat.
THEOREM PidsStayDistinct == PidsSuffice => (Spec => []PidsDistinct)
<1>1. PidsSuffice /\ Inv => PidsDistinct
  BY InvDistinct
<1> SUFFICES ASSUME PidsSuffice PROVE Spec => []PidsDistinct
  OBVIOUS
<1>2. Inv => PidsDistinct
  BY <1>1
<1>3. Inv /\ [Next]_vars => Inv'
  BY StepInv
<1> QED BY InitInv, <1>2, <1>3, PTL DEF Spec

\* What each service's tables are made from, whatever has been read since: Inv.
THEOREM InvHolds == Spec => []Inv
BY InitInv, StepInv, PTL DEF Spec

-----------------------------------------------------------------------------
(* The tables of the output.                                               *)

\* The main loop's tables are made of the services, and for each PID with a table
\* there is a counter; it is that of the packet after the latest one.
TablesMade ==
  IF phase = "loop"
    THEN /\ pat = CreatePat(services) /\ sdt = CreateSdt(services)
         /\ nit = CreateNit(services)
         /\ DOMAIN cc = {0, 16, 17} \cup {services[s].new_pmt_pid : s \in 1..NServices}
         /\ DOMAIN out = DOMAIN cc
         /\ \A pid \in DOMAIN cc :
              /\ cc[pid] \in 0..15
              /\ out[pid] # << >> => cc[pid] = (Last(out[pid]).cc + 1) % 16
    ELSE cc = << >> /\ out = << >>

LEMMA ServicesTyped ==
  ASSUME Inv, phase \in {"create", "loop"}
  PROVE  /\ IsServices(services) /\ NServices \in Nat /\ Ready = 1..NServices
         /\ \A s \in DOMAIN services : services[s].sdt \in SdtSection
         /\ \A s \in 1..NServices : /\ services[s].new_pmt_pid = s * 100
                                    /\ services[s].new_pmt.length \in Nat
<1>1. NServices \in Nat /\ DOMAIN services = 1..NServices /\ Ready = 1..NServices
  BY ServicesCount DEF Inv, Ready
<1>2. IsServices(services)
  BY <1>1 DEF IsServices, NServices
<1>3. ASSUME NEW s \in 1..NServices
      PROVE  /\ services[s].sdt \in SdtSection /\ services[s].new_pmt_pid = s * 100
             /\ services[s].new_pmt.length \in Nat
  <2>1. PICK i \in DOMAIN Streams[s] :
              LET sv == services[s]
                  st == Streams[s][i]
              IN /\ st \in [pat : PatSection, pmt_pid : Nat, pmt : PmtSection,
                            earlier : Seq(SdtSection), sdt : SdtSection]
                 /\ sv.new_pmt_pid = s * 100
                 /\ sv.sdt \in SdtSection
                 /\ sv.new_pmt = CreatePmt([new_service_id |-> Id(s), pmt |-> st.pmt,
                                            pid_map |-> sv.pid_map])
    BY <1>1, GivenParts, Zenon
  <2> PICK part : part = [new_service_id |-> Id(s), pmt |-> Streams[s][i].pmt,
                          pid_map |-> services[s].pid_map]
    OBVIOUS
  <2>2. part.pmt \in PmtSection
    BY <2>1
  <2>3. CreatePmt(part).length \in Nat
    BY <2>2, PmtLength
  <2> QED BY <2>1, <2>3
<1> QED BY <1>1, <1>2, <1>3

\* Every table has a length.
LEMMA Lengths ==
  ASSUME Inv, TablesMade, phase = "loop", NEW pid \in DOMAIN cc
  PROVE  Length(pid) \in Nat
<1>1. IsServices(services) /\ \A s \in DOMAIN services : services[s].sdt \in SdtSection
  BY ServicesTyped
<1>2. CASE pid = 0
  <2>1. Length(pid) = 8 + 4 * Len(services) + 4
    BY <1>2 DEF Length, TablesMade, CreatePat
  <2> QED BY <1>1, <2>1 DEF IsServices
<1>3. CASE pid = 16
  BY <1>1, <1>3, NewNit DEF Length, TablesMade
<1>4. CASE pid = 17
  <2>1. CreateSdt(services).length \in Nat
    BY <1>1, NewSdt, Zenon
  <2> QED BY <1>4, <2>1 DEF Length, TablesMade
<1>5. CASE pid \notin {0, 16, 17}
  <2>1. PICK s \in 1..NServices : pid = services[s].new_pmt_pid
    BY <1>5 DEF TablesMade
  <2>2. pid = s * 100 /\ services[s].new_pmt.length \in Nat /\ NServices \in Nat
    BY <2>1, ServicesTyped
  <2>3. pid \div 100 = s
    BY <2>2
  <2>4. Length(pid) = services[pid \div 100].new_pmt.length
    BY <1>5 DEF Length
  <2> QED BY <2>2, <2>3, <2>4
<1> QED BY <1>2, <1>3, <1>4, <1>5

LEMMA PacketsCount ==
  ASSUME NEW l \in Nat
  PROVE  PacketsOf(l) \in Nat \ {0}
BY DEF PacketsOf

\* The packets of one section, and the counter after them.
LEMMA PacketsRun ==
  ASSUME NEW pid, Length(pid) \in Nat, cc[pid] \in 0..15
  PROVE  /\ Len(Packets(pid)) \in Nat \ {0}
         /\ DOMAIN Packets(pid) = 1..Len(Packets(pid))
         /\ Packets(pid)[1].cc = cc[pid]
         /\ \A i \in 2..Len(Packets(pid)) :
              Packets(pid)[i].cc = (Packets(pid)[i - 1].cc + 1) % 16
         /\ NextCc(pid) = (Last(Packets(pid)).cc + 1) % 16 /\ NextCc(pid) \in 0..15
<1> PICK n \in Nat \ {0} : n = PacketsOf(Length(pid))
  BY PacketsCount
<1> PICK c \in 0..15 : c = cc[pid]
  OBVIOUS
<1> PICK ps : ps = Packets(pid)
  OBVIOUS
<1>1. ps = [i \in 1..n |-> [start |-> i = 1, cc |-> (c + i - 1) % 16]]
  BY DEF Packets
<1>2. DOMAIN ps = 1..n /\ \A i \in 1..n : ps[i].cc = (c + i - 1) % 16
  BY <1>1
<1>3. Len(ps) = n
  <2> DEFINE T == {ps[i] : i \in 1..n}
  <2>1. \A i \in 1..n : ps[i] \in T
    OBVIOUS
  <2>2. ps = [i \in 1..n |-> ps[i]]
    BY <1>1
  <2> HIDE DEF T
  <2> QED BY <2>1, <2>2, MapSeq
<1>4. ps[1].cc = c
  <2>1. (c + 1 - 1) % 16 = c
    OBVIOUS
  <2>2. 1 \in 1..n
    OBVIOUS
  <2> QED BY <1>2, <2>1, <2>2
<1>5. ASSUME NEW i \in 2..n PROVE ps[i].cc = (ps[i - 1].cc + 1) % 16
  <2>1. i \in 1..n /\ i - 1 \in 1..n
    OBVIOUS
  <2>2. ps[i].cc = (c + i - 1) % 16 /\ ps[i - 1].cc = (c + (i - 1) - 1) % 16
    BY <1>2, <2>1
  <2>3. (((c + (i - 1) - 1) % 16) + 1) % 16 = (c + i - 1) % 16
    OBVIOUS
  <2> QED BY <2>2, <2>3
<1>6. NextCc(pid) = (Last(ps).cc + 1) % 16
  <2>1. NextCc(pid) = (c + n) % 16
    BY DEF NextCc
  <2>2. Last(ps) = ps[n] /\ n \in 1..n
    BY <1>3 DEF Last
  <2>3. ps[n].cc = (c + n - 1) % 16
    BY <1>2, <2>2
  <2>4. (((c + n - 1) % 16) + 1) % 16 = (c + n) % 16
    OBVIOUS
  <2> QED BY <2>1, <2>2, <2>3, <2>4
<1>7. NextCc(pid) \in 0..15
  BY DEF NextCc
<1> QED BY <1>2, <1>3, <1>4, <1>5, <1>6, <1>7

LEMMA TablesMadeStep == Inv /\ Inv' /\ TablesMade /\ [Next]_vars => TablesMade'
<1> SUFFICES ASSUME Inv, Inv', TablesMade, [Next]_vars PROVE TablesMade'
  OBVIOUS
<1>1. CASE CreateTables
  <2>1. /\ phase = "create" /\ phase' = "loop" /\ services' = services
        /\ pat' = CreatePat(services) /\ sdt' = CreateSdt(services)
        /\ nit' = CreateNit(services)
    BY <1>1 DEF CreateTables
  <2>2. cc' = [pid \in {0, 16, 17} \cup {services[s].new_pmt_pid : s \in 1..NServices} |-> 0]
    BY <1>1 DEF CreateTables
  <2>3. out' = [pid \in DOMAIN cc' |-> << >>]
    BY <1>1 DEF CreateTables
  <2>4. NServices' = NServices
    BY <2>1 DEF NServices
  <2> QED BY <2>1, <2>2, <2>3, <2>4 DEF TablesMade
<1>2. CASE WriteTables
  <2>1. phase = "loop" /\ phase' = "loop" /\ UNCHANGED <<services, pat, sdt, nit>>
    BY <1>2 DEF WriteTables
  <2>2. /\ out' = [pid \in DOMAIN cc |-> Packets(pid)]
        /\ cc' = [pid \in DOMAIN cc |-> NextCc(pid)]
    BY <1>2 DEF WriteTables
  <2>3. NServices' = NServices
    BY <2>1 DEF NServices
  <2>4. \A pid \in DOMAIN cc : /\ NextCc(pid) = (Last(Packets(pid)).cc + 1) % 16
                               /\ NextCc(pid) \in 0..15
    <3> TAKE pid \in DOMAIN cc
    <3>1. Length(pid) \in Nat /\ cc[pid] \in 0..15
      BY <2>1, Lengths DEF TablesMade
    <3> QED BY <3>1, PacketsRun
  <2>5. DOMAIN cc' = DOMAIN cc /\ DOMAIN out' = DOMAIN cc
    BY <2>2
  <2>6. \A pid \in DOMAIN cc : cc'[pid] \in 0..15 /\ cc'[pid] = (Last(out'[pid]).cc + 1) % 16
    BY <2>2, <2>4
  <2> QED BY <2>1, <2>3, <2>5, <2>6 DEF TablesMade
<1>3. CASE UNCHANGED <<phase, services, pat, sdt, nit, cc, out>>
  BY <1>3 DEF TablesMade, NServices
<1>4. CASE phase # "loop" /\ phase' # "loop" /\ UNCHANGED <<cc, out>>
  BY <1>4 DEF TablesMade
<1>5. ASSUME NEW f \in DOMAIN Files, Configure(f) PROVE TablesMade'
  BY <1>4, <1>5 DEF Configure
<1>6. ASSUME CalcCapacity PROVE TablesMade'
  BY <1>4, <1>6 DEF CalcCapacity
<1>7. ASSUME NEW st, InitService(st) PROVE TablesMade'
  BY <1>4, <1>7, SdtEnds DEF InitService, NextTurn
<1>8. ASSUME NEW pmt, NEW section, Sync(pmt, section) PROVE TablesMade'
  BY <1>4, <1>8 DEF Sync, NextTurn
<1>9. ASSUME NEW s, NEW e, PassEvent(s, e) PROVE TablesMade'
  BY <1>3, <1>9 DEF PassEvent
<1>10. CASE UNCHANGED vars
  BY <1>3, <1>10 DEF vars
<1> QED BY <1>1, <1>2, <1>5, <1>6, <1>7, <1>8, <1>9, <1>10 DEF Next

LEMMA TablesMadeHolds == Spec => [](Inv /\ TablesMade)
<1>1. Init => TablesMade
  BY DEF Init, TablesMade
<1> QED BY <1>1, InvHolds, TablesMadeStep, PTL DEF Spec

\* However long the tables are, and with as many packets to a section as that
\* takes, the packets of a PID are numbered without a gap, within a section and
\* from one output of the section to the next.
THEOREM CountersContinuous == Spec => CcContinuous
<1> DEFINE Gapless ==
      \A pid \in DOMAIN out : out'[pid] # out[pid] =>
        /\ out[pid] # << >> => out'[pid][1].cc = (Last(out[pid]).cc + 1) % 16
        /\ \A i \in 2..Len(out'[pid]) : out'[pid][i].cc = (out'[pid][i - 1].cc + 1) % 16
<1>1. Inv /\ TablesMade /\ [Next]_vars => [Gapless]_out
  <2> SUFFICES ASSUME Inv, TablesMade, [Next]_vars, out' # out PROVE Gapless
    OBVIOUS
  <2>1. CASE CreateTables
    <3>1. out = << >>
      BY <2>1 DEF CreateTables, TablesMade
    <3> QED BY <3>1
  <2>2. CASE WriteTables
    <3>1. phase = "loop" /\ out' = [pid \in DOMAIN cc |-> Packets(pid)] /\ DOMAIN out = DOMAIN cc
      BY <2>2 DEF WriteTables, TablesMade
    <3> TAKE pid \in DOMAIN out
    <3>2. /\ Length(pid) \in Nat /\ cc[pid] \in 0..15 /\ out'[pid] = Packets(pid)
          /\ out[pid] # << >> => cc[pid] = (Last(out[pid]).cc + 1) % 16
      BY <3>1, Lengths DEF TablesMade
    <3>3. /\ Packets(pid)[1].cc = cc[pid]
          /\ \A i \in 2..Len(Packets(pid)) :
               Packets(pid)[i].cc = (Packets(pid)[i - 1].cc + 1) % 16
      BY <3>2, PacketsRun
    <3> QED BY <3>2, <3>3
  <2> QED BY <2>1, <2>2, ZenonT(30) DEF Next, Configure, CalcCapacity, InitService, Sync, PassEvent, vars
<1> QED BY <1>1, TablesMadeHolds, PTL DEF Spec, CcContinuous

-----------------------------------------------------------------------------
(* The types.                                                              *)

LEMMA CapacityNat ==
  ASSUME NEW p, Sound(p), CapacityKnown(p)
  PROVE  ChannelCapacity(p) \in Nat
<1>1. PICK x \in Nat : x = p.bandwidth_hz
  BY DEF Sound, IsU16
<1>2. PICK bits \in Nat : bits = BitsPerCarrier[p.constellation]
  BY Modulation
<1>3. PICK f1, f2 \in Nat : Fraction[p.guard_interval] = <<f1, f2>> /\ f2 > 0
  BY Modulation DEF IsFraction
<1>4. PICK r1, r2 \in Nat : Rate[p.code_rate_HP] = <<r1, r2>> /\ r2 > 0
  BY Modulation DEF IsRate
<1>5. PICK y \in Nat : y = Bandwidth(p) * BitsPerCarrier[p.constellation]
  BY <1>1, <1>2 DEF Bandwidth
<1>6. PICK g \in Nat : g = Times(y, Fraction[p.guard_interval])
  <2>1. PICK z \in Nat : z = y * f1
    OBVIOUS
  <2>2. z \div f2 \in Nat
    BY <1>3, Quotient
  <2> QED BY <1>3, <2>1, <2>2 DEF Times
<1>7. PICK h \in Nat : h = Times(g, Rate[p.code_rate_HP])
  <2>1. PICK z \in Nat : z = g * r1
    OBVIOUS
  <2>2. z \div r2 \in Nat
    BY <1>4, Quotient
  <2> QED BY <1>4, <2>1, <2>2 DEF Times
<1>8. ChannelCapacity(p) = (h \div 544) * 423
  BY <1>5, <1>6, <1>7 DEF ChannelCapacity
<1> QED BY <1>8

LEMMA PeriodsNat ==
  ASSUME NEW c \in Nat
  PROVE  FreqInBits(c) \in [TableNames -> Nat]
<1>1. MsToBits(c, 200) \in Nat /\ MsToBits(c, 1000) \in Nat
  BY DEF MsToBits
<1> QED BY <1>1 DEF FreqInBits

\* The numbers that are not of the services.
Typed ==
  /\ phase \in {"config", "capacity", "init", "searching", "smashed", "sync", "create",
                "loop", "exit"}
  /\ capacity \in Nat /\ freq \in [TableNames -> Nat] /\ rounds \in 0..MaxRounds

LEMMA TypedStep == Rated /\ Rated' /\ Typed /\ [Next]_vars => Typed'
<1> SUFFICES ASSUME Rated, Rated', Typed, [Next]_vars PROVE Typed'
  OBVIOUS
<1>1. CASE CalcCapacity
  <2>1. phase' \in {"init", "exit"} /\ rounds' = rounds
    BY <1>1 DEF CalcCapacity
  <2>2. CASE CapacityKnown(params)
    <3>1. capacity' = ChannelCapacity(params) /\ freq' = FreqInBits(capacity')
      BY <1>1, <2>2 DEF CalcCapacity
    <3>2. ChannelCapacity(params) \in Nat
      BY <1>1, <2>2, CapacityNat DEF Rated, CalcCapacity
    <3>3. PICK c \in Nat : c = capacity'
      BY <3>1, <3>2
    <3>4. FreqInBits(c) \in [TableNames -> Nat]
      BY PeriodsNat
    <3> QED BY <2>1, <3>1, <3>3, <3>4 DEF Typed
  <2>3. CASE ~CapacityKnown(params)
    <3>1. UNCHANGED <<capacity, freq>>
      BY <1>1, <2>3 DEF CalcCapacity
    <3> QED BY <2>1, <3>1 DEF Typed
  <2> QED BY <2>2, <2>3
<1>2. CASE WriteTables
  <2>1. rounds < MaxRounds /\ rounds' = rounds + 1 /\ UNCHANGED <<phase, capacity, freq>>
    BY <1>2 DEF WriteTables
  <2> QED BY <2>1, InputAssumption DEF Typed
<1>3. ASSUME UNCHANGED <<capacity, freq, rounds>>,
             phase' \in {"capacity", "init", "searching", "smashed", "sync", "create",
                         "loop", "exit", phase}
      PROVE  Typed'
  BY <1>3 DEF Typed
<1>4. ASSUME NEW f \in DOMAIN Files, Configure(f) PROVE Typed'
  BY <1>3, <1>4 DEF Configure
<1>5. ASSUME NEW st, InitService(st) PROVE Typed'
  BY <1>3, <1>5, SdtEnds DEF InitService, NextTurn
<1>6. ASSUME NEW pmt, NEW section, Sync(pmt, section) PROVE Typed'
  BY <1>3, <1>6 DEF Sync, NextTurn
<1>7. ASSUME NEW s, NEW e, PassEvent(s, e) PROVE Typed'
  BY <1>3, <1>7 DEF PassEvent
<1>8. CASE CreateTables
  BY <1>3, <1>8 DEF CreateTables
<1>9. CASE UNCHANGED vars
  BY <1>3, <1>9 DEF vars
<1> QED BY <1>1, <1>2, <1>4, <1>5, <1>6, <1>7, <1>8, <1>9 DEF Next

LEMMA RatedHolds == Spec => []Rated
<1>1. Init => Rated
  BY DEF Init, Rated
<1> QED BY <1>1, RatedStep, PTL DEF Spec

LEMMA UsableWidth == UsablePids \subseteq Pids \ {0}
BY SMT DEF UsablePids, Pids

\* Every number the program keeps is in its range, the counters of four bits
\* because write_section keeps no more, the PIDs of 13 bits as long as a service's
\* 100 suffice.
THEOREM StartupTypes == PidsSuffice => (Spec => []TypeOK)
<1> SUFFICES ASSUME PidsSuffice PROVE Spec => []TypeOK
  OBVIOUS
<1>1. Init => Typed
  BY InputAssumption DEF Init, Typed
<1>2. Inv /\ TablesMade /\ Typed /\ FileKnown => TypeOK
  <2> SUFFICES ASSUME Inv, TablesMade, Typed, FileKnown PROVE TypeOK
    OBVIOUS
  <2>1. svc \in Nat \ {0}
    BY ServicesCount DEF Inv, Listed
  <2>2. \A pid \in DOMAIN cc : cc[pid] \in 0..15
    BY DEF TablesMade
  <2>3. PidsDistinct
    BY InvDistinct
  <2>4. \A s \in Ready : /\ services[s].new_pmt_pid \in Pids
                         /\ \A pid \in DOMAIN services[s].pid_map :
                              services[s].pid_map[pid] \in Pids \ {0}
    <3>1. \A s \in Ready : {services[s].new_pmt_pid} \cup NewPids(s) \subseteq Pids \ {0}
      BY <2>3, UsableWidth DEF PidsDistinct
    <3>2. \A s \in Ready : \A pid \in DOMAIN services[s].pid_map :
            services[s].pid_map[pid] \in NewPids(s)
      BY DEF NewPids, Range
    <3> QED BY <3>1, <3>2
  <2>5. file \in 0..Len(Files)
    BY DEF FileKnown
  <2> QED BY <2>1, <2>2, <2>4, <2>5 DEF TypeOK, Typed
<1>3. Spec => []Typed
  BY <1>1, TypedStep, RatedHolds, PTL DEF Spec
<1> QED BY <1>2, <1>3, TablesMadeHolds, FileInvariant, PTL

-----------------------------------------------------------------------------
(* The receiver.                                                           *)

\* The entries of the tables are the services, in their order.
ArePrograms(programs, ss, n) ==
  /\ DOMAIN programs = 1..n
  /\ \A s \in 1..n : programs[s] =
       [service_id |-> ss[s].new_service_id, pmt_pid |-> ss[s].new_pmt_pid]
  /\ {ss[s].new_service_id : s \in 1..n} = {programs[i].service_id : i \in DOMAIN programs}

HasIds(list, ss, n) ==
  {ss[s].new_service_id : s \in 1..n} = {list[i][1] : i \in DOMAIN list}

LEMMA ProgramsListed ==
  ASSUME NEW ss, NEW n \in Nat, DOMAIN ss = 1..n
  PROVE  ArePrograms(CreatePat(ss).programs, ss, n)
<1>1. PICK programs : programs = CreatePat(ss).programs
  OBVIOUS
<1>2. programs = [s \in 1..n |-> [service_id |-> ss[s].new_service_id,
                                  pmt_pid |-> ss[s].new_pmt_pid]]
  BY <1>1 DEF CreatePat
<1> QED BY <1>1, <1>2 DEF ArePrograms

LEMMA PairsListed ==
  ASSUME NEW n \in Nat, NEW ss, NEW list, DOMAIN list = 1..n,
         \A s \in 1..n : list[s][1] = ss[s].new_service_id
  PROVE  HasIds(list, ss, n)
BY DEF HasIds

LEMMA IdsListed ==
  ASSUME NEW ss, NEW n \in Nat, DOMAIN ss = 1..n
  PROVE  /\ HasIds(CreateNit(ss).service_list, ss, n)
         /\ HasIds(CreateNit(ss).channels, ss, n)
<1>1. PICK list : list = CreateNit(ss).service_list
  OBVIOUS
<1>2. PICK channels : channels = CreateNit(ss).channels
  OBVIOUS
<1>3. list = [s \in 1..n |-> <<ss[s].new_service_id, ss[s].service_type>>]
  BY <1>1 DEF CreateNit
<1>4. channels = [s \in 1..n |-> <<ss[s].new_service_id, ss[s].lcn>>]
  BY <1>2 DEF CreateNit
<1>5. DOMAIN list = 1..n /\ \A s \in 1..n : list[s][1] = ss[s].new_service_id
  <2>1. DOMAIN list = 1..n
    BY <1>3, Zenon
  <2>2. ASSUME NEW s \in 1..n PROVE list[s][1] = ss[s].new_service_id
    <3>1. list[s] = <<ss[s].new_service_id, ss[s].service_type>>
      BY <1>3, Zenon
    <3> QED BY <3>1
  <2> QED BY <2>1, <2>2
<1>6. DOMAIN channels = 1..n /\ \A s \in 1..n : channels[s][1] = ss[s].new_service_id
  <2>1. DOMAIN channels = 1..n
    BY <1>4, Zenon
  <2>2. ASSUME NEW s \in 1..n PROVE channels[s][1] = ss[s].new_service_id
    <3>1. channels[s] = <<ss[s].new_service_id, ss[s].lcn>>
      BY <1>4, Zenon
    <3> QED BY <3>1
  <2> QED BY <2>1, <2>2
<1>7. HasIds(list, ss, n)
  BY <1>5, PairsListed, Zenon
<1>8. HasIds(channels, ss, n)
  BY <1>6, PairsListed, Zenon
<1> QED BY <1>1, <1>2, <1>7, <1>8

\* What one service's PMT lists.
LEMMA PmtListsAll ==
  ASSUME Inv, NEW s \in Ready
  PROVE  LET sv == services[s]
             listed == {sv.new_pmt.streams[j].pid : j \in DOMAIN sv.new_pmt.streams}
         IN /\ sv.new_pmt.service_id = sv.new_service_id
            /\ listed \cup {sv.new_pmt.pcr_pid} = NewPids(s)
            /\ \E i \in Sources(s) : Lists(sv, Streams[s][i].pmt)
<1>1. PICK i \in Sources(s) :
        LET sv == services[s]
            st == Streams[s][i]
        IN /\ st \in [pat : PatSection, pmt_pid : Nat, pmt : PmtSection,
                      earlier : Seq(SdtSection), sdt : SdtSection]
           /\ sv.new_service_id = Id(s)
           /\ sv.pid_map = PidMap(st.pmt, s * 100)
           /\ sv.new_pmt = CreatePmt([new_service_id |-> Id(s), pmt |-> st.pmt,
                                      pid_map |-> sv.pid_map])
  BY GivenParts, Zenon
<1>2. PICK pmt, n : pmt = Streams[s][i].pmt /\ n = s * 100
  OBVIOUS
<1>3. pmt \in PmtSection /\ n \in Nat
  BY <1>1, <1>2, ServicesCount, GivenParts DEF Inv
<1>4. PICK map : map = PidMap(pmt, n)
  OBVIOUS
<1>5. services[s].pid_map = map
  BY <1>1, <1>2, <1>4
<1>6. LET new == PmtStreams(pmt, map) IN
      /\ {new[k].pid : k \in DOMAIN new} \cup {Mapped(map, pmt.pcr_pid)} = Range(map)
      /\ \A j \in PassedOn(pmt) : \E k \in DOMAIN new :
           /\ new[k].type = pmt.streams[j].type
           /\ new[k].pid = map[pmt.streams[j].pid]
  BY <1>3, <1>4, PmtComplete
<1>7. PICK new : new = PmtStreams(pmt, map)
  OBVIOUS
<1>8. services[s].new_pmt = CreatePmt([new_service_id |-> Id(s), pmt |-> pmt, pid_map |-> map])
  BY <1>1, <1>2, <1>5
<1>9. /\ services[s].new_pmt.service_id = services[s].new_service_id
      /\ services[s].new_pmt.pcr_pid = Mapped(map, pmt.pcr_pid)
      /\ services[s].new_pmt.streams = new
  BY <1>1, <1>7, <1>8 DEF CreatePmt
<1>10. /\ {new[k].pid : k \in DOMAIN new} \cup {Mapped(map, pmt.pcr_pid)} = NewPids(s)
       /\ \A j \in PassedOn(pmt) : \E k \in DOMAIN new :
            /\ new[k].type = pmt.streams[j].type
            /\ new[k].pid = map[pmt.streams[j].pid]
  BY <1>5, <1>6, <1>7 DEF NewPids
<1>11. /\ DOMAIN map = {pmt.streams[j].pid : j \in PassedOn(pmt)} \cup {pmt.pcr_pid}
       /\ \A pid \in DOMAIN map : Mapped(map, pid) = map[pid]
  <2>1. LET m == PidMap(pmt, n) IN
        /\ DOMAIN m = {pmt.streams[j].pid : j \in PassedOn(pmt)} \cup {pmt.pcr_pid}
        /\ \A pid \in DOMAIN m : Mapped(m, pid) = m[pid]
    BY <1>3, MapNumbers, Zenon
  <2> QED BY <1>4, <2>1
<1>12. Mapped(map, pmt.pcr_pid) = map[pmt.pcr_pid]
  BY <1>11
<1> PICK sv : sv = services[s]
  OBVIOUS
<1>13. Lists(sv, pmt)
  BY <1>5, <1>9, <1>10, <1>11, <1>12, Zenon DEF Lists
<1> QED BY <1>2, <1>9, <1>10, <1>13

\* Whatever streams come and go in the input's PMT, whatever types they have and
\* wherever the PCR is, a receiver that starts from the new PAT finds every service
\* with all that is passed on, and the other tables name the services of the PAT.
THEOREM ReceiverFindsAll == Spec => []ReceiverFinds
<1>1. Inv /\ TablesMade => ReceiverFinds
  <2> SUFFICES ASSUME Inv, TablesMade, phase = "loop" PROVE ReceiverFinds
    BY ZenonT(30) DEF ReceiverFinds
  <2> PICK n \in Nat : n = NServices /\ DOMAIN services = 1..n
    BY ServicesCount DEF Inv
  <2>1. /\ IsServices(services) /\ Ready = 1..n
        /\ \A s \in DOMAIN services : services[s].sdt \in SdtSection
    BY ServicesTyped
  <2>2. pat = CreatePat(services) /\ sdt = CreateSdt(services) /\ nit = CreateNit(services)
    BY DEF TablesMade
  <2>3. ArePrograms(CreatePat(services).programs, services, n)
    BY ProgramsListed, Zenon
  <2>4. HasIds(CreateNit(services).service_list, services, n)
        /\ HasIds(CreateNit(services).channels, services, n)
    BY IdsListed, Zenon
  <2> PICK ids : ids = {services[s].new_service_id : s \in 1..n}
    OBVIOUS
  <2>5. {sdt.entries[i].service_id : i \in DOMAIN sdt.entries} \subseteq ids
    <3> PICK es : es = sdt.entries
      OBVIOUS
    <3> DEFINE T == [service_id : ids, free_CA_mode : {0}, descs : Seq(Descriptor)]
    <3>1. es \in Seq(T)
      <4>1. CreateSdt(services).entries \in
              Seq([service_id : {services[s].new_service_id : s \in DOMAIN services},
                   free_CA_mode : {0}, descs : Seq(Descriptor)])
        BY <2>1, NewSdt, Zenon
      <4> QED BY <2>2, <4>1
    <3>2. \A i \in DOMAIN es : es[i] \in T
      <4> HIDE DEF T
      <4> QED BY <3>1, LenProperties
    <3> QED BY <3>2, SMTT(30)
  <2>6. \A i \in DOMAIN pat.programs : \E s \in Ready :
         LET sv == services[s]
             listed == {sv.new_pmt.streams[j].pid : j \in DOMAIN sv.new_pmt.streams}
         IN /\ pat.programs[i] = [service_id |-> sv.new_pmt.service_id,
                                  pmt_pid |-> sv.new_pmt_pid]
            /\ listed \cup {sv.new_pmt.pcr_pid} = NewPids(s)
            /\ \E k \in Sources(s) : Lists(sv, Streams[s][k].pmt)
    <3> TAKE s \in DOMAIN pat.programs
    <3>1. s \in Ready /\ pat.programs[s] =
              [service_id |-> services[s].new_service_id, pmt_pid |-> services[s].new_pmt_pid]
      BY <2>1, <2>2, <2>3 DEF ArePrograms
    <3>2. services[s].new_pmt.service_id = services[s].new_service_id
      BY <3>1, PmtListsAll
    <3>3. pat.programs[s] =
              [service_id |-> services[s].new_pmt.service_id, pmt_pid |-> services[s].new_pmt_pid]
      BY <3>1, <3>2
    <3> QED BY <3>1, <3>3, PmtListsAll, Zenon
  <2>7. /\ ids = {pat.programs[i].service_id : i \in DOMAIN pat.programs}
        /\ ids = {nit.service_list[i][1] : i \in DOMAIN nit.service_list}
        /\ ids = {nit.channels[i][1] : i \in DOMAIN nit.channels}
    <3>1. /\ ArePrograms(pat.programs, services, n) /\ HasIds(nit.service_list, services, n)
          /\ HasIds(nit.channels, services, n)
      BY <2>2, <2>3, <2>4
    <3>2. ids = {pat.programs[i].service_id : i \in DOMAIN pat.programs}
      BY <3>1 DEF ArePrograms
    <3>3. ids = {nit.service_list[i][1] : i \in DOMAIN nit.service_list}
      BY <3>1 DEF HasIds
    <3>4. ids = {nit.channels[i][1] : i \in DOMAIN nit.channels}
      BY <3>1 DEF HasIds
    <3> QED BY <3>2, <3>3, <3>4
  <2>8. ASSUME NEW s \in Ready, NEW i \in DOMAIN services[s].sdt.entries,
               services[s].sdt.entries[i].service_id = services[s].service_id
        PROVE  services[s].new_service_id \in {sdt.entries[k].service_id : k \in DOMAIN sdt.entries}
    <3>1. PICK k \in DOMAIN CreateSdt(services).entries :
            CreateSdt(services).entries[k].service_id = services[s].new_service_id
      BY <2>1, <2>8, SdtNamesHeld
    <3> QED BY <2>2, <3>1
  <2> QED BY <2>5, <2>6, <2>7, <2>8, Zenon DEF ReceiverFinds
<1> QED BY <1>1, TablesMadeHolds, PTL

-----------------------------------------------------------------------------
(* The events.                                                             *)

\* The section passed on last is one of the input's, and what rewrite_eit makes
\* of it.
EitGiven ==
  eit # << >> =>
    \E e \in DOMAIN EitSections : \E sv, onid :
      /\ eit[1].section = EitSections[e]
      /\ eit[1].new_eit = RewriteEit(EitSections[e], sv, onid)

LEMMA EitGivenHolds == Spec => []EitGiven
<1>1. Init => EitGiven
  BY DEF Init, EitGiven
<1>2. EitGiven /\ [Next]_vars => EitGiven'
  <2> SUFFICES ASSUME EitGiven, [Next]_vars PROVE EitGiven'
    OBVIOUS
  <2>1. CASE UNCHANGED eit
    BY <2>1 DEF EitGiven
  <2>2. ASSUME NEW s \in 1..NServices, NEW e \in DOMAIN EitSections, PassEvent(s, e)
        PROVE  EitGiven'
    <3>1. eit' = << [section |-> EitSections[e], service |-> s,
                     new_eit |-> RewriteEit(EitSections[e], services[s], params.onid)] >>
      BY <2>2 DEF PassEvent
    <3> PICK new : new = RewriteEit(EitSections[e], services[s], params.onid)
      OBVIOUS
    <3>2. eit'[1].section = EitSections[e] /\ eit'[1].new_eit = new
      BY <3>1
    <3> QED BY <3>2, Zenon DEF EitGiven
  <2> QED BY <2>1, <2>2
          DEF Next, Configure, CalcCapacity, InitService, Sync, CreateTables, WriteTables, vars
<1> QED BY <1>1, <1>2, PTL DEF Spec

\* What has been copied of the event passed on.
LEMMA PassedEvent ==
  ASSUME EventsFit, EitGiven, eit # << >>
  PROVE  LET new == eit[1].new_eit
             ds  == eit[1].section.descs
         IN /\ new.copies \subseteq Nat /\ Len(new.overflow) \in Nat
            /\ Len(new.overflow) <= 5 * Cardinality(Tagged(ds, 78))
            /\ Len(new.overflow) <= ChunkSize
            /\ \A i \in DOMAIN ds : ds[i].tag = 78 \/ Size(ds[i]) + 6 <= 255 =>
                 new.descs[i].len = Size(new.descs[i])
            /\ ExtendedText(new.descs) \o new.overflow = ExtendedText(ds)
<1>1. PICK e \in DOMAIN EitSections : \E sv, onid :
        /\ eit[1].section = EitSections[e]
        /\ eit[1].new_eit = RewriteEit(EitSections[e], sv, onid)
  BY Zenon DEF EitGiven
<1>2. PICK sv, onid : /\ eit[1].section = EitSections[e]
                      /\ eit[1].new_eit = RewriteEit(EitSections[e], sv, onid)
  BY <1>1, Zenon
<1> PICK ds : ds = EitSections[e].descs
  OBVIOUS
<1>3. ds \in Seq(Descriptor) /\ TextsFit(ds)
  BY InputAssumption DEF EventsFit, EitSection
<1> PICK copied : copied = CopyEitDescriptors(ds, sv.onid)
  OBVIOUS
<1>4. /\ copied.copies \subseteq Nat /\ Len(copied.overflow) \in Nat
      /\ Len(copied.overflow) <= 5 * Cardinality(Tagged(ds, 78))
      /\ Len(copied.overflow) <= ChunkSize
      /\ \A i \in DOMAIN ds : ds[i].tag = 78 \/ Size(ds[i]) + 6 <= 255 =>
           copied.out[i].len = Size(copied.out[i])
      /\ ExtendedText(copied.out) \o copied.overflow = ExtendedText(ds)
  BY <1>3, CopiedEvent, Zenon
<1> PICK new : new = eit[1].new_eit
  OBVIOUS
<1>5. /\ new.descs = copied.out /\ new.overflow = copied.overflow
      /\ new.copies = copied.copies
  BY <1>2 DEF RewriteEit
<1>6. eit[1].section.descs = ds
  BY <1>2
<1> QED BY <1>4, <1>5, <1>6, Zenon

\* Whatever descriptors an event has, with texts of whatever lengths: of its
\* extended text nothing is lost, doubled or out of place, as long as there is
\* room for the code page and what may overflow beside the items.
THEOREM EventTextStays == EventsFit => (Spec => []EventTextKept)
<1> SUFFICES ASSUME EventsFit PROVE Spec => []EventTextKept
  OBVIOUS
<1>1. EitGiven => EventTextKept
  BY PassedEvent, Zenon DEF EventTextKept
<1> QED BY <1>1, EitGivenHolds, PTL

-----------------------------------------------------------------------------
(* The names and the length bytes.                                         *)

LEMMA ServiceNames ==
  ASSUME Inv, NamesFit, NEW s \in Ready
  PROVE  NamesHeld(services[s])
<1>1. s \in DOMAIN Streams
  BY GivenParts
<1>2. PICK i \in Sources(s) :
        /\ i \in DOMAIN Streams[s]
        /\ services[s].service_id = ProcessPat(Streams[s][i].pat).service_id
        /\ services[s].onid = Streams[s][i].sdt.onid
        /\ services[s].sdt \in Sdts(s, Streams[s][i].sdt)
  BY GivenParts, Zenon
<1> PICK st : st = Streams[s][i]
  OBVIOUS
<1> PICK section : section = services[s].sdt
  OBVIOUS
<1>3. section \in Sdts(s, st.sdt)
  BY <1>2
<1>4. \A j \in DOMAIN section.entries :
        section.entries[j].service_id = ProcessPat(st.pat).service_id =>
          NameFits(section.entries[j].descs, st.sdt.onid)
  BY <1>1, <1>2, <1>3, Zenon DEF NamesFit
<1> QED BY <1>2, <1>4 DEF NamesHeld

\* However many descriptors share an event's text, whatever the lengths: no number
\* of bytes copied is negative, the overflow stays in its buffer, and every length
\* byte of the new events and of the new SDT is true, if the recoded texts of the
\* input can fit.
THEOREM LengthsTrue == NamesFit /\ EventsFit => (Spec => []LengthsFit)
<1> SUFFICES ASSUME NamesFit, EventsFit PROVE Spec => []LengthsFit
  OBVIOUS
<1>1. ASSUME EitGiven, eit # << >>
      PROVE  LET ev == eit[1].new_eit
                 in == eit[1].section.descs
             IN /\ \A n \in ev.copies : n >= 0
                /\ Len(ev.overflow) <= ChunkSize
                /\ Len(ev.overflow) <= 5 * Cardinality(Tagged(in, 78))
                /\ \A i \in DOMAIN in :
                     in[i].tag = 78 \/ Size(in[i]) + 6 <= 255 =>
                       ev.descs[i].len = Size(ev.descs[i])
  <2>1. eit[1].new_eit.copies \subseteq Nat
    BY <1>1, PassedEvent, Zenon
  <2>2. \A n \in eit[1].new_eit.copies : n >= 0
    BY <2>1
  <2> QED BY <1>1, <2>2, PassedEvent, Zenon
<1>2. ASSUME Inv, TablesMade, phase = "loop"
      PROVE  \A i \in DOMAIN sdt.entries : \A j \in DOMAIN sdt.entries[i].descs :
               sdt.entries[i].descs[j].len = Size(sdt.entries[i].descs[j])
  <2>1. IsServices(services) /\ Ready = 1..NServices /\ DOMAIN services = 1..NServices
    BY <1>2, ServicesTyped, ServicesCount DEF Inv
  <2>2. \A s \in DOMAIN services : services[s].sdt \in SdtSection /\ NamesHeld(services[s])
    BY <1>2, <2>1, ServicesTyped, ServiceNames
  <2>3. sdt = CreateSdt(services)
    BY <1>2 DEF TablesMade
  <2>4. LET es == CreateSdt(services).entries IN
         \A i \in DOMAIN es : \A j \in DOMAIN es[i].descs :
           es[i].descs[j].len = Size(es[i].descs[j])
    BY <2>1, <2>2, SdtTrue, Zenon
  <2> QED BY <2>3, <2>4, Zenon
<1>3. Inv /\ TablesMade /\ EitGiven => LengthsFit
  BY <1>1, <1>2, Zenon DEF LengthsFit
<1> QED BY <1>3, TablesMadeHolds, EitGivenHolds, PTL

LEMMA ServicesOwnIds ==
  ASSUME Inv, IdsDiffer, phase \in {"create", "loop"}
  PROVE  OwnIds(services)
<1>1. /\ file \in DOMAIN Files /\ ConfigValid(Files[file])
      /\ 1 \in DOMAIN Files[file].muxes[1].values /\ NServices = Len(Entries)
  BY DEF Inv, FromFile
<1>2. IsList(Entries)
  BY <1>1, InputAssumption DEF Entries
<1>3. DOMAIN Entries = 1..NServices
  BY <1>1, <1>2, LenProperties DEF IsList
<1>4. DOMAIN services = 1..NServices /\ Ready = 1..NServices
  BY ServicesCount DEF Inv, Ready
<1>5. \A s \in DOMAIN services : services[s].new_service_id = ParseService(Entries[s]).service_id
  BY <1>4, GivenParts DEF Id
<1>6. \A s, t \in DOMAIN Entries : s # t =>
        ParseService(Entries[s]).service_id # ParseService(Entries[t]).service_id
  BY <1>1, Zenon DEF IdsDiffer, Entries
<1> QED BY <1>3, <1>4, <1>5, <1>6 DEF OwnIds

\* Whatever entries the sections have, in whatever order, and whichever of its
\* sections a service holds: under its new id the new SDT has all its names, whole
\* and in order, and those of no other, if there is room to recode them.
THEOREM NamesStay == NamesFit /\ IdsDiffer => (Spec => []NamesKept)
<1> SUFFICES ASSUME NamesFit, IdsDiffer PROVE Spec => []NamesKept
  OBVIOUS
<1>1. Inv /\ TablesMade => NamesKept
  <2> SUFFICES ASSUME Inv, TablesMade, phase = "loop", NEW s \in Ready
               PROVE  \E k \in Sources(s) : \E section \in Sdts(s, Streams[s][k].sdt) :
                        /\ section = services[s].sdt
                        /\ Names(sdt.entries, services[s].new_service_id) =
                             Names(section.entries, ProcessPat(Streams[s][k].pat).service_id)
    BY Zenon DEF NamesKept
  <2>1. /\ IsServices(services)
        /\ \A t \in DOMAIN services : services[t].sdt \in SdtSection
    BY ServicesTyped
  <2>2. OwnIds(services)
    BY ServicesOwnIds
  <2>3. s \in DOMAIN services /\ NamesHeld(services[s])
    BY GivenParts, ServiceNames
  <2>4. sdt = CreateSdt(services)
    BY DEF TablesMade
  <2>5. Names(CreateSdt(services).entries, services[s].new_service_id)
          = Names(services[s].sdt.entries, services[s].service_id)
    BY <2>1, <2>2, <2>3, SdtNamed
  <2>6. PICK k \in Sources(s) :
          /\ services[s].service_id = ProcessPat(Streams[s][k].pat).service_id
          /\ services[s].sdt \in Sdts(s, Streams[s][k].sdt)
    BY GivenParts, Zenon
  <2> QED BY <2>4, <2>5, <2>6
<1> QED BY <1>1, TablesMadeHolds, PTL

-----------------------------------------------------------------------------
(* The room for the tables.                                                *)

\* The periods of the tables are those of the capacity.
Timed == freq = FreqInBits(capacity)

LEMMA TimedHolds == Spec => []Timed
<1>1. Init => Timed
  <2> SUFFICES ASSUME Init PROVE Timed
    OBVIOUS
  <2>1. MsToBits(0, 200) = 0 /\ MsToBits(0, 1000) = 0
    BY DEF MsToBits
  <2>2. capacity = 0 /\ freq = [t \in TableNames |-> 0]
    BY DEF Init
  <2> QED BY <2>1, <2>2 DEF Timed, FreqInBits
<1>2. Timed /\ [Next]_vars => Timed'
  <2> SUFFICES ASSUME Timed, [Next]_vars PROVE Timed'
    OBVIOUS
  <2>1. CASE UNCHANGED <<capacity, freq>>
    BY <2>1 DEF Timed
  <2>2. CASE CalcCapacity
    BY <2>1, <2>2 DEF CalcCapacity, Timed
  <2> QED BY <2>1, <2>2
          DEF Next, Configure, InitService, Sync, CreateTables, WriteTables, PassEvent, vars
<1> QED BY <1>1, <1>2, PTL DEF Spec

\* A capacity divided by its fifth, and by itself.
LEMMA FifthFits ==
  ASSUME NEW c \in Nat, c >= 25
  PROVE  c \div (c \div 5) = 5 /\ c \div c = 1
<1>1. PICK q \in Nat, r \in Nat : q = c \div 5 /\ r = c % 5 /\ c = 5 * q + r /\ r < 5
  <2>1. c \div 5 \in Nat /\ c % 5 \in Nat /\ c = 5 * (c \div 5) + (c % 5)
    BY Quotient
  <2>2. c % 5 < 5
    OBVIOUS
  <2> QED BY <2>1, <2>2
<1>2. q >= 5
  BY <1>1
<1>3. PICK k \in Nat : k = c \div q /\ q * k <= c /\ c < q * k + q
  BY <1>2, Quotient
<1>4. k = 5
  <2>1. CASE k >= 6
    <3>1. q * 6 <= q * k
      BY <2>1
    <3>2. PICK x \in Int : x = q * k
      OBVIOUS
    <3> QED BY <1>1, <1>2, <1>3, <3>1, <3>2
  <2>2. CASE k <= 4
    <3>1. q * k <= q * 4
      BY <2>2
    <3>2. PICK x \in Int : x = q * k
      OBVIOUS
    <3> QED BY <1>1, <1>3, <3>1, <3>2
  <2> QED BY <2>1, <2>2
<1>5. PICK j \in Nat : j = c \div c /\ c * j <= c /\ c < c * j + c
  BY Quotient
<1>6. j = 1
  <2>1. CASE j >= 2
    <3>1. c * 2 <= c * j
      BY <2>1
    <3>2. PICK x \in Int : x = c * j
      OBVIOUS
    <3> QED BY <1>5, <3>1, <3>2
  <2>2. CASE j = 0
    <3>1. c * j = 0
      BY <2>2
    <3> QED BY <1>5, <3>1
  <2> QED BY <2>1, <2>2
<1> QED BY <1>1, <1>3, <1>4, <1>5, <1>6

\* The packets of a table that fits its buffer.
LEMMA ShortPackets ==
  ASSUME NEW length \in Nat, length <= SectionSize
  PROVE  PacketsOf(length) \in Nat /\ PacketsOf(length) <= 23
<1>1. PICK q \in Nat : q = length \div 184 /\ 184 * q <= length
  BY Quotient
<1>2. q <= 22
  BY <1>1 DEF SectionSize
<1> QED BY <1>1, <1>2 DEF PacketsOf

\* Every table of a mux has a length, a sum of natural numbers.
LEMMA TableLengths ==
  ASSUME Inv, TablesMade, phase = "loop"
  PROVE  /\ pat.length \in Nat /\ sdt.length \in Nat /\ nit.length \in Nat
         /\ \A s \in 1..NServices : services[s].new_pmt.length \in Nat
<1>1. /\ IsServices(services)
      /\ \A s \in DOMAIN services : services[s].sdt \in SdtSection
      /\ \A s \in 1..NServices : services[s].new_pmt.length \in Nat
  BY ServicesTyped
<1>2. CreateSdt(services).length \in Nat /\ CreateNit(services).length \in Nat
  BY <1>1, NewSdt, NewNit
<1>3. CreatePat(services).length \in Nat
  <2>1. CreatePat(services).length = 8 + 4 * Len(services) + 4
    BY DEF CreatePat
  <2> QED BY <1>1, <2>1 DEF IsServices
<1> QED BY <1>1, <1>2, <1>3 DEF TablesMade

\* The packets of the PMTs, of which each service has one.
LEMMA PmtPackets ==
  ASSUME NServices \in Nat,
         \A s \in 1..NServices : /\ services[s].new_pmt.length \in Nat
                                 /\ services[s].new_pmt.length <= SectionSize
  PROVE  LET pmts == Total([s \in 1..NServices |-> PacketsOf(services[s].new_pmt.length)])
         IN pmts \in Nat /\ pmts <= 23 * NServices
<1>1. PICK n \in Nat : n = NServices
  OBVIOUS
<1>2. PICK ns : ns = [s \in 1..n |-> PacketsOf(services[s].new_pmt.length)]
  OBVIOUS
<1>3. \A s \in 1..n : ns[s] \in Nat /\ ns[s] <= 23
  BY <1>1, <1>2, ShortPackets
<1>4. ns = [s \in 1..n |-> ns[s]]
  BY <1>2
<1>5. ns \in Seq(Nat) /\ Len(ns) = n
  BY <1>3, <1>4, MapSeq
<1>6. Total(ns) \in Nat /\ Total(ns) <= 23 * n
  BY <1>3, <1>5, TotalNat, TotalAtMost
<1> QED BY <1>1, <1>2, <1>6

\* Five times the PAT and the PMTs and once the SDT and the NIT, in bits, and the
\* most that tables of k services take, none longer than SectionSize.
Spent(w, x, y, z) == w * 1504 * 5 + x * 1504 * 5 + y * 1504 * 1 + z * 1504 * 1

AtMost23(w, x, y, z, k) == w <= 23 /\ x <= 23 * k /\ y <= 23 /\ z <= 23

Most(k) == (5 * (1 + k) + 2) * 23 * 1504

LEMMA RoomForAll ==
  ASSUME NEW k \in Nat, NEW room \in Nat,
         NEW w \in Nat, NEW x \in Nat, NEW y \in Nat, NEW z \in Nat,
         Most(k) < room, AtMost23(w, x, y, z, k)
  PROVE  Spent(w, x, y, z) < room
<1>1. 5 * (w + x) + y + z <= 23 * (5 * (1 + k) + 2)
  BY DEF AtMost23
<1>2. PICK u \in Nat, v \in Nat : /\ u = 5 * (w + x) + y + z
                                  /\ v = 23 * (5 * (1 + k) + 2)
                                  /\ u <= v
  BY <1>1
<1>3. 1504 * u <= 1504 * v
  BY <1>2
<1>4. Spent(w, x, y, z) = 1504 * u
  BY <1>2 DEF Spent
<1>5. Most(k) = 1504 * v
  BY <1>2 DEF Most
<1> QED BY <1>2, <1>3, <1>4, <1>5

\* As long as the tables fit their buffers, the periods mux_thread computes leave
\* room for the services on every channel of more than 173 kbit/s a service and 243
\* kbit/s, whatever its capacity does to the divisions.
THEOREM TablesLeaveRoom == Spec => [](TablesShort => TablesFit)
<1>1. Inv /\ TablesMade /\ Typed /\ Timed => (TablesShort => TablesFit)
  <2> SUFFICES ASSUME Inv, TablesMade, Typed, Timed, TablesShort, phase = "loop"
               PROVE  TablesFit
    BY DEF TablesFit
  <2>1. PICK n \in Nat : n = NServices
    BY ServicesCount DEF Inv
  <2>2. /\ pat.length \in Nat /\ sdt.length \in Nat /\ nit.length \in Nat
        /\ \A s \in 1..NServices : services[s].new_pmt.length \in Nat
    BY TableLengths
  <2>3. /\ pat.length <= SectionSize /\ sdt.length <= SectionSize /\ nit.length <= SectionSize
        /\ \A s \in 1..NServices : services[s].new_pmt.length <= SectionSize
        /\ (5 * (1 + NServices) + 2) * PacketsOf(SectionSize) * 1504 < capacity
    BY Zenon DEF TablesShort
  <2>4. PICK c \in Nat : c = capacity
    BY DEF Typed
  <2>5. PacketsOf(SectionSize) = 23
    BY DEF PacketsOf, SectionSize
  <2>6. (5 * (1 + n) + 2) * 23 * 1504 < c
    BY <2>1, <2>3, <2>4, <2>5
  <2>7. c \div (c \div 5) = 5 /\ c \div c = 1
    <3>1. c >= 25
      BY <2>6
    <3> QED BY <3>1, FifthFits
  <2>8. MsToBits(c, 200) = c \div 5 /\ MsToBits(c, 1000) = c
    BY DEF MsToBits
  <2>9. freq = [t \in TableNames |-> MsToBits(c, IF t \in {"pat", "pmt"} THEN 200 ELSE 1000)]
    BY <2>4 DEF Timed, FreqInBits
  <2>10. /\ freq["pat"] = c \div 5 /\ freq["pmt"] = c \div 5
         /\ freq["sdt"] = c /\ freq["nit"] = c
    BY <2>8, <2>9 DEF TableNames
  <2>11. /\ capacity \div freq["pat"] = 5 /\ capacity \div freq["pmt"] = 5
         /\ capacity \div freq["sdt"] = 1 /\ capacity \div freq["nit"] = 1
    BY <2>4, <2>7, <2>10
  <2>12. PICK a \in Nat, b \in Nat, d \in Nat :
           /\ a = PacketsOf(pat.length) /\ b = PacketsOf(sdt.length) /\ d = PacketsOf(nit.length)
           /\ a <= 23 /\ b <= 23 /\ d <= 23
    BY <2>2, <2>3, ShortPackets
  <2>13. PICK p \in Nat :
           /\ p = Total([s \in 1..NServices |-> PacketsOf(services[s].new_pmt.length)])
           /\ p <= 23 * n
    BY <2>1, <2>2, <2>3, PmtPackets, SMTT(30)
  <2>14. a * 1504 * 5 + p * 1504 * 5 + b * 1504 * 1 + d * 1504 * 1 < c
    <3>1. AtMost23(a, p, b, d, n)
      BY <2>12, <2>13, Zenon DEF AtMost23
    <3>2. n \in Nat /\ c \in Nat /\ a \in Nat /\ p \in Nat /\ b \in Nat /\ d \in Nat
      BY <2>1, <2>4, <2>12, <2>13, Zenon
    <3>3. Most(n) < c
      BY <2>6 DEF Most
    <3>4. Spent(a, p, b, d) < c
      BY <3>1, <3>2, <3>3, RoomForAll, Zenon
    <3> QED BY <3>4 DEF Spent
  <2> QED BY <2>4, <2>11, <2>12, <2>13, <2>14 DEF TablesFit
<1>2. Spec => []Typed
  <2>1. Init => Typed
    BY InputAssumption DEF Init, Typed
  <2> QED BY <2>1, TypedStep, RatedHolds, PTL DEF Spec
<1> QED BY <1>1, <1>2, TimedHolds, TablesMadeHolds, PTL
=============================================================================
