---------------------------- MODULE TableProofs ----------------------------
(***************************************************************************)
(* What the operators of Tables and Events compute, for sections of any    *)
(* length: sums, selections and concatenations over lists, the PIDs of a   *)
(* service, and the text of an event that moves from one descriptor to the *)
(* next.  Each recursive function is shown to be a loop over its list;     *)
(* what such a loop keeps holds because no round is the first to break it. *)
(***************************************************************************)
EXTENDS Events, Arithmetic, SequenceTheorems, FiniteSetTheorems

-----------------------------------------------------------------------------
(* Lists.                                                                  *)

\* A sequence by its places and elements.
LEMMA SeqByPlaces ==
  ASSUME NEW S, NEW n \in Nat, NEW x, DOMAIN x = 1..n, x = [i \in 1..n |-> x[i]],
         \A i \in 1..n : x[i] \in S
  PROVE  x \in Seq(S) /\ Len(x) = n
<1>1. x \in [1..n -> S]
  BY Zenon
<1> QED BY <1>1

LEMMA PlacesOfSeq ==
  ASSUME NEW S, NEW x \in Seq(S)
  PROVE  /\ Len(x) \in Nat /\ DOMAIN x = 1..Len(x) /\ x = [i \in 1..Len(x) |-> x[i]]
         /\ \A i \in 1..Len(x) : x[i] \in S
BY LenProperties

\* A list made from another, place by place.
LEMMA MapSeq ==
  ASSUME NEW S, NEW n \in Nat, NEW x, x = [i \in 1..n |-> x[i]],
         \A i \in 1..n : x[i] \in S
  PROVE  x \in Seq(S) /\ Len(x) = n /\ DOMAIN x = 1..n
<1>1. DOMAIN x = 1..n
  BY Zenon
<1> QED BY <1>1, SeqByPlaces

\* What holds before the first round of a loop, and after each if it held before
\* it, holds after all.
LEMMA Rounds ==
  ASSUME NEW n \in Nat, NEW Good, 0 \in Good, \A k \in 1..n : k - 1 \in Good => k \in Good
  PROVE  \A k \in 0..n : k \in Good
<1> DEFINE Bad == {k \in 0..n : k \notin Good}
<1> SUFFICES ASSUME Bad # {} PROVE FALSE
  OBVIOUS
<1>1. PICK k \in Bad : \A j \in Bad : k <= j
  <2> Bad \subseteq Nat OBVIOUS
  <2> HIDE DEF Bad
  <2> QED BY Least
<1>2. k \in 1..n /\ k - 1 \in 0..n
  OBVIOUS
<1>3. k - 1 \notin Bad
  <2>1. ~(k <= k - 1)
    BY <1>2
  <2> HIDE DEF Bad
  <2> QED BY <1>1, <2>1, Zenon
<1> QED BY <1>2, <1>3

-----------------------------------------------------------------------------
(* Sums.                                                                   *)

IsSum(f, ns, n) == f = [i \in 0..n |-> IF i = 0 THEN 0 ELSE f[i - 1] + ns[i]]

LEMMA SumExists ==
  ASSUME NEW ns, NEW n \in Nat
  PROVE  \E f : IsSum(f, ns, n)
<1> DEFINE Bad == {k \in Nat : ~\E f : IsSum(f, ns, k)}
<1> SUFFICES ASSUME Bad # {} PROVE FALSE
  BY Zenon
<1>1. PICK k \in Bad : \A j \in Bad : k <= j
  <2> Bad \subseteq Nat OBVIOUS
  <2> HIDE DEF Bad
  <2> QED BY Least
<1>2. k \in Nat /\ ~\E f : IsSum(f, ns, k)
  OBVIOUS
<1>3. CASE k = 0
  <2> DEFINE f == [i \in 0..0 |-> 0]
  <2>1. IsSum(f, ns, 0)
    BY DEF IsSum
  <2> QED BY <1>2, <1>3, <2>1, Zenon
<1>4. CASE k > 0
  <2>1. k - 1 \in Nat /\ ~(k - 1 \in Bad)
    BY <1>1, <1>2, <1>4
  <2>2. PICK g : IsSum(g, ns, k - 1)
    BY <2>1, Zenon
  <2> DEFINE f == [i \in 0..k |-> IF i = 0 THEN 0 ELSE g[i - 1] + ns[i]]
  <2>3. \A i \in 0..k - 1 : f[i] = g[i]
    BY <1>2, <1>4, <2>2 DEF IsSum
  <2>4. \A i \in 0..k : i # 0 => f[i - 1] = g[i - 1]
    <3> HIDE DEF f
    <3> QED BY <1>2, <2>3
  <2>5. IsSum(f, ns, k)
    BY <2>4, Zenon DEF IsSum
  <2> QED BY <1>2, <2>5, Zenon
<1> QED BY <1>2, <1>3, <1>4

\* Total adds up one number after the other.
LEMMA TotalLoop ==
  ASSUME NEW ns, Len(ns) \in Nat
  PROVE  \E m : /\ m[0] = 0 /\ Total(ns) = m[Len(ns)]
                /\ \A k \in 1..Len(ns) : m[k] = m[k - 1] + ns[k]
<1> DEFINE n == Len(ns)
           m == CHOOSE f : IsSum(f, ns, n)
<1>1. Total(ns) = m[n]
  BY Zenon DEF Total, IsSum
<1>2. IsSum(m, ns, n)
  BY SumExists, Zenon
<1> HIDE DEF m
<1>3. \A i \in 0..n : m[i] = IF i = 0 THEN 0 ELSE m[i - 1] + ns[i]
  BY <1>2, Zenon DEF IsSum
<1>4. 0 \in 0..n /\ \A k \in 1..n : k \in 0..n /\ k # 0
  OBVIOUS
<1>5. m[0] = 0
  BY <1>3, <1>4, Zenon
<1>6. \A k \in 1..n : m[k] = m[k - 1] + ns[k]
  BY <1>3, <1>4, Zenon
<1> QED BY <1>1, <1>5, <1>6, Zenon

\* A sum of numbers is a number.
LEMMA TotalNat ==
  ASSUME NEW ns \in Seq(Nat)
  PROVE  Total(ns) \in Nat
<1>1. Len(ns) \in Nat /\ \A k \in 1..Len(ns) : ns[k] \in Nat
  BY LenProperties
<1>2. PICK m : /\ m[0] = 0 /\ Total(ns) = m[Len(ns)]
               /\ \A k \in 1..Len(ns) : m[k] = m[k - 1] + ns[k]
  BY <1>1, TotalLoop
<1> DEFINE Bad == {k \in 0..Len(ns) : m[k] \notin Nat}
<1> SUFFICES ASSUME Bad # {} PROVE FALSE
  BY <1>1, <1>2
<1>3. PICK k \in Bad : \A j \in Bad : k <= j
  <2> Bad \subseteq Nat OBVIOUS
  <2> HIDE DEF Bad
  <2> QED BY Least
<1>4. k # 0
  BY <1>2
<1>5. k \in 1..Len(ns) /\ k - 1 \in 0..Len(ns) /\ k - 1 \notin Bad
  <2>1. k \in 1..Len(ns) /\ k - 1 \in 0..Len(ns)
    BY <1>1, <1>4
  <2>2. ~(k <= k - 1) /\ k \in Int
    BY <2>1
  <2> HIDE DEF Bad
  <2> QED BY <1>3, <2>1, <2>2, Zenon
<1>6. m[k - 1] \in Nat
  BY <1>5
<1> QED BY <1>1, <1>2, <1>5, <1>6, SMTT(30)
-----------------------------------------------------------------------------
(* Concatenations.                                                         *)

IsFlat(f, ss, n) ==
  f = [i \in 1..n |-> IF i = 1 THEN ss[i] ELSE f[i - 1] \o ss[i]]

LEMMA FlatExists ==
  ASSUME NEW ss, NEW n \in Nat
  PROVE  \E f : IsFlat(f, ss, n)
<1> DEFINE Good == {k \in 0..n : \E f : IsFlat(f, ss, k)}
<1>1. 0 \in Good
  <2> DEFINE f == [i \in 1..0 |-> ss[i]]
  <2>1. IsFlat(f, ss, 0)
    BY DEF IsFlat
  <2>2. 0 \in 0..n
    OBVIOUS
  <2> QED BY <2>1, <2>2, Zenon
<1>2. ASSUME NEW k \in 1..n, k - 1 \in Good PROVE k \in Good
  <2>1. PICK g : IsFlat(g, ss, k - 1)
    BY <1>2, Zenon
  <2> DEFINE f == [i \in 1..k |-> IF i = 1 THEN ss[i] ELSE g[i - 1] \o ss[i]]
  <2>2. \A i \in 1..k - 1 : f[i] = g[i]
    <3>1. \A i \in 1..k - 1 : i \in 1..k
      OBVIOUS
    <3>2. \A i \in 1..k - 1 : g[i] = IF i = 1 THEN ss[i] ELSE g[i - 1] \o ss[i]
      BY <2>1, Zenon DEF IsFlat
    <3> QED BY <3>1, <3>2, Zenon
  <2>3. \A i \in 1..k : i # 1 => f[i - 1] = g[i - 1]
    <3> HIDE DEF f
    <3> QED BY <2>2
  <2>4. IsFlat(f, ss, k)
    BY <2>3, Zenon DEF IsFlat
  <2>5. k \in 0..n
    OBVIOUS
  <2> QED BY <2>4, <2>5, Zenon
<1>3. \A k \in 0..n : k \in Good
  <2> HIDE DEF Good
  <2> QED BY <1>1, <1>2, Rounds
<1>4. n \in 0..n
  OBVIOUS
<1> QED BY <1>3, <1>4, Zenon

\* m is what is there after each round of appending the elements of ss.
Appends(m, ss) ==
  m[0] = << >> /\ \A k \in 1..Len(ss) : m[k] = m[k - 1] \o ss[k]

\* FlattenSeq appends one list after the other.
LEMMA FlatLoop ==
  ASSUME NEW S, NEW ss \in Seq(Seq(S))
  PROVE  \E m : /\ Appends(m, ss) /\ FlattenSeq(ss) = m[Len(ss)]
                /\ \A k \in 0..Len(ss) : m[k] \in Seq(S)
<1> DEFINE n == Len(ss)
           F == CHOOSE f : IsFlat(f, ss, n)
           m == [k \in 0..n |-> IF k = 0 THEN << >> ELSE F[k]]
           T == Seq(S)
<1>1. n \in Nat /\ \A k \in 1..n : ss[k] \in T
  BY LenProperties
<1>2. n = 0 => ss = << >>
  BY EmptySeq
<1>3. FlattenSeq(ss) = IF n = 0 THEN ss ELSE F[n]
  BY Zenon DEF FlattenSeq, IsFlat
<1>4. IsFlat(F, ss, n)
  BY <1>1, FlatExists, Zenon
<1> HIDE DEF F
<1>5. \A k \in 1..n : F[k] = IF k = 1 THEN ss[k] ELSE F[k - 1] \o ss[k]
  BY <1>4, Zenon DEF IsFlat
<1>6. m[0] = << >> /\ \A k \in 1..n : m[k] = F[k] /\ k - 1 \in 0..n /\ k \in 0..n
  BY <1>1
<1>7. \A k \in 1..n : k # 1 => m[k - 1] = F[k - 1]
  BY <1>1
<1>8. m[1 - 1] = << >>
  BY <1>6
<1>9. FlattenSeq(ss) = m[n]
  BY <1>1, <1>2, <1>3, <1>6
<1> HIDE DEF m
<1>10. ASSUME NEW k \in 1..n PROVE m[k] = m[k - 1] \o ss[k]
  <2>1. CASE k = 1
    <3>1. m[k] = ss[1] /\ m[k - 1] = << >> /\ ss[1] \in Seq(S)
      BY <1>1, <1>5, <1>6, <1>8, <2>1
    <3>2. << >> \o ss[1] = ss[1]
      BY <3>1, ConcatEmptySeq, Zenon
    <3> QED BY <2>1, <3>1, <3>2, Zenon
  <2>2. CASE k # 1
    BY <1>5, <1>6, <1>7, <2>2, Zenon
  <2> QED BY <2>1, <2>2, Zenon
<1>11. \A k \in 0..n : m[k] \in T
  <2> DEFINE Good == {k \in 0..n : m[k] \in T}
  <2>1. 0 \in Good
    <3>1. 0 \in 0..n
      BY <1>1
    <3>2. << >> \in T
      BY EmptySeq, Zenon
    <3> QED BY <1>6, <3>1, <3>2, Zenon
  <2>2. \A k \in 1..n : k - 1 \in Good => k \in Good
    <3> TAKE k \in 1..n
    <3> HAVE k - 1 \in Good
    <3>1. m[k - 1] \in Seq(S) /\ ss[k] \in Seq(S)
      BY <1>1
    <3>2. m[k - 1] \o ss[k] \in Seq(S)
      BY <3>1, ConcatProperties, Zenon
    <3> QED BY <1>6, <1>10, <3>2, Zenon
  <2>3. \A k \in 0..n : k \in Good
    <3> HIDE DEF Good
    <3> QED BY <1>1, <2>1, <2>2, Rounds, Zenon
  <2> QED BY <2>3, Zenon
<1> QED BY <1>6, <1>9, <1>10, <1>11, Zenon DEF Appends

LEMMA FlatSeq ==
  ASSUME NEW S, NEW ss \in Seq(Seq(S))
  PROVE  FlattenSeq(ss) \in Seq(S)
<1>1. PICK m : FlattenSeq(ss) = m[Len(ss)] /\ \A k \in 0..Len(ss) : m[k] \in Seq(S)
  BY FlatLoop, Zenon
<1>2. Len(ss) \in 0..Len(ss)
  BY LenProperties
<1> QED BY <1>1, <1>2, Zenon

LEMMA RangeOfConcat ==
  ASSUME NEW S, NEW a \in Seq(S), NEW b \in Seq(S)
  PROVE  Range(a \o b) = Range(a) \cup Range(b)
<1>1. /\ Len(a) \in Nat /\ Len(b) \in Nat
      /\ DOMAIN a = 1..Len(a) /\ DOMAIN b = 1..Len(b) /\ DOMAIN (a \o b) = 1..Len(a) + Len(b)
      /\ \A i \in 1..Len(a) + Len(b) :
           (a \o b)[i] = IF i <= Len(a) THEN a[i] ELSE b[i - Len(a)]
  BY ConcatProperties, LenProperties
<1>2. ASSUME NEW e \in Range(a \o b) PROVE e \in Range(a) \cup Range(b)
  <2>1. PICK i \in 1..Len(a) + Len(b) : e = (a \o b)[i]
    BY <1>1 DEF Range
  <2>2. CASE i <= Len(a)
    BY <1>1, <2>1, <2>2 DEF Range
  <2>3. CASE ~(i <= Len(a))
    <3>1. i - Len(a) \in 1..Len(b) /\ e = b[i - Len(a)]
      BY <1>1, <2>1, <2>3
    <3> QED BY <1>1, <3>1 DEF Range
  <2> QED BY <2>2, <2>3
<1>3. ASSUME NEW i \in 1..Len(a) PROVE a[i] \in Range(a \o b)
  <2>1. i \in 1..Len(a) + Len(b) /\ (a \o b)[i] = a[i]
    BY <1>1
  <2> QED BY <1>1, <2>1 DEF Range
<1>4. ASSUME NEW i \in 1..Len(b) PROVE b[i] \in Range(a \o b)
  <2>1. Len(a) + i \in 1..Len(a) + Len(b) /\ (a \o b)[Len(a) + i] = b[i]
    BY <1>1
  <2> QED BY <1>1, <2>1 DEF Range
<1> QED BY <1>1, <1>2, <1>3, <1>4 DEF Range

\* What is in a concatenation is in one of the lists.
LEMMA FlatRange ==
  ASSUME NEW S, NEW ss \in Seq(Seq(S))
  PROVE  Range(FlattenSeq(ss)) = UNION {Range(ss[i]) : i \in 1..Len(ss)}
<1> DEFINE n == Len(ss)
           Upto(k) == UNION {Range(ss[i]) : i \in 1..k}
<1>1. n \in Nat /\ \A k \in 1..n : ss[k] \in Seq(S)
  BY LenProperties
<1>2. PICK m : /\ Appends(m, ss) /\ FlattenSeq(ss) = m[n]
               /\ \A k \in 0..n : m[k] \in Seq(S)
  BY FlatLoop, Zenon
<1> DEFINE Good == {k \in 0..n : Range(m[k]) = Upto(k)}
<1>3. 0 \in Good
  <2>1. m[0] = << >> /\ 0 \in 0..n
    BY <1>1, <1>2 DEF Appends
  <2>2. Range(<< >>) = {}
    BY DEF Range
  <2>3. Upto(0) = {}
    OBVIOUS
  <2> HIDE DEF Upto
  <2> QED BY <2>1, <2>2, <2>3
<1>4. \A k \in 1..n : k - 1 \in Good => k \in Good
  <2> TAKE k \in 1..n
  <2> HAVE k - 1 \in Good
  <2>1. m[k] = m[k - 1] \o ss[k] /\ m[k - 1] \in Seq(S) /\ ss[k] \in Seq(S)
    BY <1>1, <1>2 DEF Appends
  <2>2. Range(m[k]) = Range(m[k - 1]) \cup Range(ss[k])
    <3>1. Range(m[k - 1] \o ss[k]) = Range(m[k - 1]) \cup Range(ss[k])
      BY <2>1, RangeOfConcat
    <3> QED BY <2>1, <3>1
  <2>3. 1..k = (1..k - 1) \cup {k}
    OBVIOUS
  <2>4. Upto(k) = Upto(k - 1) \cup Range(ss[k])
    BY <2>3
  <2>5. k \in 0..n /\ Range(m[k - 1]) = Upto(k - 1)
    BY <1>1
  <2> HIDE DEF Upto
  <2> QED BY <2>2, <2>4, <2>5
<1>5. \A k \in 0..n : k \in Good
  <2> HIDE DEF Good
  <2> QED BY <1>1, <1>3, <1>4, Rounds, Zenon
<1>6. n \in 0..n
  BY <1>1
<1> QED BY <1>2, <1>5, <1>6, Zenon

-----------------------------------------------------------------------------
(* Selections.                                                             *)

\* Chosen takes the elements at the places it is given.
LEMMA ChosenElements ==
  ASSUME NEW S, NEW s \in Seq(S), NEW keep
  PROVE  /\ Chosen(s, keep) \in Seq(S)
         /\ Range(Chosen(s, keep)) = {s[i] : i \in keep \cap DOMAIN s}
<1> DEFINE pick(i) == IF i \in keep THEN <<s[i]>> ELSE << >>
           ss == [i \in DOMAIN s |-> pick(i)]
           n == Len(s)
<1>1. n \in Nat /\ DOMAIN s = 1..n /\ \A i \in 1..n : s[i] \in S
  BY LenProperties
<1>2. \A i \in 1..n : pick(i) \in Seq(S) /\ Range(pick(i)) = {s[j] : j \in {i} \cap keep}
  <2> TAKE i \in 1..n
  <2>1. CASE i \in keep
    <3>1. <<s[i]>> \in Seq(S) /\ Range(<<s[i]>>) = {s[i]}
      BY <1>1 DEF Range
    <3> QED BY <2>1, <3>1
  <2>2. CASE i \notin keep
    <3>1. << >> \in Seq(S) /\ Range(<< >>) = {}
      BY EmptySeq DEF Range
    <3> QED BY <2>2, <3>1
  <2> QED BY <2>1, <2>2
<1>3. ss \in Seq(Seq(S)) /\ Len(ss) = n /\ \A i \in 1..n : ss[i] = pick(i)
  <2> DEFINE T == Seq(S)
  <2>1. DOMAIN ss = 1..n /\ \A i \in 1..n : ss[i] = pick(i)
    BY <1>1
  <2>2. ss = [i \in 1..n |-> ss[i]] /\ \A i \in 1..n : ss[i] \in T
    BY <1>1, <1>2, <2>1
  <2> HIDE DEF ss, T
  <2>3. ss \in Seq(T) /\ Len(ss) = n
    BY <1>1, <2>2, MapSeq
  <2> QED BY <2>1, <2>3 DEF T
<1>4. Chosen(s, keep) = FlattenSeq(ss)
  BY Zenon DEF Chosen
<1> HIDE DEF ss
<1>5. FlattenSeq(ss) \in Seq(S)
  BY <1>3, FlatSeq
<1>6. Range(FlattenSeq(ss)) = UNION {Range(ss[i]) : i \in 1..n}
  BY <1>3, FlatRange
<1>7. \A i \in 1..n : Range(ss[i]) = {s[j] : j \in {i} \cap keep}
  BY <1>2, <1>3
<1>8. UNION {Range(ss[i]) : i \in 1..n} = {s[i] : i \in keep \cap DOMAIN s}
  <2> DEFINE A == UNION {Range(ss[i]) : i \in 1..n}
             B == {s[i] : i \in keep \cap DOMAIN s}
  <2>1. ASSUME NEW e \in A PROVE e \in B
    <3>1. PICK i \in 1..n : e \in Range(ss[i])
      OBVIOUS
    <3>2. e \in {s[j] : j \in {i} \cap keep}
      BY <1>7, <3>1, Zenon
    <3>3. i \in keep /\ e = s[i]
      BY <3>2
    <3> QED BY <1>1, <3>3
  <2>2. ASSUME NEW e \in B PROVE e \in A
    <3>1. PICK i \in 1..n : i \in keep /\ e = s[i]
      BY <1>1
    <3>2. e \in Range(ss[i])
      BY <1>7, <3>1
    <3> QED BY <3>2
  <2> HIDE DEF A, B
  <2> QED BY <2>1, <2>2 DEF A, B
<1> QED BY <1>4, <1>5, <1>6, <1>8

-----------------------------------------------------------------------------
(* Descriptors.                                                            *)

LEMMA SizeNat ==
  ASSUME NEW d, d.fixed \in Nat, NEW T, d.texts \in Seq(Seq(T))
  PROVE  Size(d) \in Nat
<1> DEFINE ns == [i \in DOMAIN d.texts |-> 1 + Len(d.texts[i])]
           n == Len(d.texts)
           U == Seq(T)
<1>1. n \in Nat /\ DOMAIN d.texts = 1..n /\ \A i \in 1..n : d.texts[i] \in U
  BY LenProperties
<1>2. \A t \in U : Len(t) \in Nat
  BY LenProperties
<1>3. \A i \in 1..n : ns[i] \in Nat
  BY <1>1, <1>2
<1>4. ns = [i \in 1..n |-> ns[i]]
  BY <1>1
<1>5. Size(d) = d.fixed + Total(ns)
  BY Zenon DEF Size
<1> HIDE DEF ns
<1>6. ns \in Seq(Nat)
  BY <1>1, <1>3, <1>4, MapSeq
<1>7. Total(ns) \in Nat
  BY <1>6, TotalNat
<1> QED BY <1>5, <1>7

LEMMA DescriptorSize ==
  ASSUME NEW d \in Descriptor
  PROVE  Size(d) \in Nat
<1>1. d.fixed \in Nat /\ d.texts \in Seq(Seq(Byte))
  BY DEF Descriptor
<1> QED BY <1>1, SizeNat

LEMMA LoopLengthNat ==
  ASSUME NEW ds \in Seq(Descriptor)
  PROVE  LoopLength(ds) \in Nat
<1> DEFINE ns == [i \in DOMAIN ds |-> 2 + Size(ds[i])]
           n == Len(ds)
<1>1. n \in Nat /\ DOMAIN ds = 1..n /\ \A i \in 1..n : ds[i] \in Descriptor
  BY LenProperties
<1>2. \A i \in 1..n : Size(ds[i]) \in Nat
  BY <1>1, DescriptorSize
<1>3. ns = [i \in 1..n |-> ns[i]] /\ \A i \in 1..n : ns[i] \in Nat
  BY <1>1, <1>2
<1>4. LoopLength(ds) = Total(ns)
  BY Zenon DEF LoopLength
<1> HIDE DEF ns
<1>5. ns \in Seq(Nat)
  BY <1>1, <1>3, MapSeq
<1> QED BY <1>4, <1>5, TotalNat

\* A list of entries with a loop of descriptors each has a length.
LEMMA EntriesLengthNat ==
  ASSUME NEW n \in Nat, NEW es, DOMAIN es = 1..n,
         \A i \in 1..n : es[i].descs \in Seq(Descriptor)
  PROVE  Total([i \in DOMAIN es |-> 5 + LoopLength(es[i].descs)]) \in Nat
<1> DEFINE ns == [i \in DOMAIN es |-> 5 + LoopLength(es[i].descs)]
<1>1. \A i \in 1..n : LoopLength(es[i].descs) \in Nat
  BY LoopLengthNat
<1>2. ns = [i \in 1..n |-> ns[i]] /\ \A i \in 1..n : ns[i] \in Nat
  BY <1>1
<1> HIDE DEF ns
<1>3. ns \in Seq(Nat)
  BY <1>2, MapSeq
<1>4. Total(ns) \in Nat
  BY <1>3, TotalNat
<1> QED BY <1>4 DEF ns

LEMMA IsByte ==
  ASSUME NEW v \in Int, 0 <= v, v <= 255
  PROVE  v \in Byte
BY DEF Byte

\* A descriptor whose length byte is filled in is one.
LEMMA ClosedDescriptor ==
  ASSUME NEW d \in Descriptor, NEW ts \in Seq(Seq(Byte))
  PROVE  /\ Closed([d EXCEPT !.texts = ts]) \in Descriptor
         /\ Closed([d EXCEPT !.texts = ts]) =
              [tag |-> d.tag, len |-> Size([d EXCEPT !.texts = ts]) % 256,
               fixed |-> d.fixed, texts |-> ts]
<1> PICK e : e = [d EXCEPT !.texts = ts]
  OBVIOUS
<1>1. /\ e \in Descriptor /\ e.tag = d.tag /\ e.fixed = d.fixed /\ e.texts = ts
  BY DEF Descriptor
<1>2. PICK k \in Byte : k = Size(e) % 256
  <2>1. PICK x \in Nat : x = Size(e)
    BY <1>1, DescriptorSize
  <2>2. x % 256 \in Int /\ 0 <= x % 256 /\ x % 256 <= 255
    BY SMT
  <2>3. x % 256 \in Byte
    BY <2>2, IsByte, Zenon
  <2> QED BY <2>1, <2>3, Zenon
<1>3. Closed(e) = [e EXCEPT !.len = k]
  BY <1>2 DEF Closed
<1>4. [e EXCEPT !.len = k] = [tag |-> d.tag, len |-> k, fixed |-> d.fixed, texts |-> ts]
  <2>1. PICK a, b, c, t : e = [tag |-> a, len |-> b, fixed |-> c, texts |-> t]
    BY <1>1, Zenon DEF Descriptor
  <2>2. [[tag |-> a, len |-> b, fixed |-> c, texts |-> t] EXCEPT !.len = k]
          = [tag |-> a, len |-> k, fixed |-> c, texts |-> t]
    BY SMT
  <2>3. e.tag = a /\ e.fixed = c /\ e.texts = t
    BY <2>1
  <2> QED BY <1>1, <2>1, <2>2, <2>3
<1>5. [tag |-> d.tag, len |-> k, fixed |-> d.fixed, texts |-> ts] \in Descriptor
  BY <1>2 DEF Descriptor
<1> QED BY <1>2, <1>3, <1>4, <1>5

LEMMA RecodeBytes ==
  ASSUME NEW t \in Seq(Byte)
  PROVE  Recode(t) \in Seq(Byte)
<1>1. Codepage \in Seq(Byte)
  BY DEF Codepage, Byte
<1>2. Codepage \o t \in Seq(Byte)
  BY <1>1, ConcatProperties
<1> QED BY <1>2 DEF Recode

LEMMA RecodedTexts ==
  ASSUME NEW ts \in Seq(Seq(Byte))
  PROVE  [i \in DOMAIN ts |-> Recode(ts[i])] \in Seq(Seq(Byte))
<1> DEFINE T == Seq(Byte)
           new == [i \in DOMAIN ts |-> Recode(ts[i])]
<1>1. Len(ts) \in Nat /\ DOMAIN ts = 1..Len(ts) /\ \A i \in 1..Len(ts) : ts[i] \in T
  BY LenProperties
<1>2. \A i \in 1..Len(ts) : Recode(ts[i]) \in T
  BY <1>1, RecodeBytes
<1>3. new = [i \in 1..Len(ts) |-> new[i]] /\ \A i \in 1..Len(ts) : new[i] \in T
  BY <1>1, <1>2
<1>4. new \in Seq(T)
  <2> HIDE DEF T, new
  <2> QED BY <1>1, <1>3, MapSeq
<1> QED BY <1>4

LEMMA RecodedDescriptor ==
  ASSUME NEW d \in Descriptor
  PROVE  Recoded(d) \in Descriptor
<1>1. d.texts \in Seq(Seq(Byte))
  BY DEF Descriptor
<1> QED BY <1>1, RecodedTexts, ClosedDescriptor, Zenon DEF Recoded

\* The descriptors the new tables take over.
LEMMA CopiedDescriptors ==
  ASSUME NEW ds \in Seq(Descriptor), NEW onid
  PROVE  /\ CopyPmtDescriptors(ds) \in Seq(Descriptor)
         /\ CopySdtDescriptors(ds, onid) \in Seq(Descriptor)
<1>1. CopyPmtDescriptors(ds) \in Seq(Descriptor)
  BY ChosenElements DEF CopyPmtDescriptors
<1> DEFINE kept == Chosen(ds, Tagged(ds, 72))
           new == [i \in DOMAIN kept |-> Recoded(kept[i])]
           n == Len(kept)
<1>2. kept \in Seq(Descriptor)
  BY ChosenElements
<1>3. CopySdtDescriptors(ds, onid) = IF Latin(onid) THEN new ELSE kept
  BY Zenon DEF CopySdtDescriptors
<1> HIDE DEF kept
<1>4. n \in Nat /\ DOMAIN kept = 1..n /\ \A i \in 1..n : kept[i] \in Descriptor
  BY <1>2, LenProperties
<1>5. \A i \in 1..n : Recoded(kept[i]) \in Descriptor
  BY <1>4, RecodedDescriptor
<1>6. new = [i \in 1..n |-> new[i]] /\ \A i \in 1..n : new[i] \in Descriptor
  BY <1>4, <1>5
<1>7. new \in Seq(Descriptor)
  <2> HIDE DEF new
  <2> QED BY <1>4, <1>6, MapSeq
<1> QED BY <1>1, <1>2, <1>3, <1>7

-----------------------------------------------------------------------------
(* The new PMT.                                                            *)

\* The places of the streams whose PID has a new one.
Renumbered(pmt, map) == {i \in DOMAIN pmt.streams : Mapped(map, pmt.streams[i].pid) # 0}

\* The new PMT has an entry for each stream whose PID has a new one, with that
\* PID, and no other entry.
LEMMA NewStreams ==
  ASSUME NEW pmt \in PmtSection, NEW map
  PROVE  LET new == PmtStreams(pmt, map) IN
         /\ Len(new) \in Nat /\ DOMAIN new = 1..Len(new)
         /\ \A k \in DOMAIN new :
              /\ new[k].descs \in Seq(Descriptor)
              /\ \E i \in Renumbered(pmt, map) : new[k].pid = map[pmt.streams[i].pid]
         /\ \A i \in Renumbered(pmt, map) : \E k \in DOMAIN new :
              /\ new[k].type = pmt.streams[i].type
              /\ new[k].pid = map[pmt.streams[i].pid]
<1> DEFINE S == [type : Byte, pid : Nat, descs : Seq(Descriptor)]
           kept == Chosen(pmt.streams, Renumbered(pmt, map))
           entry(e) == [type |-> e.type, pid |-> map[e.pid],
                        descs |-> CopyPmtDescriptors(e.descs)]
           new == [k \in DOMAIN kept |-> entry(kept[k])]
           n == Len(kept)
<1>1. pmt.streams \in Seq(S)
  BY DEF PmtSection
<1>2. PmtStreams(pmt, map) = new
  BY Zenon DEF PmtStreams, Renumbered
<1>3. /\ kept \in Seq(S)
      /\ Range(kept) = {pmt.streams[i] : i \in Renumbered(pmt, map) \cap DOMAIN pmt.streams}
  <2> HIDE DEF S
  <2> QED BY <1>1, ChosenElements
<1> HIDE DEF kept
<1>4. n \in Nat /\ DOMAIN kept = 1..n /\ \A k \in 1..n : kept[k] \in S
  <2> HIDE DEF S
  <2> QED BY <1>3, LenProperties
<1>5. /\ DOMAIN new = 1..n /\ new = [k \in 1..n |-> new[k]]
      /\ \A k \in 1..n : new[k] = entry(kept[k])
  BY <1>4
<1> HIDE DEF new
<1>6. Len(new) = n
  <2> DEFINE T == {new[k] : k \in 1..n}
  <2>1. \A k \in 1..n : new[k] \in T
    OBVIOUS
  <2> HIDE DEF T
  <2> QED BY <1>4, <1>5, <2>1, MapSeq
<1>7. \A k \in 1..n : new[k].descs \in Seq(Descriptor)
  <2> TAKE k \in 1..n
  <2>1. kept[k].descs \in Seq(Descriptor)
    BY <1>4
  <2>2. CopyPmtDescriptors(kept[k].descs) \in Seq(Descriptor)
    BY <2>1, CopiedDescriptors
  <2> QED BY <1>5, <2>2
<1>8. \A k \in 1..n : \E i \in Renumbered(pmt, map) : new[k].pid = map[pmt.streams[i].pid]
  <2> TAKE k \in 1..n
  <2>1. kept[k] \in Range(kept)
    BY <1>4 DEF Range
  <2>2. PICK i \in Renumbered(pmt, map) : kept[k] = pmt.streams[i]
    BY <1>3, <2>1
  <2> QED BY <1>5, <2>2
<1>9. \A i \in Renumbered(pmt, map) : \E k \in 1..n :
        new[k].type = pmt.streams[i].type /\ new[k].pid = map[pmt.streams[i].pid]
  <2> TAKE i \in Renumbered(pmt, map)
  <2>1. pmt.streams[i] \in Range(kept)
    BY <1>3 DEF Renumbered
  <2>2. PICK k \in 1..n : kept[k] = pmt.streams[i]
    BY <1>4, <2>1 DEF Range
  <2> QED BY <1>5, <2>2
<1>10. Len(new) \in Nat /\ DOMAIN new = 1..Len(new)
  BY <1>4, <1>5, <1>6
<1>11. DOMAIN new = 1..n
  BY <1>5
<1> QED BY <1>2, <1>7, <1>8, <1>9, <1>10, <1>11, Zenon

\* ... and a length.
LEMMA PmtLength ==
  ASSUME NEW sv, sv.pmt \in PmtSection
  PROVE  CreatePmt(sv).length \in Nat
<1> DEFINE new == PmtStreams(sv.pmt, sv.pid_map)
<1>1. Len(new) \in Nat /\ DOMAIN new = 1..Len(new)
      /\ \A k \in 1..Len(new) : new[k].descs \in Seq(Descriptor)
  BY NewStreams, Zenon
<1>2. PICK streams : streams = new
  OBVIOUS
<1>3. PICK t \in Nat : t = Total([i \in DOMAIN streams |-> 5 + LoopLength(streams[i].descs)])
  BY <1>1, <1>2, EntriesLengthNat, Zenon
<1>4. PICK l \in Nat : l = LoopLength(sv.pmt.info)
  <2>1. sv.pmt.info \in Seq(Descriptor)
    BY DEF PmtSection
  <2> QED BY <2>1, LoopLengthNat
<1>5. CreatePmt(sv).length = 12 + l + t + 4
  BY <1>2, <1>3, <1>4 DEF CreatePmt
<1> QED BY <1>3, <1>4, <1>5

-----------------------------------------------------------------------------
(* pid_map of one service.                                                 *)

\* What process_pmt has passed on of a PMT.
LEMMA PassedFinite ==
  ASSUME NEW pmt, IsList(pmt.streams)
  PROVE  /\ PassedOn(pmt) \subseteq 1..Len(pmt.streams) /\ Len(pmt.streams) \in Nat
         /\ IsFiniteSet(PassedOn(pmt)) /\ Cardinality(PassedOn(pmt)) \in Nat
<1>1. /\ Len(pmt.streams) \in Nat /\ DOMAIN pmt.streams = 1..Len(pmt.streams)
  BY LenProperties DEF IsList
<1>2. PassedOn(pmt) \in SUBSET (1..Len(pmt.streams))
  BY <1>1 DEF PassedOn
<1>3. IsFiniteSet(1..Len(pmt.streams))
  <2>1. 1 \in Int /\ Len(pmt.streams) \in Int
    BY <1>1
  <2> QED BY <2>1, FS_Interval, Zenon
<1> QED BY <1>1, <1>2, <1>3, FS_Subset, FS_CardinalityType

\* The streams passed on that come before place i; how many they are tells
\* the places of the streams passed on apart.
Before(pmt, i) == {j \in PassedOn(pmt) : j < i}

LEMMA BeforeLess ==
  ASSUME NEW pmt, IsList(pmt.streams), NEW i \in PassedOn(pmt)
  PROVE  /\ Cardinality(Before(pmt, i)) \in Nat
         /\ Cardinality(Before(pmt, i)) < Cardinality(PassedOn(pmt))
<1>1. IsFiniteSet(PassedOn(pmt)) /\ Before(pmt, i) \in SUBSET PassedOn(pmt)
  BY PassedFinite DEF Before
<1>2. i \notin Before(pmt, i)
  BY PassedFinite DEF Before
<1>3. Before(pmt, i) # PassedOn(pmt)
  BY <1>2
<1>4. /\ IsFiniteSet(Before(pmt, i))
      /\ Cardinality(Before(pmt, i)) <= Cardinality(PassedOn(pmt))
      /\ Cardinality(PassedOn(pmt)) # Cardinality(Before(pmt, i))
  BY <1>1, <1>3, FS_Subset
<1> QED BY <1>4, PassedFinite, FS_CardinalityType

LEMMA BeforeMonotone ==
  ASSUME NEW pmt, IsList(pmt.streams), NEW i \in PassedOn(pmt), NEW j \in PassedOn(pmt),
         i < j
  PROVE  Cardinality(Before(pmt, i)) # Cardinality(Before(pmt, j))
<1>1. i \in Nat /\ j \in Nat /\ \A k \in PassedOn(pmt) : k \in Nat
  BY PassedFinite
<1>2. IsFiniteSet(Before(pmt, j))
  <2>1. Before(pmt, j) \in SUBSET PassedOn(pmt)
    BY DEF Before
  <2> QED BY <2>1, PassedFinite, FS_Subset
<1>3. Before(pmt, i) \in SUBSET Before(pmt, j)
  <2>1. \A k \in PassedOn(pmt) : k < i => k < j
    BY <1>1
  <2> QED BY <2>1, Zenon DEF Before
<1>4. i \in Before(pmt, j) /\ i \notin Before(pmt, i)
  BY <1>1 DEF Before
<1>5. Before(pmt, j) # Before(pmt, i)
  BY <1>4
<1> QED BY <1>2, <1>3, <1>5, FS_Subset

\* The last place of a PID among the streams passed on.
At(pmt, pid) == {i \in PassedOn(pmt) : pmt.streams[i].pid = pid}

LEMMA LastPlace ==
  ASSUME NEW pmt, IsList(pmt.streams), NEW pid, At(pmt, pid) # {}
  PROVE  Max(At(pmt, pid)) \in At(pmt, pid)
<1>1. At(pmt, pid) \subseteq 0..Len(pmt.streams) /\ Len(pmt.streams) \in Nat
  BY PassedFinite DEF At
<1>2. PICK x \in At(pmt, pid) : \A y \in At(pmt, pid) : y <= x
  BY <1>1, Greatest
<1>3. \A y \in At(pmt, pid) : x >= y
  BY <1>1, <1>2
<1> QED BY <1>2, <1>3, Zenon DEF Max

\* The number of the new PID of a PID.
Number(pmt, pid) ==
  Cardinality(IF At(pmt, pid) = {} THEN PassedOn(pmt) ELSE Before(pmt, Max(At(pmt, pid))))

LEMMA MapValue ==
  ASSUME NEW pmt, NEW n
  PROVE  PidMap(pmt, n) =
           [pid \in {pmt.streams[i].pid : i \in PassedOn(pmt)} \cup {pmt.pcr_pid} |->
              (n + 1) + Number(pmt, pid)]
BY DEF PidMap, Number, At, Before, FirstPid

\* As many numbers as PIDs are needed, ...
LEMMA NumberRange ==
  ASSUME NEW pmt, IsList(pmt.streams), NEW n, NEW pid \in DOMAIN PidMap(pmt, n)
  PROVE  Number(pmt, pid) \in 0..PidsNeeded(pmt) - 1
<1>1. Cardinality(PassedOn(pmt)) \in Nat
  BY PassedFinite
<1>2. pid \in {pmt.streams[i].pid : i \in PassedOn(pmt)} \cup {pmt.pcr_pid}
  BY MapValue
<1>3. CASE At(pmt, pid) = {}
  <2>1. pid = pmt.pcr_pid /\ ~\E i \in PassedOn(pmt) : pmt.streams[i].pid = pmt.pcr_pid
    BY <1>2, <1>3 DEF At
  <2>2. PidsNeeded(pmt) = Cardinality(PassedOn(pmt)) + 1
    BY <2>1 DEF PidsNeeded
  <2>3. Number(pmt, pid) = Cardinality(PassedOn(pmt))
    BY <1>3 DEF Number
  <2> QED BY <1>1, <2>2, <2>3
<1>4. CASE At(pmt, pid) # {}
  <2> DEFINE i == Max(At(pmt, pid))
  <2>1. i \in PassedOn(pmt)
    BY <1>4, LastPlace DEF At
  <2>2. Number(pmt, pid) = Cardinality(Before(pmt, i))
    BY <1>4 DEF Number
  <2> HIDE DEF i
  <2>3. Number(pmt, pid) \in Nat /\ Number(pmt, pid) < Cardinality(PassedOn(pmt))
    BY <2>1, <2>2, BeforeLess
  <2>4. /\ PidsNeeded(pmt) \in Int
        /\ Cardinality(PassedOn(pmt)) <= PidsNeeded(pmt)
    BY <1>1 DEF PidsNeeded
  <2> QED BY <1>1, <2>3, <2>4
<1> QED BY <1>3, <1>4

\* ... and each is given once.
LEMMA NumberOnce ==
  ASSUME NEW pmt, IsList(pmt.streams), NEW n,
         NEW p \in DOMAIN PidMap(pmt, n), NEW q \in DOMAIN PidMap(pmt, n), p # q
  PROVE  Number(pmt, p) # Number(pmt, q)
<1>1. \A r \in DOMAIN PidMap(pmt, n) :
        r \in {pmt.streams[i].pid : i \in PassedOn(pmt)} \cup {pmt.pcr_pid}
  BY MapValue
<1>2. \A r \in DOMAIN PidMap(pmt, n) : At(pmt, r) = {} => r = pmt.pcr_pid
  BY <1>1 DEF At
<1>3. \A r : At(pmt, r) # {} =>
        /\ Max(At(pmt, r)) \in PassedOn(pmt)
        /\ pmt.streams[Max(At(pmt, r))].pid = r
        /\ Number(pmt, r) = Cardinality(Before(pmt, Max(At(pmt, r))))
  <2> TAKE r
  <2> HAVE At(pmt, r) # {}
  <2>1. Max(At(pmt, r)) \in At(pmt, r)
    BY LastPlace
  <2>2. \A i \in At(pmt, r) : i \in PassedOn(pmt) /\ pmt.streams[i].pid = r
    BY DEF At
  <2> QED BY <2>1, <2>2, Zenon DEF Number
<1>4. \A r : At(pmt, r) = {} => Number(pmt, r) = Cardinality(PassedOn(pmt))
  BY DEF Number
<1>5. CASE At(pmt, p) # {} /\ At(pmt, q) # {}
  <2> DEFINE i == Max(At(pmt, p))
             j == Max(At(pmt, q))
  <2>1. /\ i \in PassedOn(pmt) /\ j \in PassedOn(pmt) /\ i # j
        /\ Number(pmt, p) = Cardinality(Before(pmt, i))
        /\ Number(pmt, q) = Cardinality(Before(pmt, j))
    <3>1. pmt.streams[i].pid = p /\ pmt.streams[j].pid = q
      BY <1>3, <1>5
    <3>2. i # j
      <4> HIDE DEF i, j
      <4> QED BY <3>1
    <3> QED BY <1>3, <1>5, <3>2
  <2> HIDE DEF i, j
  <2>2. i \in Nat /\ j \in Nat
    BY <2>1, PassedFinite
  <2>3. CASE i < j
    BY <2>1, <2>3, BeforeMonotone
  <2>4. CASE j < i
    BY <2>1, <2>4, BeforeMonotone
  <2> QED BY <2>1, <2>2, <2>3, <2>4
<1>6. \A r, t : At(pmt, r) = {} /\ At(pmt, t) # {} => Number(pmt, r) # Number(pmt, t)
  <2> TAKE r, t
  <2> HAVE At(pmt, r) = {} /\ At(pmt, t) # {}
  <2> DEFINE i == Max(At(pmt, t))
  <2>1. /\ i \in PassedOn(pmt) /\ Number(pmt, t) = Cardinality(Before(pmt, i))
        /\ Number(pmt, r) = Cardinality(PassedOn(pmt))
    BY <1>3, <1>4, Zenon
  <2> HIDE DEF i
  <2>2. /\ Cardinality(Before(pmt, i)) \in Nat
        /\ Cardinality(Before(pmt, i)) < Cardinality(PassedOn(pmt))
        /\ Cardinality(PassedOn(pmt)) \in Nat
    BY <2>1, BeforeLess, PassedFinite
  <2> QED BY <2>1, <2>2
<1>7. CASE At(pmt, p) = {} /\ At(pmt, q) = {}
  BY <1>2, <1>7
<1> QED BY <1>5, <1>6, <1>7

LEMMA PmtList ==
  ASSUME NEW pmt \in PmtSection
  PROVE  IsList(pmt.streams) /\ DOMAIN pmt.streams = 1..Len(pmt.streams)
<1> DEFINE S == [type : Byte, pid : Nat, descs : Seq(Descriptor)]
           T == {pmt.streams[i] : i \in DOMAIN pmt.streams}
<1>1. pmt.streams \in Seq(S)
  BY DEF PmtSection
<1> HIDE DEF S
<1>2. /\ Len(pmt.streams) \in Nat /\ DOMAIN pmt.streams = 1..Len(pmt.streams)
      /\ pmt.streams = [i \in 1..Len(pmt.streams) |-> pmt.streams[i]]
  BY <1>1, PlacesOfSeq
<1>3. \A i \in 1..Len(pmt.streams) : pmt.streams[i] \in T
  BY <1>2
<1>4. pmt.streams \in Seq(T)
  <2> HIDE DEF T
  <2> QED BY <1>2, <1>3, MapSeq
<1> QED BY <1>2, <1>4 DEF IsList

\* What process_pmt numbers are the PIDs of the streams passed on, and the PCR's;
\* no number is 0.
LEMMA MapNumbers ==
  ASSUME NEW pmt \in PmtSection, NEW n \in Nat
  PROVE  LET map == PidMap(pmt, n) IN
         /\ DOMAIN map = {pmt.streams[i].pid : i \in PassedOn(pmt)} \cup {pmt.pcr_pid}
         /\ \A pid \in DOMAIN map : map[pid] \in Nat \ {0}
         /\ \A pid : Mapped(map, pid) # 0 <=> pid \in DOMAIN map
         /\ \A pid \in DOMAIN map : Mapped(map, pid) = map[pid]
<1> DEFINE D == {pmt.streams[i].pid : i \in PassedOn(pmt)} \cup {pmt.pcr_pid}
           map == PidMap(pmt, n)
<1>1. map = [pid \in D |-> (n + 1) + Number(pmt, pid)]
  BY MapValue
<1>2. DOMAIN map = D /\ \A pid \in D : map[pid] = (n + 1) + Number(pmt, pid)
  BY <1>1
<1>3. \A pid \in DOMAIN map : Number(pmt, pid) \in Nat
  <2> TAKE pid \in DOMAIN map
  <2>1. Number(pmt, pid) \in 0..PidsNeeded(pmt) - 1
    BY PmtList, NumberRange
  <2> QED BY <2>1
<1> HIDE DEF D
<1>4. \A pid \in DOMAIN map : map[pid] \in Nat \ {0}
  BY <1>2, <1>3
<1> HIDE DEF map
<1>5. \A pid : Mapped(map, pid) # 0 <=> pid \in DOMAIN map
  BY <1>4 DEF Mapped
<1>6. \A pid \in DOMAIN map : Mapped(map, pid) = map[pid]
  BY DEF Mapped
<1> QED BY <1>2, <1>4, <1>5, <1>6, Zenon DEF D, map

\* The new PMT lists, under the PIDs of the output, everything that is passed on;
\* together with the PCR's PID it lists the PIDs of the output and no other.
LEMMA PmtComplete ==
  ASSUME NEW pmt \in PmtSection, NEW n \in Nat, NEW map, map = PidMap(pmt, n)
  PROVE  LET new == PmtStreams(pmt, map) IN
         /\ {new[k].pid : k \in DOMAIN new} \cup {Mapped(map, pmt.pcr_pid)} = Range(map)
         /\ \A i \in PassedOn(pmt) : \E k \in DOMAIN new :
              /\ new[k].type = pmt.streams[i].type
              /\ new[k].pid = map[pmt.streams[i].pid]
<1> PICK new : new = PmtStreams(pmt, map)
  OBVIOUS
<1>1. /\ DOMAIN map = {pmt.streams[i].pid : i \in PassedOn(pmt)} \cup {pmt.pcr_pid}
      /\ \A pid : Mapped(map, pid) # 0 <=> pid \in DOMAIN map
      /\ \A pid \in DOMAIN map : Mapped(map, pid) = map[pid]
  <2>1. LET m == PidMap(pmt, n) IN
        /\ DOMAIN m = {pmt.streams[i].pid : i \in PassedOn(pmt)} \cup {pmt.pcr_pid}
        /\ \A pid : Mapped(m, pid) # 0 <=> pid \in DOMAIN m
        /\ \A pid \in DOMAIN m : Mapped(m, pid) = m[pid]
    BY MapNumbers, Zenon
  <2> QED BY <2>1
<1>2. /\ \A k \in DOMAIN new :
           \E i \in Renumbered(pmt, map) : new[k].pid = map[pmt.streams[i].pid]
      /\ \A i \in Renumbered(pmt, map) : \E k \in DOMAIN new :
           /\ new[k].type = pmt.streams[i].type
           /\ new[k].pid = map[pmt.streams[i].pid]
  BY NewStreams
<1>3. \A i \in Renumbered(pmt, map) : pmt.streams[i].pid \in DOMAIN map
  BY <1>1, Zenon DEF Renumbered
<1>4. PassedOn(pmt) \subseteq Renumbered(pmt, map)
  BY <1>1 DEF Renumbered, PassedOn
<1>5. pmt.pcr_pid \in DOMAIN map
  BY <1>1
<1> DEFINE A == {new[k].pid : k \in DOMAIN new} \cup {Mapped(map, pmt.pcr_pid)}
<1>6. ASSUME NEW e \in A PROVE e \in Range(map)
  <2>1. CASE e = Mapped(map, pmt.pcr_pid)
    BY <1>1, <1>5, <2>1 DEF Range
  <2>2. CASE \E k \in DOMAIN new : e = new[k].pid
    BY <1>2, <1>3, <2>2 DEF Range
  <2> QED BY <2>1, <2>2
<1>7. ASSUME NEW e \in Range(map) PROVE e \in A
  <2>1. PICK pid \in DOMAIN map : e = map[pid]
    BY DEF Range
  <2>2. CASE pid = pmt.pcr_pid
    BY <1>1, <2>1, <2>2
  <2>3. CASE pid # pmt.pcr_pid
    <3>1. PICK i \in PassedOn(pmt) : pid = pmt.streams[i].pid
      BY <1>1, <2>3
    <3>2. PICK k \in DOMAIN new : new[k].pid = map[pmt.streams[i].pid]
      BY <1>2, <1>4
    <3> QED BY <2>1, <3>1, <3>2
  <2> QED BY <2>2, <2>3
<1>8. A = Range(map)
  <2> HIDE DEF A
  <2> QED BY <1>6, <1>7
<1> QED BY <1>2, <1>4, <1>8

-----------------------------------------------------------------------------
(* The tables of the output.                                               *)

\* A list of services.
IsServices(services) == Len(services) \in Nat /\ DOMAIN services = 1..Len(services)

\* A service's entries in the new SDT.
LEMMA NewEntries ==
  ASSUME NEW sv, sv.sdt \in SdtSection
  PROVE  SdtEntries(sv) \in Seq([service_id : {sv.new_service_id}, free_CA_mode : {0},
                                 descs : Seq(Descriptor)])
<1> DEFINE S == [service_id : Nat, service_type : Nat, fits : BOOLEAN,
                  descs : Seq(Descriptor)]
           T == [service_id : {sv.new_service_id}, free_CA_mode : {0},
                 descs : Seq(Descriptor)]
           places == {i \in DOMAIN sv.sdt.entries :
                        sv.sdt.entries[i].service_id = sv.service_id}
           own == Chosen(sv.sdt.entries, places)
           entry(e) == [service_id |-> sv.new_service_id, free_CA_mode |-> 0,
                        descs |-> CopySdtDescriptors(e.descs, sv.onid)]
           new == [i \in DOMAIN own |-> entry(own[i])]
           n == Len(own)
<1>1. sv.sdt.entries \in Seq(S)
  BY DEF SdtSection
<1>2. own \in Seq(S)
  <2> HIDE DEF S, places
  <2> QED BY <1>1, ChosenElements
<1>3. SdtEntries(sv) = new
  BY Zenon DEF SdtEntries
<1> HIDE DEF own
<1>4. n \in Nat /\ DOMAIN own = 1..n /\ \A i \in 1..n : own[i] \in S
  <2> HIDE DEF S
  <2> QED BY <1>2, LenProperties
<1>5. \A i \in 1..n : entry(own[i]) \in T
  <2> TAKE i \in 1..n
  <2>1. own[i].descs \in Seq(Descriptor)
    BY <1>4
  <2>2. CopySdtDescriptors(own[i].descs, sv.onid) \in Seq(Descriptor)
    BY <2>1, CopiedDescriptors
  <2> QED BY <2>2
<1>6. new = [i \in 1..n |-> new[i]] /\ \A i \in 1..n : new[i] \in T
  BY <1>4, <1>5
<1>7. new \in Seq(T)
  <2> HIDE DEF new, T
  <2> QED BY <1>4, <1>6, MapSeq
<1> QED BY <1>3, <1>7

\* The services' entries, list after list.
LEMMA EntriesOfServices ==
  ASSUME NEW services, IsServices(services),
         \A s \in DOMAIN services : services[s].sdt \in SdtSection
  PROVE  LET ss == [s \in DOMAIN services |-> SdtEntries(services[s])] IN
         /\ ss \in Seq(Seq([service_id : {services[s].new_service_id : s \in DOMAIN services},
                            free_CA_mode : {0}, descs : Seq(Descriptor)]))
         /\ DOMAIN services = 1..Len(ss)
         /\ \A s \in 1..Len(ss) : ss[s] = SdtEntries(services[s])
<1> DEFINE Ids == {services[s].new_service_id : s \in DOMAIN services}
           T == [service_id : Ids, free_CA_mode : {0}, descs : Seq(Descriptor)]
           ss == [s \in DOMAIN services |-> SdtEntries(services[s])]
           n == Len(services)
           U == Seq(T)
<1>1. n \in Nat /\ DOMAIN services = 1..n
  BY DEF IsServices
<1>2. \A s \in 1..n : SdtEntries(services[s]) \in U
  <2> TAKE s \in 1..n
  <2> DEFINE V == [service_id : {services[s].new_service_id}, free_CA_mode : {0},
                   descs : Seq(Descriptor)]
  <2>1. SdtEntries(services[s]) \in Seq(V)
    BY <1>1, NewEntries, Zenon
  <2>2. V \subseteq T
    BY <1>1
  <2> HIDE DEF V, T
  <2>3. /\ Len(SdtEntries(services[s])) \in Nat
        /\ SdtEntries(services[s]) = [i \in 1..Len(SdtEntries(services[s])) |-> SdtEntries(services[s])[i]]
        /\ \A i \in 1..Len(SdtEntries(services[s])) : SdtEntries(services[s])[i] \in T
    BY <2>1, <2>2, PlacesOfSeq
  <2> QED BY <2>3, MapSeq
<1> HIDE DEF U
<1>3. ss = [s \in 1..n |-> ss[s]] /\ \A s \in 1..n : ss[s] \in U
  BY <1>1, <1>2
<1>4. ss \in Seq(U) /\ Len(ss) = n
  <2> HIDE DEF ss
  <2> QED BY <1>1, <1>3, MapSeq
<1>5. \A s \in 1..n : ss[s] = SdtEntries(services[s])
  BY <1>1
<1>6. ss \in Seq(Seq(T))
  BY <1>4 DEF U
<1> QED BY <1>1, <1>4, <1>5, <1>6, Zenon

\* The new SDT describes services of the output only, and has a length.
LEMMA NewSdt ==
  ASSUME NEW services, IsServices(services),
         \A s \in DOMAIN services : services[s].sdt \in SdtSection
  PROVE  LET sdt == CreateSdt(services) IN
         /\ sdt.entries \in Seq([service_id : {services[s].new_service_id : s \in DOMAIN services},
                                 free_CA_mode : {0}, descs : Seq(Descriptor)])
         /\ sdt.length \in Nat
<1> DEFINE Ids == {services[s].new_service_id : s \in DOMAIN services}
           T == [service_id : Ids, free_CA_mode : {0}, descs : Seq(Descriptor)]
           ss == [s \in DOMAIN services |-> SdtEntries(services[s])]
<1>4. ss \in Seq(Seq(T))
  BY EntriesOfServices, Zenon
<1> DEFINE es == FlattenSeq(ss)
<1>5. es \in Seq(T)
  <2> HIDE DEF ss, T
  <2> QED BY <1>4, FlatSeq
<1>6. PICK entries : entries = es
  OBVIOUS
<1>7. Len(entries) \in Nat /\ DOMAIN entries = 1..Len(entries)
      /\ \A i \in 1..Len(entries) : entries[i] \in T
  <2> HIDE DEF es, T
  <2> QED BY <1>5, <1>6, LenProperties
<1>8. \A i \in 1..Len(entries) : entries[i].descs \in Seq(Descriptor)
  BY <1>7
<1>9. PICK t \in Nat : t = Total([i \in DOMAIN entries |-> 5 + LoopLength(entries[i].descs)])
  BY <1>7, <1>8, EntriesLengthNat, Zenon
<1>10. CreateSdt(services) = [entries |-> entries, length |-> 11 + t + 4]
  <2> HIDE DEF ss
  <2>1. CreateSdt(services) =
          [entries |-> entries,
           length |-> 11 + Total([i \in DOMAIN entries |-> 5 + LoopLength(entries[i].descs)]) + 4]
    BY <1>6, Zenon DEF CreateSdt, ss
  <2> QED BY <1>9, <2>1
<1>11. entries \in Seq(T)
  BY <1>5, <1>6
<1> QED BY <1>9, <1>10, <1>11

LEMMA NewNit ==
  ASSUME NEW services, IsServices(services)
  PROVE  CreateNit(services).length \in Nat
<1> PICK n \in Nat : n = Len(services)
  BY ZenonT(30) DEF IsServices
<1> PICK ds : ds = TransportDescriptors(services)
  OBVIOUS
<1>1. PICK b, c : b \in Byte /\ c \in Byte /\ b = (3 * n) % 256 /\ c = (4 * n) % 256
  <2>1. /\ (3 * n) % 256 \in Int /\ 0 <= (3 * n) % 256 /\ (3 * n) % 256 <= 255
        /\ (4 * n) % 256 \in Int /\ 0 <= (4 * n) % 256 /\ (4 * n) % 256 <= 255
    BY SMT
  <2>2. (3 * n) % 256 \in Byte /\ (4 * n) % 256 \in Byte
    BY <2>1, IsByte, Zenon
  <2> QED BY <2>2, Zenon
<1>2. ds = << [tag |-> 65, len |-> b, fixed |-> 3 * n, texts |-> << >>],
              [tag |-> 90, len |-> 11, fixed |-> 11, texts |-> << >>],
              [tag |-> 95, len |-> 4, fixed |-> 4, texts |-> << >>],
              [tag |-> 131, len |-> c, fixed |-> 4 * n, texts |-> << >>] >>
  BY <1>1, SMT DEF TransportDescriptors
<1>3. << >> \in Seq(Seq(Byte))
  BY EmptySeq
<1>4. ds \in Seq(Descriptor)
  <2> DEFINE T == Seq(Seq(Byte))
  <2>1. /\ 65 \in Byte /\ 90 \in Byte /\ 11 \in Byte /\ 95 \in Byte /\ 4 \in Byte
        /\ 131 \in Byte /\ 3 * n \in Nat /\ 4 * n \in Nat /\ 11 \in Nat /\ 4 \in Nat
    BY DEF Byte
  <2>2. << >> \in T
    BY <1>3
  <2>3. Descriptor = [tag : Byte, len : Byte, fixed : Nat, texts : T]
    BY DEF Descriptor
  <2> HIDE DEF T
  <2>4. /\ [tag |-> 65, len |-> b, fixed |-> 3 * n, texts |-> << >>] \in Descriptor
        /\ [tag |-> 90, len |-> 11, fixed |-> 11, texts |-> << >>] \in Descriptor
        /\ [tag |-> 95, len |-> 4, fixed |-> 4, texts |-> << >>] \in Descriptor
        /\ [tag |-> 131, len |-> c, fixed |-> 4 * n, texts |-> << >>] \in Descriptor
    BY <1>1, <2>1, <2>2, <2>3
  <2> QED BY <1>2, <2>4
<1>5. PICK l \in Nat : l = LoopLength(ds)
  BY <1>4, LoopLengthNat
<1>6. CreateNit(services).length = 12 + 6 + l + 4
  BY <1>5 DEF CreateNit
<1> QED BY <1>6

-----------------------------------------------------------------------------
(* Concatenations of concatenations.                                       *)

LEMMA FlatConcat ==
  ASSUME NEW S, NEW a \in Seq(Seq(S)), NEW b \in Seq(Seq(S))
  PROVE  a \o b \in Seq(Seq(S)) /\ FlattenSeq(a \o b) = FlattenSeq(a) \o FlattenSeq(b)
<1> DEFINE T == Seq(S)
<1>1. /\ Len(a) \in Nat /\ Len(b) \in Nat /\ a \o b \in Seq(T)
      /\ Len(a \o b) = Len(a) + Len(b)
      /\ \A i \in 1..Len(a) + Len(b) :
           (a \o b)[i] = IF i <= Len(a) THEN a[i] ELSE b[i - Len(a)]
      /\ \A i \in 1..Len(b) : b[i] \in T
  <2> HIDE DEF T
  <2>1. a \in Seq(T) /\ b \in Seq(T)
    BY DEF T
  <2> QED BY <2>1, ConcatProperties, PlacesOfSeq
<1>2. PICK p \in Nat, q \in Nat : p = Len(a) /\ q = Len(b)
  BY <1>1
<1>3. PICK c : c = a \o b
  OBVIOUS
<1>4. PICK m : /\ Appends(m, a) /\ FlattenSeq(a) = m[Len(a)]
               /\ \A k \in 0..Len(a) : m[k] \in Seq(S)
  BY FlatLoop, Zenon
<1>5. PICK l : /\ Appends(l, b) /\ FlattenSeq(b) = l[Len(b)]
               /\ \A k \in 0..Len(b) : l[k] \in Seq(S)
  BY FlatLoop, Zenon
<1>6. PICK r : /\ Appends(r, c) /\ FlattenSeq(c) = r[Len(c)]
               /\ \A k \in 0..Len(c) : r[k] \in Seq(S)
  BY <1>1, <1>3, FlatLoop, Zenon
<1>7. /\ m[0] = << >> /\ \A k \in 1..p : m[k] = m[k - 1] \o a[k]
      /\ l[0] = << >> /\ \A k \in 1..q : l[k] = l[k - 1] \o b[k]
      /\ r[0] = << >> /\ \A k \in 1..p + q : r[k] = r[k - 1] \o c[k]
  BY <1>1, <1>2, <1>3, <1>4, <1>5, <1>6 DEF Appends
<1>8. /\ \A k \in 1..p : c[k] = a[k] /\ k \in 1..p + q
      /\ \A k \in 1..q : c[p + k] = b[k] /\ p + k \in 1..p + q
  <2>1. \A k \in 1..p : c[k] = a[k] /\ k \in 1..p + q
    BY <1>1, <1>2, <1>3
  <2>2. ASSUME NEW k \in 1..q PROVE c[p + k] = b[k] /\ p + k \in 1..p + q
    <3>1. p + k \in 1..p + q /\ ~(p + k <= p) /\ (p + k) - p = k
      OBVIOUS
    <3> QED BY <1>1, <1>2, <1>3, <3>1
  <2> QED BY <2>1, <2>2
<1>9. r[p] = m[p]
  <2> DEFINE Good == {k \in 0..p : r[k] = m[k]}
  <2>1. 0 \in Good
    BY <1>7
  <2>2. ASSUME NEW k \in 1..p, k - 1 \in Good PROVE k \in Good
    <3>1. r[k - 1] = m[k - 1] /\ k \in 0..p
      BY <2>2
    <3>2. r[k] = r[k - 1] \o c[k] /\ m[k] = m[k - 1] \o a[k] /\ c[k] = a[k]
      BY <1>7, <1>8, Zenon
    <3> QED BY <3>1, <3>2
  <2>3. \A k \in 0..p : k \in Good
    <3> HIDE DEF Good
    <3> QED BY <2>1, <2>2, Rounds, Zenon
  <2>4. p \in 0..p
    OBVIOUS
  <2> QED BY <2>3, <2>4, Zenon
<1>10. m[p] \in Seq(S) /\ \A k \in 0..q : l[k] \in Seq(S)
  <2>1. p \in 0..p
    OBVIOUS
  <2> QED BY <1>2, <1>4, <1>5, <2>1
<1> DEFINE Good == {k \in 0..q : r[p + k] = m[p] \o l[k]}
<1>11. 0 \in Good
  <2>1. p + 0 = p /\ 0 \in 0..q
    OBVIOUS
  <2>2. m[p] \o << >> = m[p]
    BY <1>10, ConcatEmptySeq
  <2> QED BY <1>7, <1>9, <2>1, <2>2
<1>12. ASSUME NEW k \in 1..q, k - 1 \in Good PROVE k \in Good
  <2>1. /\ k - 1 \in 0..q /\ k \in 0..q /\ p + (k - 1) = (p + k) - 1 /\ k \in 1..Len(b)
    BY <1>2
  <2>2. r[p + k] = r[(p + k) - 1] \o b[k]
    <3>1. p + k \in 1..p + q /\ c[p + k] = b[k]
      BY <1>8
    <3> QED BY <1>7, <3>1
  <2>3. r[(p + k) - 1] = m[p] \o l[k - 1]
    BY <1>12, <2>1
  <2>4. (m[p] \o l[k - 1]) \o b[k] = m[p] \o (l[k - 1] \o b[k])
    <3>1. l[k - 1] \in Seq(S) /\ b[k] \in Seq(S) /\ m[p] \in Seq(S)
      BY <1>1, <1>10, <2>1
    <3>2. PICK x \in Seq(S), y \in Seq(S), z \in Seq(S) : x = m[p] /\ y = l[k - 1] /\ z = b[k]
      BY <3>1
    <3>3. (x \o y) \o z = x \o (y \o z)
      BY ConcatAssociative, SMTT(30)
    <3> QED BY <3>2, <3>3
  <2>5. l[k] = l[k - 1] \o b[k]
    BY <1>7
  <2> QED BY <2>1, <2>2, <2>3, <2>4, <2>5
<1>13. \A k \in 0..q : k \in Good
  <2> HIDE DEF Good
  <2> QED BY <1>11, <1>12, Rounds, Zenon
<1>14. q \in 0..q
  OBVIOUS
<1>15. r[p + q] = m[p] \o l[q]
  BY <1>13, <1>14, Zenon
<1>16. FlattenSeq(a \o b) = r[p + q]
  BY <1>1, <1>2, <1>3, <1>6
<1>17. m[p] = FlattenSeq(a) /\ l[q] = FlattenSeq(b)
  BY <1>2, <1>4, <1>5
<1> QED BY <1>1, <1>15, <1>16, <1>17, Zenon

LEMMA FlatOne ==
  ASSUME NEW S, NEW x \in Seq(S)
  PROVE  <<x>> \in Seq(Seq(S)) /\ FlattenSeq(<<x>>) = x
<1> PICK ss : ss = <<x>>
  OBVIOUS
<1>1. ss \in Seq(Seq(S)) /\ Len(ss) = 1 /\ ss[1] = x
  OBVIOUS
<1>2. PICK m : Appends(m, ss) /\ FlattenSeq(ss) = m[Len(ss)]
  BY <1>1, FlatLoop, Zenon
<1>3. m[0] = << >> /\ \A k \in 1..1 : m[k] = m[k - 1] \o ss[k]
  BY <1>1, <1>2 DEF Appends
<1>4. 1 \in 1..1 /\ 1 - 1 = 0
  OBVIOUS
<1>5. m[1] = m[0] \o ss[1]
  BY <1>3, <1>4
<1>6. << >> \o x = x
  BY ConcatEmptySeq, Zenon
<1> QED BY <1>1, <1>2, <1>3, <1>5, <1>6, Zenon

LEMMA FlatAppend ==
  ASSUME NEW S, NEW ss \in Seq(Seq(S)), NEW x \in Seq(S)
  PROVE  FlattenSeq(Append(ss, x)) = FlattenSeq(ss) \o x
<1>1. Append(ss, x) = ss \o <<x>>
  <2> DEFINE T == Seq(S)
  <2> HIDE DEF T
  <2>1. ss \in Seq(T) /\ x \in T
    BY DEF T
  <2> QED BY <2>1, AppendIsConcat
<1>3. <<x>> \in Seq(Seq(S)) /\ FlattenSeq(<<x>>) = x
  BY FlatOne
<1>2. FlattenSeq(ss \o <<x>>) = FlattenSeq(ss) \o FlattenSeq(<<x>>)
  BY <1>3, FlatConcat
<1> QED BY <1>1, <1>2, <1>3, Zenon

-----------------------------------------------------------------------------
(* The text of an event.                                                   *)

LEMMA CodepageBytes ==
  Codepage \in Seq(Byte) /\ Len(Codepage) = 3
BY DEF Codepage, Byte

LEMMA PlainBytes ==
  ASSUME NEW t \in Seq(Byte)
  PROVE  Plain(t) \in Seq(Byte)
<1>1. Len(t) \in Nat /\ \A i \in 4..Len(t) : t[i] \in Byte
  BY LenProperties
<1>2. SubSeq(t, 4, Len(t)) \in Seq(Byte)
  BY <1>1, SubSeqProperties
<1> QED BY <1>2 DEF Plain

\* A code page put before a text is taken off again.
LEMMA PlainPrefixed ==
  ASSUME NEW t \in Seq(Byte), t # << >>
  PROVE  Plain(Codepage \o t) = t
<1>1. Len(t) \in Nat /\ Len(t) >= 1
  BY EmptySeq
<1>2. PICK u : u = Codepage \o t
  OBVIOUS
<1>3. /\ u \in Seq(Byte) /\ Len(u) = 3 + Len(t)
      /\ \A i \in 1..3 + Len(t) : u[i] = IF i <= 3 THEN Codepage[i] ELSE t[i - 3]
  <2>1. /\ Codepage \o t \in Seq(Byte) /\ Len(Codepage \o t) = Len(Codepage) + Len(t)
        /\ \A i \in 1..Len(Codepage) + Len(t) :
             (Codepage \o t)[i] = IF i <= Len(Codepage) THEN Codepage[i]
                                                        ELSE t[i - Len(Codepage)]
    BY CodepageBytes, ConcatProperties, Zenon
  <2> QED BY <1>2, <2>1, CodepageBytes
<1>4. SubSeq(u, 1, 3) = Codepage
  <2>1. \A i \in 1..3 : u[i] \in Byte
    BY <1>1, <1>3, LenProperties
  <2>2. /\ SubSeq(u, 1, 3) \in Seq(Byte) /\ Len(SubSeq(u, 1, 3)) = 3
        /\ \A i \in 1..3 : SubSeq(u, 1, 3)[i] = u[i]
    BY <2>1, SubSeqProperties
  <2>3. \A i \in 1..3 : u[i] = Codepage[i]
    BY <1>1, <1>3
  <2> QED BY <2>2, <2>3, CodepageBytes, SeqEqual
<1>5. SubSeq(u, 4, Len(u)) = t
  <2>1. \A i \in 4..Len(u) : u[i] \in Byte
    BY <1>1, <1>3, LenProperties
  <2>2. 4 \in Int /\ Len(u) \in Int /\ Len(u) - 4 + 1 = Len(t) /\ 4 <= Len(u)
    BY <1>1, <1>3
  <2>3. /\ SubSeq(u, 4, Len(u)) \in Seq(Byte) /\ Len(SubSeq(u, 4, Len(u))) = Len(t)
        /\ \A i \in 1..Len(t) : SubSeq(u, 4, Len(u))[i] = u[4 + i - 1]
    BY <2>1, <2>2, SubSeqProperties
  <2>4. \A i \in 1..Len(t) : u[4 + i - 1] = t[i]
    <3> TAKE i \in 1..Len(t)
    <3>1. 4 + i - 1 \in 1..3 + Len(t) /\ ~(4 + i - 1 <= 3) /\ (4 + i - 1) - 3 = i
      BY <1>1
    <3> QED BY <1>3, <3>1
  <2> QED BY <2>3, <2>4, SeqEqual
<1>6. Len(u) > 3
  BY <1>1, <1>3
<1> QED BY <1>2, <1>4, <1>5, <1>6 DEF Plain

\* Descriptors of which the extended event descriptors have one text.
OneText == {d \in Descriptor : d.tag = 78 => Len(d.texts) = 1}

\* What a descriptor adds to the event's text.
Piece(d) == IF d.tag = 78 THEN Plain(d.texts[1]) ELSE << >>
Pieces(ds) == [i \in DOMAIN ds |-> Piece(ds[i])]

LEMMA PieceBytes ==
  ASSUME NEW d \in OneText
  PROVE  Piece(d) \in Seq(Byte)
<1>1. CASE d.tag = 78
  <2>1. d.texts \in Seq(Seq(Byte)) /\ Len(d.texts) = 1
    BY <1>1 DEF OneText, Descriptor
  <2>2. d.texts[1] \in Seq(Byte)
    BY <2>1
  <2> QED BY <1>1, <2>2, PlainBytes DEF Piece
<1>2. CASE d.tag # 78
  BY <1>2, EmptySeq DEF Piece
<1> QED BY <1>1, <1>2

LEMMA PiecesSeq ==
  ASSUME NEW ds \in Seq(OneText)
  PROVE  /\ Pieces(ds) \in Seq(Seq(Byte)) /\ Len(Pieces(ds)) = Len(ds)
         /\ \A i \in 1..Len(ds) : Pieces(ds)[i] = Piece(ds[i])
         /\ ExtendedText(ds) = FlattenSeq(Pieces(ds))
<1> DEFINE T == Seq(Byte)
<1>1. Len(ds) \in Nat /\ DOMAIN ds = 1..Len(ds) /\ \A i \in 1..Len(ds) : ds[i] \in OneText
  BY LenProperties
<1>2. \A i \in 1..Len(ds) : Pieces(ds)[i] = Piece(ds[i]) /\ Piece(ds[i]) \in T
  BY <1>1, PieceBytes DEF Pieces
<1>3. Pieces(ds) = [i \in 1..Len(ds) |-> Pieces(ds)[i]]
  BY <1>1 DEF Pieces
<1>4. Pieces(ds) \in Seq(T) /\ Len(Pieces(ds)) = Len(ds)
  <2> HIDE DEF T
  <2> QED BY <1>1, <1>2, <1>3, MapSeq
<1>5. ExtendedText(ds) = FlattenSeq(Pieces(ds))
  BY Zenon DEF ExtendedText, Pieces, Piece
<1> QED BY <1>2, <1>4, <1>5

LEMMA TextAppended ==
  ASSUME NEW ds \in Seq(OneText), NEW d \in OneText
  PROVE  /\ Append(ds, d) \in Seq(OneText) /\ Len(Append(ds, d)) = Len(ds) + 1
         /\ ExtendedText(ds) \in Seq(Byte)
         /\ ExtendedText(Append(ds, d)) = ExtendedText(ds) \o Piece(d)
<1>1. PICK es : es = Append(ds, d)
  OBVIOUS
<1>2. /\ es \in Seq(OneText) /\ Len(es) = Len(ds) + 1 /\ Len(ds) \in Nat
      /\ \A i \in 1..Len(ds) : es[i] = ds[i]
      /\ es[Len(ds) + 1] = d
  BY <1>1, AppendProperties, LenProperties
<1>3. Pieces(es) = Append(Pieces(ds), Piece(d))
  <2> DEFINE T == Seq(Byte)
  <2>1. /\ Pieces(es) \in Seq(T) /\ Len(Pieces(es)) = Len(ds) + 1
        /\ \A i \in 1..Len(ds) + 1 : Pieces(es)[i] = Piece(es[i])
    BY <1>2, PiecesSeq
  <2>2. /\ Pieces(ds) \in Seq(T) /\ Len(Pieces(ds)) = Len(ds)
        /\ \A i \in 1..Len(ds) : Pieces(ds)[i] = Piece(ds[i])
    BY PiecesSeq
  <2>3. Piece(d) \in T
    BY PieceBytes
  <2> HIDE DEF T
  <2>4. PICK l : l = Append(Pieces(ds), Piece(d))
    OBVIOUS
  <2>5. /\ l \in Seq(T) /\ Len(l) = Len(ds) + 1
        /\ \A i \in 1..Len(ds) : l[i] = Pieces(ds)[i]
        /\ l[Len(ds) + 1] = Piece(d)
    BY <2>2, <2>3, <2>4, AppendProperties
  <2>6. \A i \in 1..Len(ds) + 1 : Pieces(es)[i] = l[i]
    <3> TAKE i \in 1..Len(ds) + 1
    <3>1. CASE i = Len(ds) + 1
      BY <1>2, <2>1, <2>5, <3>1
    <3>2. CASE i # Len(ds) + 1
      <4>1. i \in 1..Len(ds)
        BY <1>2, <3>2
      <4> QED BY <1>2, <2>1, <2>2, <2>5, <4>1
    <3> QED BY <3>1, <3>2
  <2>7. Pieces(es) = l
    BY <2>1, <2>5, <2>6, SeqEqual
  <2> QED BY <2>4, <2>7
<1>4. ExtendedText(es) = FlattenSeq(Pieces(es)) /\ ExtendedText(ds) = FlattenSeq(Pieces(ds))
      /\ Pieces(ds) \in Seq(Seq(Byte))
  BY <1>2, PiecesSeq
<1>5. FlattenSeq(Append(Pieces(ds), Piece(d))) = FlattenSeq(Pieces(ds)) \o Piece(d)
  BY <1>4, PieceBytes, FlatAppend
<1>6. FlattenSeq(Pieces(ds)) \in Seq(Byte)
  BY <1>4, FlatSeq
<1> QED BY <1>1, <1>2, <1>3, <1>4, <1>5, <1>6

-----------------------------------------------------------------------------
(* The bytes of a descriptor with one text or two.                         *)

LEMMA TotalTwo ==
  ASSUME NEW a \in Nat, NEW b \in Nat
  PROVE  Total(<<a>>) = a /\ Total(<<a, b>>) = a + b
<1>1. Total(<<a>>) = a
  <2> PICK ns : ns = <<a>>
    OBVIOUS
  <2>1. Len(ns) = 1 /\ ns[1] = a
    OBVIOUS
  <2>2. PICK m : /\ m[0] = 0 /\ Total(ns) = m[Len(ns)]
                 /\ \A k \in 1..Len(ns) : m[k] = m[k - 1] + ns[k]
    <3>1. Len(ns) \in Nat
      BY <2>1
    <3> QED BY <3>1, TotalLoop
  <2>3. 1 \in 1..Len(ns) /\ 1 - 1 = 0
    BY <2>1
  <2>4. m[1] = m[0] + ns[1]
    BY <2>2, <2>3
  <2> QED BY <2>1, <2>2, <2>4
<1>2. Total(<<a, b>>) = a + b
  <2> PICK ns : ns = <<a, b>>
    OBVIOUS
  <2>1. Len(ns) = 2 /\ ns[1] = a /\ ns[2] = b
    OBVIOUS
  <2>2. PICK m : /\ m[0] = 0 /\ Total(ns) = m[Len(ns)]
                 /\ \A k \in 1..Len(ns) : m[k] = m[k - 1] + ns[k]
    <3>1. Len(ns) \in Nat
      BY <2>1
    <3> QED BY <3>1, TotalLoop
  <2>3. 1 \in 1..Len(ns) /\ 1 - 1 = 0 /\ 2 \in 1..Len(ns) /\ 2 - 1 = 1
    BY <2>1
  <2>4. m[1] = m[0] + ns[1] /\ m[2] = m[1] + ns[2]
    BY <2>2, <2>3
  <2> QED BY <2>1, <2>2, <2>4
<1> QED BY <1>1, <1>2

LEMMA OneTextSize ==
  ASSUME NEW d, d.fixed \in Nat, d.texts \in Seq(Seq(Byte)), Len(d.texts) = 1
  PROVE  d.texts[1] \in Seq(Byte) /\ Size(d) = d.fixed + 1 + Len(d.texts[1])
<1>1. DOMAIN d.texts = 1..1 /\ d.texts[1] \in Seq(Byte)
  BY LenProperties
<1>2. PICK n \in Nat : n = Len(d.texts[1])
  BY <1>1, LenProperties
<1>3. [i \in DOMAIN d.texts |-> 1 + Len(d.texts[i])] = <<1 + n>>
  BY <1>1, <1>2
<1>4. PICK t : t = Total(<<1 + n>>) /\ Size(d) = d.fixed + t
  BY <1>3 DEF Size
<1>5. t = 1 + n
  <2>1. 1 + n \in Nat
    OBVIOUS
  <2> QED BY <1>4, <2>1, TotalTwo
<1>6. Size(d) = d.fixed + 1 + n
  <2>1. PICK f \in Nat : f = d.fixed
    OBVIOUS
  <2>2. f + (1 + n) = f + 1 + n
    BY SMT
  <2> QED BY <1>4, <1>5, <2>1, <2>2
<1> QED BY <1>1, <1>2, <1>6, Zenon

LEMMA TwoTextsSize ==
  ASSUME NEW d, d.fixed \in Nat, d.texts \in Seq(Seq(Byte)), Len(d.texts) = 2
  PROVE  /\ d.texts[1] \in Seq(Byte) /\ d.texts[2] \in Seq(Byte)
         /\ Size(d) = d.fixed + 2 + Len(d.texts[1]) + Len(d.texts[2])
<1>1. DOMAIN d.texts = 1..2 /\ d.texts[1] \in Seq(Byte) /\ d.texts[2] \in Seq(Byte)
  BY LenProperties
<1>2. PICK n \in Nat, l \in Nat : n = Len(d.texts[1]) /\ l = Len(d.texts[2])
  BY <1>1, LenProperties
<1>3. [i \in DOMAIN d.texts |-> 1 + Len(d.texts[i])] = <<1 + n, 1 + l>>
  BY <1>1, <1>2
<1>4. PICK t : t = Total(<<1 + n, 1 + l>>) /\ Size(d) = d.fixed + t
  BY <1>3 DEF Size
<1>5. t = (1 + n) + (1 + l)
  <2>1. 1 + n \in Nat /\ 1 + l \in Nat
    OBVIOUS
  <2> QED BY <1>4, <2>1, TotalTwo
<1>6. Size(d) = d.fixed + 2 + n + l
  <2>1. PICK f \in Nat : f = d.fixed
    OBVIOUS
  <2>2. f + ((1 + n) + (1 + l)) = f + 2 + n + l
    BY SMT
  <2> QED BY <1>4, <1>5, <2>1, <2>2
<1> QED BY <1>1, <1>2, <1>6, Zenon

LEMMA Below256 ==
  ASSUME NEW n \in Nat, n <= 255
  PROVE  n % 256 = n
OBVIOUS

\* Back-filled length bytes are true up to 255.
LEMMA ClosedTrue ==
  ASSUME NEW d \in Descriptor, NEW ts \in Seq(Seq(Byte)),
         Size([d EXCEPT !.texts = ts]) <= 255
  PROVE  LET e == Closed([d EXCEPT !.texts = ts])
         IN e \in Descriptor /\ e.tag = d.tag /\ e.texts = ts /\ e.len = Size(e)
<1> PICK f : f = [d EXCEPT !.texts = ts]
  OBVIOUS
<1> PICK e : e = Closed(f)
  OBVIOUS
<1>1. e \in Descriptor /\ e = [tag |-> d.tag, len |-> Size(f) % 256, fixed |-> d.fixed, texts |-> ts]
  BY ClosedDescriptor, ZenonT(30)
<1>2. f \in Descriptor /\ f.fixed = d.fixed /\ f.texts = ts
  BY DEF Descriptor
<1>3. PICK n \in Nat : n = Size(f)
  BY <1>2, DescriptorSize
<1>4. n % 256 = n
  <2>1. n <= 255
    BY <1>3
  <2> QED BY <2>1, Below256, Zenon
<1>5. e.tag = d.tag /\ e.len = n /\ e.fixed = d.fixed /\ e.texts = ts
  BY <1>1, <1>3, <1>4
<1>6. Size(e) = Size(f)
  BY <1>2, <1>5, Zenon DEF Size
<1> QED BY <1>1, <1>3, <1>5, <1>6

LEMMA RecodeLonger ==
  ASSUME NEW t \in Seq(Byte)
  PROVE  Recode(t) \in Seq(Byte) /\ Len(Recode(t)) <= Len(t) + 3 /\ Len(t) \in Nat
<1>1. Len(Codepage \o t) = Len(Codepage) + Len(t)
  BY CodepageBytes, ConcatProperties
<1>2. Len(t) \in Nat
  BY LenProperties
<1> QED BY <1>1, <1>2, CodepageBytes, RecodeBytes DEF Recode

\* The code pages of two texts are 6 bytes.
LEMMA RecodedTrue ==
  ASSUME NEW d \in Descriptor, Len(d.texts) = 2, Size(d) + 6 <= 255
  PROVE  Recoded(d).len = Size(Recoded(d))
<1>1. /\ d.fixed \in Nat /\ d.texts \in Seq(Seq(Byte)) /\ DOMAIN d.texts = 1..2
      /\ d.texts[1] \in Seq(Byte) /\ d.texts[2] \in Seq(Byte)
  BY LenProperties DEF Descriptor
<1> PICK ts : ts = [i \in DOMAIN d.texts |-> Recode(d.texts[i])]
  OBVIOUS
<1>2. ts \in Seq(Seq(Byte))
  BY <1>1, RecodedTexts
<1>3. DOMAIN ts = 1..2 /\ ts[1] = Recode(d.texts[1]) /\ ts[2] = Recode(d.texts[2])
  BY <1>1
<1>4. Len(ts) = 2
  BY <1>2, <1>3, LenProperties
<1> PICK f : f = [d EXCEPT !.texts = ts]
  OBVIOUS
<1>5. f.fixed = d.fixed /\ f.texts = ts
  BY DEF Descriptor
<1>6. Size(f) = d.fixed + 2 + Len(ts[1]) + Len(ts[2])
  BY <1>1, <1>2, <1>4, <1>5, TwoTextsSize
<1>7. Size(d) = d.fixed + 2 + Len(d.texts[1]) + Len(d.texts[2])
  BY <1>1, TwoTextsSize
<1>8. /\ Len(ts[1]) <= Len(d.texts[1]) + 3 /\ Len(ts[2]) <= Len(d.texts[2]) + 3
      /\ Len(d.texts[1]) \in Nat /\ Len(d.texts[2]) \in Nat
      /\ Len(ts[1]) \in Nat /\ Len(ts[2]) \in Nat
  BY <1>1, <1>3, RecodeLonger, LenProperties
<1>9. Size(f) <= 255
  <2>1. PICK a \in Nat, b \in Nat, x \in Nat, y \in Nat, z \in Nat :
          /\ a = Len(ts[1]) /\ b = Len(ts[2]) /\ z = d.fixed
          /\ x = Len(d.texts[1]) /\ y = Len(d.texts[2])
    BY <1>1, <1>8
  <2>2. a <= x + 3 /\ b <= y + 3 /\ (z + 2 + x + y) + 6 <= 255
    BY <1>7, <1>8, <2>1
  <2>3. Size(f) = z + 2 + a + b
    BY <1>6, <2>1
  <2> QED BY <2>2, <2>3
<1>10. Recoded(d) = Closed(f)
  BY Zenon DEF Recoded
<1> QED BY <1>2, <1>9, <1>10, ClosedTrue

-----------------------------------------------------------------------------
(* One round of copy_eit_descriptors's loop.                               *)

LEMMA Associative ==
  ASSUME NEW x \in Seq(Byte), NEW y \in Seq(Byte), NEW z \in Seq(Byte)
  PROVE  (x \o y) \o z = x \o (y \o z)
BY ConcatAssociative

\* The texts o, v, t and o, p, l are the same.
Same(o, v, t, p, l) == (o \o v) \o t = (o \o p) \o l

LEMMA Regroup ==
  ASSUME NEW o \in Seq(Byte), NEW v \in Seq(Byte), NEW t \in Seq(Byte),
         NEW p \in Seq(Byte), NEW l \in Seq(Byte), p \o l = v \o t
  PROVE  Same(o, v, t, p, l)
<1>1. (o \o v) \o t = o \o (v \o t)
  BY Associative, ZenonT(30)
<1>2. (o \o p) \o l = o \o (p \o l)
  BY Associative, ZenonT(30)
<1> QED BY <1>1, <1>2 DEF Same

\* A text in two parts.
LEMMA Parts ==
  ASSUME NEW text \in Seq(Byte), NEW n \in 1..Len(text)
  PROVE  LET new == SubSeq(text, 1, n)
             l   == SubSeq(text, n + 1, Len(text)) IN
         /\ new \in Seq(Byte) /\ Len(new) = n /\ l \in Seq(Byte) /\ Len(l) = Len(text) - n
         /\ new \o l = text
<1> PICK c \in Nat : c = Len(text)
  BY LenProperties
<1> PICK new : new = SubSeq(text, 1, n)
  OBVIOUS
<1> PICK l : l = SubSeq(text, n + 1, c)
  OBVIOUS
<1>1. \A i \in 1..c : text[i] \in Byte
  BY LenProperties
<1>2. new \in Seq(Byte) /\ Len(new) = n
  <2>1. \A i \in 1..n : text[i] \in Byte
    BY <1>1
  <2>2. new \in Seq(Byte) /\ Len(new) = IF 1 <= n THEN n - 1 + 1 ELSE 0
    BY <2>1, SubSeqProperties
  <2> QED BY <2>2
<1>3. l \in Seq(Byte) /\ Len(l) = c - n
  <2>1. \A i \in n + 1..c : text[i] \in Byte
    BY <1>1
  <2>2. n + 1 \in Int /\ c \in Int
    OBVIOUS
  <2>3. l \in Seq(Byte) /\ Len(l) = IF n + 1 <= c THEN c - (n + 1) + 1 ELSE 0
    BY <2>1, <2>2, SubSeqProperties
  <2> QED BY <2>3
<1>4. new \o l = text
  <2>1. 1 \in 1..c + 1 /\ n \in 1 - 1..c /\ c \in n..c
    OBVIOUS
  <2>2. new \o l = SubSeq(text, 1, c)
    BY <2>1, ConcatAdjacentSubSeq
  <2> QED BY <2>2, SubSeqFull
<1> QED BY <1>2, <1>3, <1>4

\* The overflow and a first part of the text behind the code page.
LEMMA Prefixed ==
  \A v, new, l \in Seq(Byte) : Len(new) >= 1 =>
    /\ Codepage \o v \o new \in Seq(Byte)
    /\ Len(Codepage \o v \o new) = 3 + (Len(v) + Len(new))
    /\ Plain(Codepage \o v \o new) = v \o new
    /\ Plain(Codepage \o v \o new) \o l = v \o (new \o l)
<1> TAKE v, new, l \in Seq(Byte)
<1> HAVE Len(new) >= 1
<1>1. PICK c \in Seq(Byte) : c = Codepage /\ Len(c) = 3
  BY CodepageBytes
<1>2. v \o new \in Seq(Byte) /\ Len(v \o new) = Len(v) + Len(new)
  BY ConcatProperties
<1>3. PICK w \in Seq(Byte) : w = v \o new
  BY <1>2
<1>4. (c \o v) \o new = c \o (v \o new)
  BY Associative, ZenonT(30)
<1>5. Codepage \o v \o new = c \o w
  BY <1>1, <1>3, <1>4
<1>6. c \o w \in Seq(Byte) /\ Len(c \o w) = Len(c) + Len(w)
  BY ConcatProperties
<1>7. w # << >>
  <2>1. w = << >> => Len(w) = 0
    BY EmptySeq
  <2>2. Len(v) \in Nat /\ Len(new) \in Nat
    BY LenProperties
  <2> QED BY <1>2, <1>3, <2>1, <2>2
<1>8. Plain(c \o w) = w
  BY <1>1, <1>7, PlainPrefixed
<1>9. (v \o new) \o l = v \o (new \o l)
  BY Associative, ZenonT(30)
<1> QED BY <1>1, <1>2, <1>3, <1>5, <1>6, <1>8, <1>9

\* A complete descriptor with one text has at most 255 bytes.
LEMMA OneTextBytes ==
  ASSUME NEW d \in Descriptor, Len(d.texts) = 1, d.len = Size(d)
  PROVE  /\ d.fixed \in Nat /\ d.texts \in Seq(Seq(Byte)) /\ d.texts[1] \in Seq(Byte)
         /\ d.fixed + 1 + Len(d.texts[1]) <= 255
<1>1. d.fixed \in Nat /\ d.texts \in Seq(Seq(Byte)) /\ d.len \in 0..255
  BY Zenon DEF Descriptor, Byte
<1>2. d.texts[1] \in Seq(Byte) /\ d.len = d.fixed + 1 + Len(d.texts[1])
  BY <1>1, OneTextSize
<1>3. PICK f \in Nat, n \in Nat : f = d.fixed /\ n = Len(d.texts[1])
  BY <1>1, <1>2, LenProperties
<1>4. f + 1 + n <= 255
  <2>1. PICK k \in Int : k = d.len /\ k <= 255
    BY <1>1
  <2>2. k = f + 1 + n
    BY <1>2, <1>3, <2>1, Zenon
  <2> QED BY <2>1, <2>2
<1> QED BY <1>1, <1>2, <1>3, <1>4

\* d has text, and room for a byte of it behind the code page and the overflow.
HasRoom(acc, d) ==
  /\ acc.overflow \in Seq(Byte) /\ d \in Descriptor /\ d.tag = 78 /\ d.len = Size(d)
  /\ Len(d.texts) = 1 /\ d.texts[1] # << >>
  /\ d.fixed + 1 + Len(Codepage) + Len(acc.overflow) < MaxLength

\* The text before and the descriptor's own go into x, n bytes of the latter, and
\* what is left of it is l.
Splits(acc, d, x, n, l) ==
  /\ Extended(acc, d) = [out |-> Append(acc.out, x), overflow |-> l,
                         copies |-> acc.copies \cup {n}]
  /\ x.tag = 78 /\ x.len = Size(x)
  /\ Len(l) <= Len(acc.overflow) + 5
  /\ Piece(x) \o l = acc.overflow \o d.texts[1]

\* recode_text with overflow copies at least a byte; nothing of the text is lost
\* between the descriptor and the overflow, which grows by at most 5 bytes.
LEMMA ExtendedRound ==
  ASSUME NEW acc, NEW d, HasRoom(acc, d)
  PROVE  \E x \in OneText, n \in Nat, l \in Seq(Byte) : Splits(acc, d, x, n, l)
<1>1. d.fixed \in Nat /\ d.texts \in Seq(Seq(Byte)) /\ d.texts[1] \in Seq(Byte)
      /\ d.fixed + 1 + Len(d.texts[1]) <= 255
  BY OneTextBytes DEF HasRoom
<1>30. /\ acc.overflow \in Seq(Byte) /\ d \in Descriptor /\ d.tag = 78
       /\ d.texts[1] # << >>
       /\ d.fixed + 1 + Len(Codepage) + Len(acc.overflow) < MaxLength
  BY DEF HasRoom
<1>2. PICK text \in Seq(Byte), v \in Seq(Byte) : text = d.texts[1] /\ v = acc.overflow
  BY <1>1, <1>30
<1>3. Len(text) \in Nat /\ Len(text) >= 1 /\ Len(v) \in Nat
  BY <1>2, <1>30, EmptySeq, LenProperties
<1>4. PICK c \in Nat, b \in Nat, f \in Nat : c = Len(text) /\ b = Len(v) /\ f = d.fixed
  BY <1>1, <1>3
<1>5. c >= 1 /\ f + 1 + c <= 255 /\ f + 1 + 3 + b < 253
  BY <1>1, <1>2, <1>3, <1>4, <1>30, CodepageBytes DEF MaxLength
<1>6. PICK n : n = ToCopy(d, v)
  OBVIOUS
<1>7. n = IF 253 - f - 1 - 3 - b < c THEN 253 - f - 1 - 3 - b ELSE c
  BY <1>2, <1>4, <1>6, CodepageBytes DEF ToCopy, SpaceLeft, MaxLength
<1>8. n \in Nat /\ 1 <= n /\ n <= c /\ c - n <= b + 5 /\ f + 1 + (3 + (b + n)) <= 253
  BY <1>5, <1>7
<1>9. PICK new, l : new = SubSeq(text, 1, n) /\ l = SubSeq(text, n + 1, c)
  OBVIOUS
<1>10. /\ new \in Seq(Byte) /\ Len(new) = n /\ l \in Seq(Byte) /\ Len(l) = c - n
       /\ new \o l = text
  <2>1. n \in 1..Len(text)
    BY <1>4, <1>8
  <2>2. LET h == SubSeq(text, 1, n)
            r == SubSeq(text, n + 1, Len(text)) IN
        /\ h \in Seq(Byte) /\ Len(h) = n /\ r \in Seq(Byte) /\ Len(r) = Len(text) - n
        /\ h \o r = text
    BY <2>1, Parts, Zenon
  <2> QED BY <1>4, <1>9, <2>2
<1>11. PICK t : t = Codepage \o v \o new
  OBVIOUS
<1>12. /\ t \in Seq(Byte) /\ Len(t) = 3 + (b + n) /\ Plain(t) = v \o new
       /\ Plain(t) \o l = v \o text
  <2>1. Len(new) >= 1
    BY <1>8, <1>10
  <2>2. /\ t \in Seq(Byte) /\ Len(t) = 3 + (Len(v) + Len(new)) /\ Plain(t) = v \o new
        /\ Plain(t) \o l = v \o (new \o l)
    BY <1>10, <1>11, <2>1, Prefixed, ZenonT(30)
  <2> QED BY <1>4, <1>10, <2>2
<1>13. PICK ts : ts = <<t>>
  OBVIOUS
<1>14. ts \in Seq(Seq(Byte)) /\ Len(ts) = 1 /\ ts[1] = t
  BY <1>12, <1>13
<1>15. PICK g : g = [d EXCEPT !.texts = ts]
  OBVIOUS
<1>16. g.fixed = f /\ g.texts = ts
  BY <1>4, <1>15, <1>30 DEF Descriptor
<1>17. Size(g) <= 255
  <2>1. g.fixed \in Nat /\ g.texts \in Seq(Seq(Byte)) /\ Len(g.texts) = 1
    BY <1>14, <1>16
  <2>2. Size(g) = g.fixed + 1 + Len(g.texts[1])
    BY <2>1, OneTextSize
  <2>3. Size(g) = f + 1 + (3 + (b + n))
    BY <1>12, <1>14, <1>16, <2>2
  <2>4. f + 1 + (3 + (b + n)) <= 255
    BY <1>8
  <2> QED BY <2>3, <2>4
<1>18. PICK x : x = Closed(g)
  OBVIOUS
<1>19. x \in Descriptor /\ x.tag = 78 /\ x.texts = ts /\ x.len = Size(x)
  BY <1>14, <1>15, <1>17, <1>18, <1>30, ClosedTrue
<1>20. x \in OneText /\ Piece(x) = Plain(t)
  BY <1>12, <1>14, <1>19 DEF OneText, Piece
<1>21. Piece(x) \o l = v \o text
  BY <1>12, <1>20, Zenon
<1>22. Extended(acc, d) = [out |-> Append(acc.out, x), overflow |-> l,
                           copies |-> acc.copies \cup {n}]
  <2>1. Extended(acc, d) =
          [out |-> Append(acc.out, Closed([d EXCEPT !.texts = <<Codepage \o v \o new>>])),
           overflow |-> SubSeq(text, n + 1, Len(text)), copies |-> acc.copies \cup {n}]
    BY <1>2, <1>6, <1>9, Zenon DEF Extended
  <2> QED BY <1>4, <1>9, <1>11, <1>13, <1>15, <1>18, <2>1, Zenon
<1>23. Len(l) <= Len(v) + 5
  BY <1>4, <1>8, <1>10
<1>24. x \in OneText /\ n \in Nat /\ l \in Seq(Byte) /\ x.tag = 78 /\ x.len = Size(x)
  BY <1>8, <1>10, <1>19, <1>20
<1>25. Len(l) <= Len(acc.overflow) + 5 /\ Piece(x) \o l = acc.overflow \o d.texts[1]
  BY <1>2, <1>21, <1>23, Zenon
<1>26. Splits(acc, d, x, n, l)
  BY <1>22, <1>24, <1>25, Zenon DEF Splits
<1> QED BY <1>24, <1>26

\* How many of the first k descriptors are extended event descriptors.
Count(ds, k) == Cardinality(Tagged(ds, 78) \cap 1..k)

LEMMA CountRound ==
  ASSUME NEW ds \in Seq(Descriptor), NEW k \in 1..Len(ds)
  PROVE  /\ Cardinality(Tagged(ds, 78)) \in Nat /\ Count(ds, k) <= Cardinality(Tagged(ds, 78))
         /\ Count(ds, k - 1) \in Nat
         /\ Count(ds, k) = IF ds[k].tag = 78 THEN Count(ds, k - 1) + 1 ELSE Count(ds, k - 1)
<1>1. PICK n \in Nat : n = Len(ds) /\ DOMAIN ds = 1..n
  BY LenProperties
<1>2. PICK T : T = Tagged(ds, 78)
  OBVIOUS
<1>3. T \in SUBSET (1..n) /\ (k \in T <=> ds[k].tag = 78)
  BY <1>1, <1>2 DEF Tagged
<1>4. IsFiniteSet(T) /\ Cardinality(T) \in Nat
  <2>1. 1 \in Int /\ n \in Int
    OBVIOUS
  <2>2. IsFiniteSet(1..n)
    BY <2>1, FS_Interval, Zenon
  <2> QED BY <1>3, <2>2, FS_Subset, FS_CardinalityType
<1>5. PICK A, B : A = T \cap 1..k - 1 /\ B = T \cap 1..k
  OBVIOUS
<1>6. A \in SUBSET T /\ B \in SUBSET T
  BY <1>5
<1>7. /\ IsFiniteSet(A) /\ Cardinality(A) \in Nat
      /\ Cardinality(B) <= Cardinality(T)
  BY <1>4, <1>6, FS_Subset, FS_CardinalityType
<1>8. B = IF k \in T THEN A \cup {k} ELSE A
  BY <1>3, <1>5
<1>9. k \notin A
  BY <1>5
<1>10. Cardinality(A \cup {k}) = Cardinality(A) + 1
  BY <1>7, <1>9, FS_AddElement
<1>11. Count(ds, k - 1) = Cardinality(A) /\ Count(ds, k) = Cardinality(B)
  BY <1>2, <1>5 DEF Count
<1> QED BY <1>2, <1>3, <1>4, <1>7, <1>8, <1>10, <1>11

\* What holds of acc when the loop has copied the first k descriptors: m[k] is
\* the text in them.
Copied(acc, ds, onid, m, k) ==
  /\ acc = [out |-> acc.out, overflow |-> acc.overflow, copies |-> acc.copies]
  /\ acc.out \in Seq(OneText) /\ Len(acc.out) = k
  /\ acc.overflow \in Seq(Byte) /\ Len(acc.overflow) <= 5 * Count(ds, k)
  /\ Latin(onid) \/ acc.overflow = << >>
  /\ acc.copies \subseteq Nat
  /\ \A i \in 1..k : ds[i].tag = 78 \/ Size(ds[i]) + 6 <= 255 =>
       acc.out[i].len = Size(acc.out[i])
  /\ ExtendedText(acc.out) \o acc.overflow = m[k]

\* A round that appends x, leaves l as the overflow and keeps the text.
LEMMA AppendRound ==
  ASSUME NEW ds, NEW k \in Nat \ {0}, NEW onid, NEW m, NEW acc,
         Copied(acc, ds, onid, m, k - 1),
         NEW x \in OneText, NEW l \in Seq(Byte), NEW c \in SUBSET Nat,
         Len(l) <= 5 * Count(ds, k), Latin(onid) \/ l = << >>,
         ds[k].tag = 78 \/ Size(ds[k]) + 6 <= 255 => x.len = Size(x),
         m[k] = (ExtendedText(acc.out) \o Piece(x)) \o l
  PROVE  Copied([out |-> Append(acc.out, x), overflow |-> l, copies |-> c], ds, onid, m, k)
<1>1. PICK e : e = [out |-> Append(acc.out, x), overflow |-> l, copies |-> c]
  OBVIOUS
<1>2. e.out = Append(acc.out, x) /\ e.overflow = l /\ e.copies = c
      /\ e = [out |-> e.out, overflow |-> e.overflow, copies |-> e.copies]
  BY <1>1
<1>3. acc.out \in Seq(OneText) /\ Len(acc.out) = k - 1
  BY DEF Copied
<1>4. /\ e.out \in Seq(OneText) /\ Len(e.out) = k /\ e.out[k] = x
      /\ \A i \in 1..k - 1 : e.out[i] = acc.out[i]
  <2>1. /\ Append(acc.out, x) \in Seq(OneText)
        /\ Len(Append(acc.out, x)) = Len(acc.out) + 1
        /\ \A i \in 1..Len(acc.out) : Append(acc.out, x)[i] = acc.out[i]
        /\ Append(acc.out, x)[Len(acc.out) + 1] = x
    BY <1>3, AppendProperties
  <2>2. Len(acc.out) + 1 = k
    BY <1>3
  <2> QED BY <1>2, <1>3, <2>1, <2>2
<1>5. \A i \in 1..k : ds[i].tag = 78 \/ Size(ds[i]) + 6 <= 255 => e.out[i].len = Size(e.out[i])
  <2> TAKE i \in 1..k
  <2>1. CASE i = k
    BY <1>4, <2>1
  <2>2. CASE i # k
    <3>1. i \in 1..k - 1
      BY <2>2
    <3> QED BY <1>4, <3>1 DEF Copied
  <2> QED BY <2>1, <2>2
<1>6. ExtendedText(e.out) = ExtendedText(acc.out) \o Piece(x)
  BY <1>2, <1>3, TextAppended
<1>7. ExtendedText(e.out) \o e.overflow = m[k]
  BY <1>2, <1>6
<1>8. Copied(e, ds, onid, m, k)
  BY <1>2, <1>4, <1>5, <1>7 DEF Copied
<1> QED BY <1>1, <1>8

\* Of descriptors whose texts fit, each has what the round needs.
LEMMA FittingTexts ==
  ASSUME NEW ds \in Seq(Descriptor), TextsFit(ds), NEW k \in 1..Len(ds)
  PROVE  /\ ds[k] \in OneText /\ ds[k].len = Size(ds[k])
         /\ ds[k].tag = 77 => Len(ds[k].texts) = 2
         /\ ds[k].tag = 78 =>
              /\ Len(ds[k].texts) = 1 /\ Plain(ds[k].texts[1]) = ds[k].texts[1]
              /\ ds[k].fixed + 1 + Len(Codepage)
                   + 5 * (Cardinality(Tagged(ds, 78)) - 1) < MaxLength
<1>1. k \in DOMAIN ds /\ ds[k] \in Descriptor
  BY LenProperties
<1>2. ds[k].tag = 77 => k \in Tagged(ds, 77)
  BY <1>1 DEF Tagged
<1>3. ds[k].tag = 78 => k \in Tagged(ds, 78)
  BY <1>1 DEF Tagged
<1>4. ds[k].len = Size(ds[k]) /\ (ds[k].tag = 77 => Len(ds[k].texts) = 2)
  BY <1>1, <1>2, Zenon DEF TextsFit
<1>5. ds[k].tag = 78 =>
              /\ Len(ds[k].texts) = 1 /\ Plain(ds[k].texts[1]) = ds[k].texts[1]
              /\ ds[k].fixed + 1 + Len(Codepage)
                   + 5 * (Cardinality(Tagged(ds, 78)) - 1) < MaxLength
  BY <1>1, <1>3, Zenon DEF TextsFit
<1> QED BY <1>1, <1>4, <1>5 DEF OneText

\* Round k of taking up text takes up t.
Adds(m, k, t) == m[k] = m[k - 1] \o t

\* A round that only appends a descriptor with the same text.
LEMMA OtherRound ==
  ASSUME NEW ds \in Seq(Descriptor), NEW k \in 1..Len(ds), NEW onid, NEW m, NEW acc,
         Copied(acc, ds, onid, m, k - 1), Adds(m, k, Piece(ds[k])),
         NEW x \in OneText, Piece(x) = Piece(ds[k]),
         ds[k].tag = 78 \/ Size(ds[k]) + 6 <= 255 => x.len = Size(x),
         Piece(x) = << >> \/ acc.overflow = << >>
  PROVE  Copied([acc EXCEPT !.out = Append(@, x)], ds, onid, m, k)
<1>1. PICK v \in Seq(Byte) : v = acc.overflow /\ Len(v) <= 5 * Count(ds, k - 1)
  BY Zenon DEF Copied
<1>2. acc.copies \in SUBSET Nat /\ (Latin(onid) \/ v = << >>)
  BY <1>1 DEF Copied
<1>3. Len(v) <= 5 * Count(ds, k)
  <2>1. PICK a \in Nat, b \in Nat : a = Count(ds, k - 1) /\ b = Count(ds, k)
    BY CountRound
  <2>2. a <= b
    BY <2>1, CountRound
  <2>3. Len(v) \in Nat /\ Len(v) <= 5 * a
    BY <1>1, <2>1, LenProperties
  <2>4. Len(v) <= 5 * b
    BY <2>2, <2>3
  <2> QED BY <2>1, <2>4
<1>4. PICK o \in Seq(Byte), p \in Seq(Byte) : o = ExtendedText(acc.out) /\ p = Piece(x)
  <2>1. acc.out \in Seq(OneText)
    BY DEF Copied
  <2> QED BY <2>1, TextAppended, PieceBytes
<1>5. m[k] = (o \o v) \o p
  BY <1>1, <1>4 DEF Copied, Adds
<1>6. (o \o v) \o p = (o \o p) \o v
  <2>1. o \o << >> = o
    BY ConcatEmptySeq, Zenon
  <2>2. CASE p = << >>
    <3>1. o \o v \in Seq(Byte)
      BY ConcatProperties, Zenon
    <3>2. (o \o v) \o << >> = o \o v
      BY <3>1, ConcatEmptySeq, Zenon
    <3> QED BY <2>1, <2>2, <3>2, Zenon
  <2>3. CASE v = << >>
    <3>1. o \o p \in Seq(Byte)
      BY ConcatProperties, Zenon
    <3>2. (o \o p) \o << >> = o \o p
      BY <3>1, ConcatEmptySeq, Zenon
    <3> QED BY <2>1, <2>3, <3>2, Zenon
  <2> QED BY <1>1, <1>4, <2>2, <2>3
<1>7. m[k] = (ExtendedText(acc.out) \o Piece(x)) \o v
  BY <1>4, <1>5, <1>6, Zenon
<1>8. k \in Nat \ {0}
  BY LenProperties
<1>9. Copied([out |-> Append(acc.out, x), overflow |-> v, copies |-> acc.copies], ds, onid, m, k)
  BY <1>2, <1>3, <1>7, <1>8, AppendRound
<1>10. [acc EXCEPT !.out = Append(@, x)]
         = [out |-> Append(acc.out, x), overflow |-> v, copies |-> acc.copies]
  <2>1. PICK a, b, c : acc = [out |-> a, overflow |-> b, copies |-> c]
    BY Zenon DEF Copied
  <2>2. acc.out = a /\ acc.overflow = b /\ acc.copies = c
    BY <2>1
  <2>3. PICK y : y = Append(acc.out, x)
    OBVIOUS
  <2>4. [[out |-> a, overflow |-> b, copies |-> c] EXCEPT !.out = y]
          = [out |-> y, overflow |-> b, copies |-> c]
    BY SMTT(30)
  <2> QED BY <1>1, <2>1, <2>2, <2>3, <2>4, Zenon
<1> QED BY <1>9, <1>10

HasText(d) == d.tag = 78 /\ d.texts[1] # << >>

\* A round that moves text.
LEMMA MoveRound ==
  ASSUME NEW ds \in Seq(Descriptor), TextsFit(ds), NEW k \in 1..Len(ds), NEW onid, Latin(onid),
         NEW m, NEW acc, Copied(acc, ds, onid, m, k - 1), Adds(m, k, Piece(ds[k])),
         HasText(ds[k])
  PROVE  Copied(Extended(acc, ds[k]), ds, onid, m, k)
<1>1. PICK v \in Seq(Byte) : v = acc.overflow /\ Len(v) <= 5 * Count(ds, k - 1)
  BY Zenon DEF Copied
<1>2. PICK a \in Nat, b \in Nat, c \in Nat :
        /\ a = Count(ds, k - 1) /\ b = Count(ds, k) /\ c = Cardinality(Tagged(ds, 78))
        /\ b = a + 1 /\ b <= c
  BY CountRound DEF HasText
<1>3. Len(v) \in Nat /\ Len(v) <= 5 * a
  BY <1>1, <1>2, LenProperties
<1>4. HasRoom(acc, ds[k])
  <2>1. /\ ds[k] \in OneText /\ ds[k].len = Size(ds[k]) /\ Len(ds[k].texts) = 1
        /\ ds[k].fixed + 1 + Len(Codepage) + 5 * (c - 1) < MaxLength
    BY <1>2, FittingTexts DEF HasText
  <2>2. ds[k] \in Descriptor
    BY <2>1 DEF OneText
  <2>3. ds[k].fixed + 1 + Len(Codepage) + Len(v) < MaxLength
    <3>1. PICK f \in Nat : f = ds[k].fixed
      BY <2>2 DEF Descriptor
    <3>2. Len(v) <= 5 * (c - 1)
      BY <1>2, <1>3, SMTT(30)
    <3>3. f + 1 + 3 + 5 * (c - 1) < 253
      BY <2>1, <3>1, CodepageBytes DEF MaxLength
    <3>4. f + 1 + 3 + Len(v) < 253
      BY <1>3, <3>2, <3>3
    <3> QED BY <3>1, <3>4, CodepageBytes DEF MaxLength
  <2> QED BY <1>1, <2>1, <2>2, <2>3 DEF HasRoom, HasText
<1>5. PICK x \in OneText, n \in Nat, l \in Seq(Byte) : Splits(acc, ds[k], x, n, l)
  BY <1>4, ExtendedRound
<1>6. Len(l) <= 5 * Count(ds, k)
  <2>1. Len(l) <= Len(v) + 5 /\ Len(l) \in Nat
    BY <1>1, <1>5, LenProperties DEF Splits
  <2>2. Len(l) <= 5 * b
    BY <1>2, <1>3, <2>1, SMTT(30)
  <2> QED BY <1>2, <2>2
<1>7. m[k] = (ExtendedText(acc.out) \o Piece(x)) \o l
  <2>1. PICK o \in Seq(Byte), p \in Seq(Byte), t \in Seq(Byte) :
          o = ExtendedText(acc.out) /\ p = Piece(x) /\ t = Piece(ds[k])
    <3>1. acc.out \in Seq(OneText)
      BY DEF Copied
    <3>2. ExtendedText(acc.out) \in Seq(Byte)
      BY <3>1, TextAppended
    <3>3. Piece(x) \in Seq(Byte) /\ Piece(ds[k]) \in Seq(Byte)
      BY FittingTexts, PieceBytes
    <3> QED BY <3>2, <3>3
  <2>2. t = ds[k].texts[1]
    BY <2>1, FittingTexts DEF Piece, HasText
  <2>3. p \o l = v \o t
    BY <1>1, <1>5, <2>1, <2>2, Zenon DEF Splits
  <2>4. Same(o, v, t, p, l)
    BY <2>3, Regroup
  <2>5. m[k] = (o \o v) \o t
    BY <1>1, <2>1 DEF Copied, Adds
  <2> QED BY <2>1, <2>4, <2>5, Zenon DEF Same
<1>8. acc.copies \cup {n} \in SUBSET Nat
  BY DEF Copied
<1>9. k \in Nat \ {0}
  BY LenProperties
<1>10. Copied([out |-> Append(acc.out, x), overflow |-> l, copies |-> acc.copies \cup {n}],
              ds, onid, m, k)
  <2>1. ds[k].tag = 78 \/ Size(ds[k]) + 6 <= 255 => x.len = Size(x)
    BY <1>5 DEF Splits
  <2>2. Latin(onid) \/ l = << >>
    OBVIOUS
  <2>3. PICK c2 \in SUBSET Nat : c2 = acc.copies \cup {n}
    BY <1>8
  <2>4. Copied([out |-> Append(acc.out, x), overflow |-> l, copies |-> c2], ds, onid, m, k)
    BY <1>6, <1>7, <1>9, <2>1, <2>2, AppendRound
  <2> QED BY <2>3, <2>4
<1> QED BY <1>5, <1>10, Zenon DEF Splits

LEMMA CopyRound ==
  ASSUME NEW ds \in Seq(Descriptor), TextsFit(ds), NEW k \in 1..Len(ds), NEW onid, NEW m,
         NEW acc, Copied(acc, ds, onid, m, k - 1), Adds(m, k, Piece(ds[k]))
  PROVE  Copied(CopyEitDescriptor(acc, ds[k], onid), ds, onid, m, k)
<1>1. PICK d : d = ds[k]
  OBVIOUS
<1>2. d \in OneText /\ d \in Descriptor /\ d.len = Size(d)
  BY <1>1, FittingTexts DEF OneText
<1>3. CASE Latin(onid) /\ d.tag = 77
  <2>1. PICK x : x = Recoded(d)
    OBVIOUS
  <2>2. x \in Descriptor /\ x.tag = 77
    <3>1. d.texts \in Seq(Seq(Byte))
      BY <1>2 DEF Descriptor
    <3>2. PICK ts \in Seq(Seq(Byte)) : ts = [i \in DOMAIN d.texts |-> Recode(d.texts[i])]
      BY <3>1, RecodedTexts
    <3>3. Recoded(d).tag = d.tag
      <4>1. Closed([d EXCEPT !.texts = ts]) =
              [tag |-> d.tag, len |-> Size([d EXCEPT !.texts = ts]) % 256,
               fixed |-> d.fixed, texts |-> ts]
        BY <1>2, ClosedDescriptor
      <4>2. Recoded(d) = Closed([d EXCEPT !.texts = ts])
        BY <3>2, Zenon DEF Recoded
      <4> QED BY <4>1, <4>2
    <3> QED BY <1>2, <1>3, <2>1, <3>3, RecodedDescriptor
  <2>3. x \in OneText /\ Piece(x) = << >> /\ Piece(ds[k]) = << >>
    BY <1>1, <1>3, <2>2 DEF OneText, Piece
  <2>4. ds[k].tag = 78 \/ Size(ds[k]) + 6 <= 255 => x.len = Size(x)
    <3>1. Len(d.texts) = 2
      BY <1>1, <1>3, FittingTexts
    <3> QED BY <1>1, <1>2, <1>3, <2>1, <3>1, RecodedTrue
  <2>5. Copied([acc EXCEPT !.out = Append(@, x)], ds, onid, m, k)
    BY <2>3, <2>4, OtherRound
  <2>6. CopyEitDescriptor(acc, d, onid) = [acc EXCEPT !.out = Append(@, x)]
    BY <1>3, <2>1 DEF CopyEitDescriptor
  <2> QED BY <1>1, <2>5, <2>6
<1>4. CASE Latin(onid) /\ d.tag = 78 /\ d.texts[1] # << >>
  <2>1. Copied(Extended(acc, ds[k]), ds, onid, m, k)
    BY <1>1, <1>4, MoveRound DEF HasText
  <2>2. CopyEitDescriptor(acc, d, onid) = Extended(acc, d)
    BY <1>4 DEF CopyEitDescriptor
  <2> QED BY <1>1, <2>1, <2>2
<1>5. CASE ~(Latin(onid) /\ d.tag = 77) /\ ~(Latin(onid) /\ d.tag = 78 /\ d.texts[1] # << >>)
  <2>1. Piece(d) = << >> \/ acc.overflow = << >>
    <3>1. CASE d.tag = 78 /\ d.texts[1] = << >>
      BY <1>1, <3>1, FittingTexts DEF Piece
    <3>2. CASE d.tag # 78
      BY <3>2 DEF Piece
    <3>3. CASE ~Latin(onid)
      BY <3>3 DEF Copied
    <3> QED BY <1>5, <3>1, <3>2, <3>3
  <2>2. Copied([acc EXCEPT !.out = Append(@, d)], ds, onid, m, k)
    BY <1>1, <1>2, <2>1, OtherRound
  <2>3. CopyEitDescriptor(acc, d, onid) = [acc EXCEPT !.out = Append(@, d)]
    BY <1>5 DEF CopyEitDescriptor
  <2> QED BY <1>1, <2>2, <2>3
<1> QED BY <1>3, <1>4, <1>5

-----------------------------------------------------------------------------
(* copy_eit_descriptors.                                                   *)

NoneCopied == [out |-> << >>, overflow |-> << >>, copies |-> {}]

IsCopy(f, ds, onid, n) ==
  f = [i \in 0..n |-> IF i = 0 THEN NoneCopied ELSE CopyEitDescriptor(f[i - 1], ds[i], onid)]

LEMMA CopyExists ==
  ASSUME NEW ds, NEW onid, NEW n \in Nat
  PROVE  \E f : IsCopy(f, ds, onid, n)
<1> DEFINE Good == {k \in 0..n : \E f : IsCopy(f, ds, onid, k)}
<1>1. 0 \in Good
  <2> DEFINE f == [i \in 0..0 |-> NoneCopied]
  <2>1. \A i \in 0..0 : i = 0
    OBVIOUS
  <2>2. IsCopy(f, ds, onid, 0)
    BY <2>1, Zenon DEF IsCopy
  <2>3. 0 \in 0..n
    OBVIOUS
  <2> QED BY <2>2, <2>3, Zenon
<1>2. ASSUME NEW k \in 1..n, k - 1 \in Good PROVE k \in Good
  <2>1. PICK g : IsCopy(g, ds, onid, k - 1)
    BY <1>2, Zenon
  <2> DEFINE f == [i \in 0..k |-> IF i = 0 THEN NoneCopied
                                         ELSE CopyEitDescriptor(g[i - 1], ds[i], onid)]
  <2>2. \A i \in 0..k - 1 : f[i] = g[i]
    <3>1. \A i \in 0..k - 1 : i \in 0..k
      OBVIOUS
    <3>2. \A i \in 0..k - 1 :
            g[i] = IF i = 0 THEN NoneCopied ELSE CopyEitDescriptor(g[i - 1], ds[i], onid)
      BY <2>1, Zenon DEF IsCopy
    <3> QED BY <3>1, <3>2, Zenon
  <2>3. \A i \in 0..k : i # 0 => f[i - 1] = g[i - 1]
    <3> HIDE DEF f
    <3> QED BY <2>2
  <2>4. IsCopy(f, ds, onid, k)
    BY <2>3, Zenon DEF IsCopy
  <2>5. k \in 0..n
    OBVIOUS
  <2> QED BY <2>4, <2>5, Zenon
<1>3. \A k \in 0..n : k \in Good
  <2> HIDE DEF Good
  <2> QED BY <1>1, <1>2, Rounds
<1>4. n \in 0..n
  OBVIOUS
<1> QED BY <1>3, <1>4, Zenon

\* CopyEitDescriptors copies one descriptor after the other.
LEMMA CopyLoop ==
  ASSUME NEW ds, Len(ds) \in Nat, NEW onid
  PROVE  \E f : /\ f[0] = NoneCopied /\ CopyEitDescriptors(ds, onid) = f[Len(ds)]
                /\ \A k \in 1..Len(ds) : f[k] = CopyEitDescriptor(f[k - 1], ds[k], onid)
<1> DEFINE n == Len(ds)
           f == CHOOSE g : IsCopy(g, ds, onid, n)
<1>1. CopyEitDescriptors(ds, onid) = f[n]
  BY Zenon DEF CopyEitDescriptors, IsCopy, NoneCopied
<1>2. IsCopy(f, ds, onid, n)
  BY CopyExists, Zenon
<1> HIDE DEF f
<1>3. \A i \in 0..n : f[i] = IF i = 0 THEN NoneCopied
                             ELSE CopyEitDescriptor(f[i - 1], ds[i], onid)
  BY <1>2, Zenon DEF IsCopy
<1>4. 0 \in 0..n /\ \A k \in 1..n : k \in 0..n /\ k # 0
  OBVIOUS
<1>5. f[0] = NoneCopied
  BY <1>3, <1>4, Zenon
<1>6. \A k \in 1..n : f[k] = CopyEitDescriptor(f[k - 1], ds[k], onid)
  BY <1>3, <1>4, Zenon
<1> QED BY <1>1, <1>5, <1>6, Zenon

\* Of a text that fits nothing is lost, and every length byte is true.
LEMMA CopiedEvent ==
  ASSUME NEW ds \in Seq(Descriptor), TextsFit(ds), NEW onid
  PROVE  LET e == CopyEitDescriptors(ds, onid) IN
         /\ e.copies \subseteq Nat /\ Len(e.overflow) \in Nat
         /\ Len(e.overflow) <= 5 * Cardinality(Tagged(ds, 78))
         /\ Len(e.overflow) <= ChunkSize
         /\ \A i \in DOMAIN ds : ds[i].tag = 78 \/ Size(ds[i]) + 6 <= 255 =>
              e.out[i].len = Size(e.out[i])
         /\ ExtendedText(e.out) \o e.overflow = ExtendedText(ds)
<1>1. PICK n \in Nat : n = Len(ds) /\ DOMAIN ds = 1..n
  BY LenProperties
<1>2. ds \in Seq(OneText)
  <2>1. ds = [i \in 1..n |-> ds[i]]
    BY <1>1, PlacesOfSeq
  <2>2. \A i \in 1..n : ds[i] \in OneText
    BY <1>1, FittingTexts
  <2> QED BY <2>1, <2>2, MapSeq
<1>3. /\ Pieces(ds) \in Seq(Seq(Byte)) /\ Len(Pieces(ds)) = n
      /\ \A i \in 1..n : Pieces(ds)[i] = Piece(ds[i])
      /\ ExtendedText(ds) = FlattenSeq(Pieces(ds))
  BY <1>1, <1>2, PiecesSeq
<1>4. PICK m : Appends(m, Pieces(ds)) /\ FlattenSeq(Pieces(ds)) = m[Len(Pieces(ds))]
  BY <1>3, FlatLoop, Zenon
<1>5. m[0] = << >> /\ ExtendedText(ds) = m[n] /\ \A k \in 1..n : m[k] = m[k - 1] \o Piece(ds[k])
  BY <1>3, <1>4 DEF Appends
<1>6. PICK f : /\ f[0] = NoneCopied /\ CopyEitDescriptors(ds, onid) = f[n]
               /\ \A k \in 1..n : f[k] = CopyEitDescriptor(f[k - 1], ds[k], onid)
  <2>1. Len(ds) \in Nat
    BY <1>1
  <2>2. \E f : /\ f[0] = NoneCopied /\ CopyEitDescriptors(ds, onid) = f[Len(ds)]
               /\ \A k \in 1..Len(ds) : f[k] = CopyEitDescriptor(f[k - 1], ds[k], onid)
    BY <2>1, CopyLoop, Zenon
  <2> QED BY <1>1, <2>2
<1> DEFINE Good == {k \in 0..n : Copied(f[k], ds, onid, m, k)}
<1>7. 0 \in Good
  <2>1. PICK a : a = NoneCopied
    OBVIOUS
  <2>2. a.out = << >> /\ a.overflow = << >> /\ a.copies = {}
        /\ a = [out |-> a.out, overflow |-> a.overflow, copies |-> a.copies]
    BY <2>1 DEF NoneCopied
  <2>3. << >> \in Seq(OneText) /\ << >> \in Seq(Byte) /\ Len(<< >>) = 0
    BY EmptySeq
  <2>4. Count(ds, 0) = 0
    <3>1. Tagged(ds, 78) \cap 1..0 = {}
      OBVIOUS
    <3> QED BY <3>1, FS_EmptySet DEF Count
  <2>5. ExtendedText(<< >>) = << >>
    <3>1. Pieces(<< >>) = << >>
      BY DEF Pieces
    <3>2. ExtendedText(<< >>) = FlattenSeq(<< >>)
      BY <2>3, <3>1, PiecesSeq
    <3>3. << >> \in Seq(Seq(Byte))
      BY EmptySeq
    <3>4. FlattenSeq(<< >>) = << >>
      BY <2>3, <3>3, FlatLoop DEF Appends
    <3> QED BY <3>2, <3>4
  <2>6. << >> \o << >> = << >>
    BY <2>3, ConcatEmptySeq
  <2>7. Copied(a, ds, onid, m, 0)
    <3>1. Len(a.overflow) <= 5 * Count(ds, 0)
      BY <2>2, <2>3, <2>4
    <3>2. ExtendedText(a.out) \o a.overflow = m[0]
      BY <1>5, <2>2, <2>5, <2>6
    <3> QED BY <2>2, <2>3, <3>1, <3>2 DEF Copied
  <2> QED BY <1>6, <2>1, <2>7
<1>8. ASSUME NEW k \in 1..n, k - 1 \in Good PROVE k \in Good
  <2>1. Copied(f[k - 1], ds, onid, m, k - 1) /\ k \in 0..n
    BY <1>8
  <2>2. Copied(CopyEitDescriptor(f[k - 1], ds[k], onid), ds, onid, m, k)
    <3>1. Adds(m, k, Piece(ds[k]))
      BY <1>5 DEF Adds
    <3> QED BY <1>1, <2>1, <3>1, CopyRound
  <2> QED BY <1>6, <2>1, <2>2
<1>9. \A k \in 0..n : k \in Good
  <2> HIDE DEF Good
  <2> QED BY <1>7, <1>8, Rounds, Zenon
<1>10. PICK e : e = CopyEitDescriptors(ds, onid) /\ Copied(e, ds, onid, m, n)
  <2>1. n \in 0..n
    OBVIOUS
  <2> QED BY <1>6, <1>9, <2>1, Zenon
<1>11. e.copies \subseteq Nat /\ e.overflow \in Seq(Byte) /\ Len(e.overflow) <= 5 * Count(ds, n)
       /\ ExtendedText(e.out) \o e.overflow = ExtendedText(ds)
       /\ \A i \in 1..n : ds[i].tag = 78 \/ Size(ds[i]) + 6 <= 255 =>
              e.out[i].len = Size(e.out[i])
  BY <1>5, <1>10, Zenon DEF Copied
<1>12. Count(ds, n) = Cardinality(Tagged(ds, 78))
  <2>1. Tagged(ds, 78) \cap 1..n = Tagged(ds, 78)
    BY <1>1 DEF Tagged
  <2> QED BY <2>1 DEF Count
<1>13. PICK c : c = Cardinality(Tagged(ds, 78)) /\ 5 * c <= ChunkSize
  BY Zenon DEF TextsFit
<1>14. c \in Nat
  <2>1. 1 \in Int /\ n \in Int
    OBVIOUS
  <2>2. IsFiniteSet(1..n)
    BY <2>1, FS_Interval, Zenon
  <2>3. Tagged(ds, 78) \in SUBSET (1..n)
    BY <1>1 DEF Tagged
  <2> QED BY <1>13, <2>2, <2>3, FS_Subset, FS_CardinalityType
<1>15. Len(e.overflow) \in Nat /\ Len(e.overflow) <= 5 * c /\ Len(e.overflow) <= ChunkSize
  BY <1>11, <1>12, <1>13, <1>14, LenProperties DEF ChunkSize
<1> QED BY <1>1, <1>10, <1>11, <1>13, <1>15

-----------------------------------------------------------------------------
(* The names of the services.                                              *)

\* What create_sdt takes of a service's section, and makes of an entry.
Own(sv) ==
  Chosen(sv.sdt.entries,
         {i \in DOMAIN sv.sdt.entries : sv.sdt.entries[i].service_id = sv.service_id})
NewEntry(sv, e) ==
  [service_id |-> sv.new_service_id, free_CA_mode |-> 0,
   descs |-> CopySdtDescriptors(e.descs, sv.onid)]

SdtEntry ==
  [service_id : Nat, service_type : Nat, fits : BOOLEAN, descs : Seq(Descriptor)]

LEMMA OwnEntries ==
  ASSUME NEW sv, sv.sdt \in SdtSection
  PROVE  /\ Own(sv) \in Seq(SdtEntry)
         /\ \A i \in DOMAIN Own(sv) : \E k \in DOMAIN sv.sdt.entries :
              Own(sv)[i] = sv.sdt.entries[k] /\ sv.sdt.entries[k].service_id = sv.service_id
         /\ SdtEntries(sv) = [i \in DOMAIN Own(sv) |-> NewEntry(sv, Own(sv)[i])]
<1> PICK es : es = sv.sdt.entries
  OBVIOUS
<1> PICK keep : keep = {i \in DOMAIN es : es[i].service_id = sv.service_id}
  OBVIOUS
<1>1. es \in Seq(SdtEntry)
  BY DEF SdtSection, SdtEntry
<1>2. Own(sv) = Chosen(es, keep)
  BY DEF Own
<1>3. /\ Chosen(es, keep) \in Seq(SdtEntry)
      /\ Range(Chosen(es, keep)) = {es[i] : i \in keep \cap DOMAIN es}
  <2> HIDE DEF SdtEntry
  <2> QED BY <1>1, ChosenElements
<1>4. ASSUME NEW i \in DOMAIN Own(sv)
      PROVE  \E k \in DOMAIN es : Own(sv)[i] = es[k] /\ es[k].service_id = sv.service_id
  <2>1. Own(sv)[i] \in Range(Own(sv))
    BY DEF Range
  <2>2. Own(sv)[i] \in {es[k] : k \in keep \cap DOMAIN es}
    BY <1>2, <1>3, <2>1, Zenon
  <2> QED BY <2>2
<1>5. SdtEntries(sv) = [i \in DOMAIN Own(sv) |-> NewEntry(sv, Own(sv)[i])]
  BY Zenon DEF SdtEntries, Own, NewEntry
<1> QED BY <1>2, <1>3, <1>4, <1>5, Zenon

\* Every entry of the new SDT is one of a service's.
LEMMA SdtOfServices ==
  ASSUME NEW services, IsServices(services),
         \A s \in DOMAIN services : services[s].sdt \in SdtSection
  PROVE  \A i \in DOMAIN CreateSdt(services).entries : \E s \in DOMAIN services :
           CreateSdt(services).entries[i] \in Range(SdtEntries(services[s]))
<1> PICK ss : ss = [s \in DOMAIN services |-> SdtEntries(services[s])]
  OBVIOUS
<1> DEFINE T == [service_id : {services[s].new_service_id : s \in DOMAIN services},
                 free_CA_mode : {0}, descs : Seq(Descriptor)]
<1>1. ss \in Seq(Seq(T)) /\ DOMAIN services = 1..Len(ss)
      /\ \A s \in 1..Len(ss) : ss[s] = SdtEntries(services[s])
  BY EntriesOfServices, Zenon
<1>2. PICK es : es = CreateSdt(services).entries
  OBVIOUS
<1>3. es = FlattenSeq(ss)
  BY <1>2 DEF CreateSdt
<1>4. Range(es) = UNION {Range(ss[s]) : s \in 1..Len(ss)}
  <2> HIDE DEF T
  <2> QED BY <1>1, <1>3, FlatRange, ZenonT(30)
<1>5. \A i \in DOMAIN es : es[i] \in Range(es)
  BY DEF Range
<1>6. \A i \in DOMAIN es : \E s \in 1..Len(ss) : es[i] \in Range(ss[s])
  BY <1>4, <1>5
<1> QED BY <1>1, <1>2, <1>6

\* A service that its SDT section names is in the new SDT.
LEMMA SdtNamesHeld ==
  ASSUME NEW services, IsServices(services),
         \A s \in DOMAIN services : services[s].sdt \in SdtSection,
         NEW s \in DOMAIN services, NEW k \in DOMAIN services[s].sdt.entries,
         services[s].sdt.entries[k].service_id = services[s].service_id
  PROVE  \E i \in DOMAIN CreateSdt(services).entries :
           CreateSdt(services).entries[i].service_id = services[s].new_service_id
<1> PICK sv : sv = services[s]
  OBVIOUS
<1> PICK es : es = sv.sdt.entries
  OBVIOUS
<1> PICK keep : keep = {i \in DOMAIN es : es[i].service_id = sv.service_id}
  OBVIOUS
<1>1. es \in Seq(SdtEntry) /\ k \in keep \cap DOMAIN es
  BY DEF SdtSection, SdtEntry
<1>2. Own(sv) = Chosen(es, keep)
  BY DEF Own
<1>3. Range(Own(sv)) = {es[i] : i \in keep \cap DOMAIN es}
  <2> HIDE DEF SdtEntry
  <2> QED BY <1>1, <1>2, ChosenElements
<1>4. PICK n \in DOMAIN Own(sv) : Own(sv)[n] = es[k]
  <2>1. es[k] \in {es[i] : i \in keep \cap DOMAIN es}
    BY <1>1
  <2>2. es[k] \in Range(Own(sv))
    BY <1>3, <2>1, Zenon
  <2> QED BY <2>2, Zenon DEF Range
<1>5. SdtEntries(sv) = [i \in DOMAIN Own(sv) |-> NewEntry(sv, Own(sv)[i])]
  <2>1. sv.sdt \in SdtSection
    OBVIOUS
  <2> QED BY <2>1, OwnEntries, Zenon
<1>6. n \in DOMAIN SdtEntries(sv) /\ SdtEntries(sv)[n].service_id = sv.new_service_id
  BY <1>4, <1>5 DEF NewEntry
<1> DEFINE T == [service_id : {services[t].new_service_id : t \in DOMAIN services},
                 free_CA_mode : {0}, descs : Seq(Descriptor)]
<1>7. PICK ss : ss = [t \in DOMAIN services |-> SdtEntries(services[t])]
  OBVIOUS
<1>8. ss \in Seq(Seq(T)) /\ DOMAIN services = 1..Len(ss)
      /\ \A t \in 1..Len(ss) : ss[t] = SdtEntries(services[t])
  BY <1>7, EntriesOfServices, Zenon
<1>9. PICK all : all = CreateSdt(services).entries
  OBVIOUS
<1>10. all = FlattenSeq(ss)
  BY <1>7, <1>9 DEF CreateSdt
<1>11. Range(all) = UNION {Range(ss[t]) : t \in 1..Len(ss)}
  <2> HIDE DEF T
  <2> QED BY <1>8, <1>10, FlatRange, ZenonT(30)
<1>12. SdtEntries(sv)[n] \in Range(ss[s]) /\ s \in 1..Len(ss)
  <2>1. s \in 1..Len(ss) /\ ss[s] = SdtEntries(sv)
    BY <1>8
  <2> QED BY <1>6, <2>1 DEF Range
<1>13. SdtEntries(sv)[n] \in Range(all)
  BY <1>11, <1>12
<1>14. PICK i \in DOMAIN all : all[i] = SdtEntries(sv)[n]
  BY <1>13 DEF Range
<1> QED BY <1>6, <1>9, <1>14

\* The length bytes of descriptors are true; those of the names that are copied
\* are.
AreTrue(ds) == \A j \in DOMAIN ds : ds[j].len = Size(ds[j])

LEMMA CopiedTrue ==
  ASSUME NEW ds \in Seq(Descriptor), NEW onid, NameFits(ds, onid)
  PROVE  AreTrue(CopySdtDescriptors(ds, onid))
<1> PICK kept : kept = Chosen(ds, Tagged(ds, 72))
  OBVIOUS
<1>1. CopySdtDescriptors(ds, onid) =
        IF Latin(onid) THEN [i \in DOMAIN kept |-> Recoded(kept[i])] ELSE kept
  BY Zenon DEF CopySdtDescriptors
<1>2. \A i \in DOMAIN kept : \E k \in Tagged(ds, 72) : k \in DOMAIN ds /\ kept[i] = ds[k]
  <2>1. Range(kept) = {ds[k] : k \in Tagged(ds, 72) \cap DOMAIN ds}
    BY ChosenElements
  <2>2. \A i \in DOMAIN kept : kept[i] \in Range(kept)
    BY DEF Range
  <2> QED BY <2>1, <2>2
<1>3. ASSUME NEW i \in DOMAIN kept
      PROVE  /\ kept[i].len = Size(kept[i])
             /\ Latin(onid) => Recoded(kept[i]).len = Size(Recoded(kept[i]))
  <2>1. PICK k \in Tagged(ds, 72) : k \in DOMAIN ds /\ kept[i] = ds[k]
    BY <1>2
  <2>2. ds[k] \in Descriptor
    BY <2>1, LenProperties
  <2>3. /\ ds[k].len = Size(ds[k])
        /\ Latin(onid) => Len(ds[k].texts) = 2 /\ Size(ds[k]) + 6 <= 255
    BY Zenon DEF NameFits
  <2>4. Latin(onid) => Recoded(ds[k]).len = Size(Recoded(ds[k]))
    BY <2>2, <2>3, RecodedTrue, Zenon
  <2> QED BY <2>1, <2>3, <2>4, Zenon
<1>4. CASE Latin(onid)
  <2>1. CopySdtDescriptors(ds, onid) = [i \in DOMAIN kept |-> Recoded(kept[i])]
    BY <1>1, <1>4, Zenon
  <2> QED BY <1>3, <1>4, <2>1, Zenon DEF AreTrue
<1>5. CASE ~Latin(onid)
  <2>1. CopySdtDescriptors(ds, onid) = kept
    BY <1>1, <1>5, Zenon
  <2> QED BY <1>3, <2>1, Zenon DEF AreTrue
<1> QED BY <1>4, <1>5

\* Those of a service's names, if they fit.
NamesHeld(sv) ==
  \A k \in DOMAIN sv.sdt.entries :
    sv.sdt.entries[k].service_id = sv.service_id => NameFits(sv.sdt.entries[k].descs, sv.onid)

LEMMA SdtTrue ==
  ASSUME NEW services, IsServices(services),
         \A s \in DOMAIN services : services[s].sdt \in SdtSection /\ NamesHeld(services[s])
  PROVE  LET es == CreateSdt(services).entries IN
         \A i \in DOMAIN es : \A j \in DOMAIN es[i].descs :
           es[i].descs[j].len = Size(es[i].descs[j])
<1> PICK es : es = CreateSdt(services).entries
  OBVIOUS
<1>1. ASSUME NEW i \in DOMAIN es, NEW j \in DOMAIN es[i].descs
      PROVE  es[i].descs[j].len = Size(es[i].descs[j])
  <2>1. PICK s \in DOMAIN services : es[i] \in Range(SdtEntries(services[s]))
    BY SdtOfServices
  <2> PICK sv : sv = services[s]
    OBVIOUS
  <2>2. sv.sdt \in SdtSection /\ NamesHeld(sv)
    OBVIOUS
  <2>3. /\ \A n \in DOMAIN Own(sv) : \E k \in DOMAIN sv.sdt.entries :
              Own(sv)[n] = sv.sdt.entries[k] /\ sv.sdt.entries[k].service_id = sv.service_id
        /\ SdtEntries(sv) = [n \in DOMAIN Own(sv) |-> NewEntry(sv, Own(sv)[n])]
    BY <2>2, OwnEntries, Zenon
  <2>4. PICK n \in DOMAIN Own(sv) : es[i] = NewEntry(sv, Own(sv)[n])
    BY <2>1, <2>3 DEF Range
  <2>5. PICK k \in DOMAIN sv.sdt.entries :
          Own(sv)[n] = sv.sdt.entries[k] /\ sv.sdt.entries[k].service_id = sv.service_id
    BY <2>3
  <2> PICK ds : ds = sv.sdt.entries[k].descs
    OBVIOUS
  <2>6. es[i].descs = CopySdtDescriptors(ds, sv.onid)
    BY <2>4, <2>5 DEF NewEntry
  <2>7. ds \in Seq(Descriptor)
    <3> PICK entries : entries = sv.sdt.entries
      OBVIOUS
    <3>1. entries \in Seq(SdtEntry) /\ k \in DOMAIN entries
      BY <2>2, <2>5 DEF SdtSection, SdtEntry
    <3>2. entries[k] \in SdtEntry
      <4> HIDE DEF SdtEntry
      <4> QED BY <3>1, LenProperties
    <3>3. ds = entries[k].descs
      OBVIOUS
    <3> QED BY <3>2, <3>3 DEF SdtEntry
  <2>8. NameFits(ds, sv.onid)
    BY <2>2, <2>5 DEF NamesHeld
  <2> PICK copied : copied = CopySdtDescriptors(ds, sv.onid)
    OBVIOUS
  <2>9. AreTrue(copied)
    <3> PICK onid : onid = sv.onid
      OBVIOUS
    <3>1. NameFits(ds, onid)
      BY <2>8
    <3>2. AreTrue(CopySdtDescriptors(ds, onid))
      BY <2>7, <3>1, CopiedTrue
    <3> QED BY <3>2
  <2>10. es[i].descs = copied
    BY <2>6
  <2> QED BY <2>9, <2>10, Zenon DEF AreTrue
<1> QED BY <1>1, Zenon

-----------------------------------------------------------------------------
(* Concatenations of which most parts are empty, or of single elements.    *)

LEMMA FlatEmpty ==
  ASSUME NEW S, NEW ss \in Seq(Seq(S)), \A i \in 1..Len(ss) : ss[i] = << >>
  PROVE  FlattenSeq(ss) = << >>
<1>1. PICK n \in Nat : n = Len(ss)
  BY LenProperties
<1>2. PICK m : Appends(m, ss) /\ FlattenSeq(ss) = m[n]
  BY <1>1, FlatLoop, Zenon
<1> DEFINE Good == {k \in 0..n : m[k] = << >>}
<1>3. 0 \in Good
  BY <1>2 DEF Appends
<1>4. \A k \in 1..n : k - 1 \in Good => k \in Good
  <2> TAKE k \in 1..n
  <2> HAVE k - 1 \in Good
  <2>1. m[k] = << >> \o << >>
    BY <1>1, <1>2 DEF Appends
  <2>2. << >> \o << >> = << >>
    BY EmptySeq, ConcatEmptySeq
  <2> QED BY <2>1, <2>2
<1>5. \A k \in 0..n : k \in Good
  <2> HIDE DEF Good
  <2> QED BY <1>3, <1>4, Rounds, Zenon
<1>6. n \in 0..n
  OBVIOUS
<1> QED BY <1>2, <1>5, <1>6, Zenon

LEMMA FlatLone ==
  ASSUME NEW S, NEW ss \in Seq(Seq(S)), NEW s \in 1..Len(ss),
         \A i \in 1..Len(ss) : i # s => ss[i] = << >>
  PROVE  FlattenSeq(ss) = ss[s]
<1>1. PICK n \in Nat : n = Len(ss) /\ s \in 1..n
  BY LenProperties
<1>2. PICK x \in Seq(S) : x = ss[s]
  BY LenProperties
<1>3. PICK m : Appends(m, ss) /\ FlattenSeq(ss) = m[n]
  BY <1>1, FlatLoop, Zenon
<1> DEFINE Good == {k \in 0..n : m[k] = IF k < s THEN << >> ELSE x}
<1>4. 0 \in Good
  BY <1>1, <1>3 DEF Appends
<1>5. \A k \in 1..n : k - 1 \in Good => k \in Good
  <2> TAKE k \in 1..n
  <2> HAVE k - 1 \in Good
  <2>1. m[k] = m[k - 1] \o ss[k] /\ k \in 0..n
    <3>1. k \in 0..n
      OBVIOUS
    <3>2. m[k] = m[k - 1] \o ss[k]
      BY <1>1, <1>3, Zenon DEF Appends
    <3> QED BY <3>1, <3>2
  <2>2. << >> \o << >> = << >> /\ << >> \o x = x /\ x \o << >> = x
    BY EmptySeq, ConcatEmptySeq, Zenon
  <2>3. CASE k < s
    <3>1. m[k - 1] = << >> /\ ss[k] = << >>
      BY <1>1, <2>3, SMTT(30)
    <3> QED BY <2>1, <2>2, <2>3, <3>1
  <2>4. CASE k = s
    <3>1. m[k - 1] = << >> /\ ss[k] = x
      BY <1>1, <1>2, <2>4
    <3> QED BY <2>1, <2>2, <2>4, <3>1
  <2>5. CASE k > s
    <3>1. m[k - 1] = x /\ ss[k] = << >>
      BY <1>1, <2>5, SMTT(30)
    <3> QED BY <2>1, <2>2, <2>5, <3>1, SMTT(30)
  <2> QED BY <1>1, <2>3, <2>4, <2>5
<1>6. \A k \in 0..n : k \in Good
  <2> HIDE DEF Good
  <2> QED BY <1>4, <1>5, Rounds, Zenon
<1>7. n \in 0..n /\ ~(n < s)
  BY <1>1
<1> QED BY <1>2, <1>3, <1>6, <1>7, Zenon

LEMMA FlatSingles ==
  ASSUME NEW S, NEW s \in Seq(S), NEW ss \in Seq(Seq(S)), Len(ss) = Len(s),
         \A i \in 1..Len(s) : ss[i] = <<s[i]>>
  PROVE  FlattenSeq(ss) = s
<1>1. PICK n \in Nat : n = Len(s) /\ n = Len(ss) /\ \A i \in 1..n : s[i] \in S
  BY LenProperties
<1>2. PICK m : /\ Appends(m, ss) /\ FlattenSeq(ss) = m[n]
               /\ \A k \in 0..n : m[k] \in Seq(S)
  BY <1>1, FlatLoop, Zenon
<1> DEFINE Good == {k \in 0..n : Len(m[k]) = k /\ \A i \in 1..k : m[k][i] = s[i]}
<1>3. 0 \in Good
  BY <1>2 DEF Appends
<1>4. \A k \in 1..n : k - 1 \in Good => k \in Good
  <2> TAKE k \in 1..n
  <2> HAVE k - 1 \in Good
  <2>1. PICK a \in Seq(S) : a = m[k - 1]
    BY <1>2
  <2>2. m[k] = a \o <<s[k]>> /\ s[k] \in S
    BY <1>1, <1>2, <2>1 DEF Appends
  <2>3. Len(a) = k - 1 /\ \A i \in 1..k - 1 : a[i] = s[i]
    BY <2>1
  <2>4. a \o <<s[k]>> = Append(a, s[k])
    BY <2>2, AppendIsConcat
  <2>5. /\ Len(Append(a, s[k])) = Len(a) + 1
        /\ \A i \in 1..Len(a) : Append(a, s[k])[i] = a[i]
        /\ Append(a, s[k])[Len(a) + 1] = s[k]
    BY <2>2, AppendProperties
  <2>6. PICK b : b = Append(a, s[k])
    OBVIOUS
  <2>7. Len(b) = k /\ b[k] = s[k] /\ \A i \in 1..k - 1 : b[i] = s[i]
    BY <2>3, <2>5, <2>6
  <2>8. \A i \in 1..k : i = k \/ i \in 1..k - 1
    OBVIOUS
  <2>9. m[k] = b /\ k \in 0..n
    BY <2>2, <2>4, <2>6
  <2> QED BY <2>7, <2>8, <2>9
<1>5. \A k \in 0..n : k \in Good
  <2> HIDE DEF Good
  <2> QED BY <1>3, <1>4, Rounds, Zenon
<1>6. n \in 0..n
  OBVIOUS
<1>7. m[n] \in Seq(S) /\ Len(m[n]) = n /\ \A i \in 1..n : m[n][i] = s[i]
  BY <1>2, <1>5, <1>6, Zenon
<1>8. m[n] = s
  BY <1>1, <1>7, SeqEqual
<1> QED BY <1>2, <1>8

\* A selection of all is the list.
LEMMA ChosenAll ==
  ASSUME NEW S, NEW s \in Seq(S), NEW keep, DOMAIN s \subseteq keep
  PROVE  Chosen(s, keep) = s
<1>1. PICK n \in Nat : n = Len(s) /\ DOMAIN s = 1..n /\ \A i \in 1..n : s[i] \in S
  BY LenProperties
<1> DEFINE T == Seq(S)
<1>2. PICK ss : ss = [i \in DOMAIN s |-> IF i \in keep THEN <<s[i]>> ELSE << >>]
  OBVIOUS
<1>3. ss = [i \in 1..n |-> ss[i]] /\ \A i \in 1..n : ss[i] = <<s[i]>> /\ ss[i] \in T
  BY <1>1, <1>2
<1>4. ss \in Seq(T) /\ Len(ss) = n
  <2> HIDE DEF T
  <2> QED BY <1>3, MapSeq
<1>5. Chosen(s, keep) = FlattenSeq(ss)
  BY <1>2, Zenon DEF Chosen
<1> QED BY <1>1, <1>3, <1>4, <1>5, FlatSingles

-----------------------------------------------------------------------------
(* Names in the entries of a table.                                        *)

\* A descriptor's name or names; those of an entry, and of it under an id.
Words == Seq(Seq(Byte))
Word(d) == [k \in DOMAIN d.texts |-> Plain(d.texts[k])]
EntryNames(e) ==
  LET own == Chosen(e.descs, Tagged(e.descs, 72)) IN [j \in DOMAIN own |-> Word(own[j])]
Said(e, id) == IF e.service_id # id THEN << >> ELSE EntryNames(e)
AllSaid(es, id) == [i \in DOMAIN es |-> Said(es[i], id)]

\* Entries, whatever else is in them.
AreEntries(E) == \A e \in E : e.descs \in Seq(Descriptor)

LEMMA WordBytes ==
  ASSUME NEW d \in Descriptor
  PROVE  Word(d) \in Words
<1> PICK ts : ts = d.texts
  OBVIOUS
<1> DEFINE T == Seq(Byte)
<1>1. ts \in Seq(T)
  BY DEF Descriptor
<1>2. PICK n \in Nat : n = Len(ts) /\ DOMAIN ts = 1..n /\ \A k \in 1..n : ts[k] \in T
  <2> HIDE DEF T
  <2> QED BY <1>1, LenProperties
<1>3. \A k \in 1..n : Plain(ts[k]) \in T
  BY <1>2, PlainBytes
<1> HIDE DEF T
<1> PICK w : w = Word(d)
  OBVIOUS
<1>4. w = [k \in 1..n |-> Plain(ts[k])]
  BY <1>2 DEF Word
<1>5. w = [k \in 1..n |-> w[k]] /\ \A k \in 1..n : w[k] \in T
  BY <1>3, <1>4
<1> QED BY <1>5, MapSeq DEF Words, T

LEMMA EntryWords ==
  ASSUME NEW e, e.descs \in Seq(Descriptor)
  PROVE  EntryNames(e) \in Seq(Words)
<1> PICK own : own = Chosen(e.descs, Tagged(e.descs, 72))
  OBVIOUS
<1>1. own \in Seq(Descriptor)
  BY ChosenElements
<1>2. PICK n \in Nat : DOMAIN own = 1..n /\ \A j \in 1..n : own[j] \in Descriptor
  BY <1>1, LenProperties
<1>3. \A j \in 1..n : Word(own[j]) \in Words
  BY <1>2, WordBytes
<1> PICK ws : ws = EntryNames(e)
  OBVIOUS
<1>4. ws = [j \in 1..n |-> Word(own[j])]
  BY <1>2, Zenon DEF EntryNames
<1>5. ws = [j \in 1..n |-> ws[j]] /\ \A j \in 1..n : ws[j] \in Words
  BY <1>3, <1>4
<1> QED BY <1>5, MapSeq

LEMMA SaidSeq ==
  ASSUME NEW E, AreEntries(E), NEW es \in Seq(E), NEW id
  PROVE  /\ AllSaid(es, id) \in Seq(Seq(Words)) /\ Len(AllSaid(es, id)) = Len(es)
         /\ \A i \in 1..Len(es) : AllSaid(es, id)[i] = Said(es[i], id)
         /\ Names(es, id) = FlattenSeq(AllSaid(es, id))
<1>1. PICK n \in Nat : n = Len(es) /\ DOMAIN es = 1..n /\ \A i \in 1..n : es[i] \in E
  BY LenProperties
<1> DEFINE T == Seq(Words)
<1>2. \A i \in 1..n : Said(es[i], id) \in T
  <2> TAKE i \in 1..n
  <2>1. EntryNames(es[i]) \in T
    BY <1>1, EntryWords DEF AreEntries
  <2>2. << >> \in T
    BY EmptySeq
  <2> QED BY <2>1, <2>2, Zenon DEF Said
<1> HIDE DEF T
<1> PICK ss : ss = AllSaid(es, id)
  OBVIOUS
<1>3. ss = [i \in 1..n |-> Said(es[i], id)]
  BY <1>1, Zenon DEF AllSaid
<1>4. ss = [i \in 1..n |-> ss[i]] /\ \A i \in 1..n : ss[i] = Said(es[i], id) /\ ss[i] \in T
  BY <1>2, <1>3
<1>5. ss \in Seq(T) /\ Len(ss) = n
  BY <1>4, MapSeq
<1>6. Names(es, id) = FlattenSeq(ss)
  BY Zenon DEF Names, AllSaid, Said, EntryNames, Word
<1> QED BY <1>1, <1>4, <1>5, <1>6 DEF T

LEMMA NamesTyped ==
  ASSUME NEW E, AreEntries(E), NEW es \in Seq(E), NEW id
  PROVE  Names(es, id) \in Seq(Words)
BY SaidSeq, FlatSeq

LEMMA NamesOfNone ==
  ASSUME NEW id
  PROVE  Names(<< >>, id) = << >>
<1>1. AreEntries({}) /\ << >> \in Seq({}) /\ Len(<< >>) = 0
  BY EmptySeq DEF AreEntries
<1>2. PICK ss : ss = AllSaid(<< >>, id)
  OBVIOUS
<1>3. ss \in Seq(Seq(Words)) /\ Len(ss) = 0 /\ Names(<< >>, id) = FlattenSeq(ss)
  BY <1>1, <1>2, SaidSeq
<1>4. \A i \in 1..Len(ss) : ss[i] = << >>
  BY <1>3
<1>5. FlattenSeq(ss) = << >>
  BY <1>3, <1>4, FlatEmpty
<1> QED BY <1>3, <1>5

\* The names of one service's entries among others: none.
LEMMA NamesOfOthers ==
  ASSUME NEW E, AreEntries(E), NEW es \in Seq(E), NEW id,
         \A i \in 1..Len(es) : es[i].service_id # id
  PROVE  Names(es, id) = << >>
<1>1. PICK ss : ss = AllSaid(es, id)
  OBVIOUS
<1>2. /\ ss \in Seq(Seq(Words)) /\ Len(ss) = Len(es) /\ Names(es, id) = FlattenSeq(ss)
      /\ \A i \in 1..Len(es) : ss[i] = Said(es[i], id)
  BY <1>1, SaidSeq
<1>3. \A i \in 1..Len(ss) : ss[i] = << >>
  BY <1>2 DEF Said
<1> QED BY <1>2, <1>3, FlatEmpty

LEMMA NamesOfOne ==
  ASSUME NEW E, AreEntries(E), NEW e \in E, NEW id
  PROVE  Names(<<e>>, id) = Said(e, id)
<1> PICK es : es = <<e>>
  OBVIOUS
<1>1. es \in Seq(E) /\ Len(es) = 1 /\ es[1] = e
  OBVIOUS
<1>2. PICK ss : ss = AllSaid(es, id)
  OBVIOUS
<1>3. /\ ss \in Seq(Seq(Words)) /\ Len(ss) = 1 /\ Names(es, id) = FlattenSeq(ss)
      /\ \A i \in 1..1 : ss[i] = Said(es[i], id)
  BY <1>1, <1>2, SaidSeq
<1>4. \A i \in 1..Len(ss) : i # 1 => ss[i] = << >>
  BY <1>3
<1>5. 1 \in 1..Len(ss) /\ ss[1] = Said(e, id)
  BY <1>1, <1>3
<1>6. FlattenSeq(ss) = ss[1]
  BY <1>3, <1>4, <1>5, FlatLone
<1> QED BY <1>3, <1>5, <1>6

\* Names of a list and of one after it, and of any number of lists.
LEMMA NamesConcat ==
  ASSUME NEW E, AreEntries(E), NEW a \in Seq(E), NEW b \in Seq(E), NEW id
  PROVE  Names(a \o b, id) = Names(a, id) \o Names(b, id)
<1> PICK ab : ab = a \o b
  OBVIOUS
<1>1. /\ ab \in Seq(E) /\ Len(ab) = Len(a) + Len(b) /\ Len(a) \in Nat /\ Len(b) \in Nat
      /\ \A i \in 1..Len(a) + Len(b) : ab[i] = IF i <= Len(a) THEN a[i] ELSE b[i - Len(a)]
  BY ConcatProperties, LenProperties
<1>2. PICK sa : sa = AllSaid(a, id)
  OBVIOUS
<1>3. PICK sb : sb = AllSaid(b, id)
  OBVIOUS
<1>4. PICK sab : sab = AllSaid(ab, id)
  OBVIOUS
<1>5. /\ sa \in Seq(Seq(Words)) /\ Len(sa) = Len(a) /\ Names(a, id) = FlattenSeq(sa)
      /\ \A i \in 1..Len(a) : sa[i] = Said(a[i], id)
  BY <1>2, SaidSeq
<1>6. /\ sb \in Seq(Seq(Words)) /\ Len(sb) = Len(b) /\ Names(b, id) = FlattenSeq(sb)
      /\ \A i \in 1..Len(b) : sb[i] = Said(b[i], id)
  BY <1>3, SaidSeq
<1>7. /\ sab \in Seq(Seq(Words)) /\ Len(sab) = Len(a) + Len(b)
      /\ Names(ab, id) = FlattenSeq(sab)
      /\ \A i \in 1..Len(a) + Len(b) : sab[i] = Said(ab[i], id)
  BY <1>1, <1>4, SaidSeq
<1>8. sab = sa \o sb
  <2> DEFINE T == Seq(Words)
  <2> PICK y : y = sa \o sb
    OBVIOUS
  <2>1. sa \in Seq(T) /\ sb \in Seq(T) /\ sab \in Seq(T)
    BY <1>5, <1>6, <1>7
  <2> HIDE DEF T
  <2>2. /\ y \in Seq(T) /\ Len(y) = Len(sa) + Len(sb)
        /\ \A i \in 1..Len(sa) + Len(sb) : y[i] = IF i <= Len(sa) THEN sa[i] ELSE sb[i - Len(sa)]
    BY <2>1, ConcatProperties
  <2>3. PICK n \in Nat, k \in Nat : n = Len(a) /\ k = Len(b)
    BY <1>1
  <2>4. ASSUME NEW i \in 1..n + k PROVE sab[i] = y[i]
    <3>1. CASE i <= n
      <4>1. i \in 1..n
        BY <3>1
      <4> QED BY <1>1, <1>5, <1>6, <1>7, <2>2, <2>3, <3>1, <4>1
    <3>2. CASE ~(i <= n)
      <4>1. i - n \in 1..k
        BY <3>2
      <4>2. ab[i] = b[i - n]
        BY <1>1, <2>3, <3>2
      <4>3. y[i] = sb[i - n]
        BY <1>5, <1>6, <2>2, <2>3, <3>2
      <4> QED BY <1>6, <1>7, <2>3, <4>1, <4>2, <4>3
    <3> QED BY <3>1, <3>2
  <2> QED BY <1>5, <1>6, <1>7, <2>1, <2>2, <2>3, <2>4, SeqEqual
<1>9. FlattenSeq(sa \o sb) = FlattenSeq(sa) \o FlattenSeq(sb)
  BY <1>5, <1>6, FlatConcat
<1> QED BY <1>5, <1>6, <1>7, <1>8, <1>9, Zenon

LEMMA NamesFlat ==
  ASSUME NEW E, AreEntries(E), NEW ss \in Seq(Seq(E)), NEW id,
         NEW ns \in Seq(Seq(Words)), Len(ns) = Len(ss),
         \A i \in 1..Len(ss) : ns[i] = Names(ss[i], id)
  PROVE  Names(FlattenSeq(ss), id) = FlattenSeq(ns)
<1> DEFINE T == Seq(E)
<1>1. PICK n \in Nat : n = Len(ss) /\ n = Len(ns) /\ \A i \in 1..n : ss[i] \in T
  BY LenProperties
<1>2. PICK m : /\ Appends(m, ss) /\ FlattenSeq(ss) = m[n]
               /\ \A k \in 0..n : m[k] \in Seq(E)
  BY <1>1, FlatLoop, Zenon
<1>3. PICK q : Appends(q, ns) /\ FlattenSeq(ns) = q[n]
  BY <1>1, FlatLoop, Zenon
<1> DEFINE Good == {k \in 0..n : Names(m[k], id) = q[k]}
<1>4. 0 \in Good
  <2>1. m[0] = << >> /\ q[0] = << >>
    BY <1>2, <1>3 DEF Appends
  <2> QED BY <2>1, NamesOfNone
<1>5. ASSUME NEW k \in 1..n, k - 1 \in Good PROVE k \in Good
  <2>1. k - 1 \in 0..n /\ k \in 0..n
    OBVIOUS
  <2>2. PICK a \in Seq(E) : a = m[k - 1]
    BY <1>2, <2>1
  <2>3. PICK b \in Seq(E) : b = ss[k]
    BY <1>1
  <2>4. m[k] = a \o b
    BY <1>1, <1>2, <2>2, <2>3 DEF Appends
  <2>5. q[k] = q[k - 1] \o ns[k]
    BY <1>1, <1>3 DEF Appends
  <2>6. ns[k] = Names(b, id)
    BY <1>1, <2>3
  <2>7. q[k - 1] = Names(a, id)
    BY <1>5, <2>2
  <2>8. Names(a \o b, id) = Names(a, id) \o Names(b, id)
    BY NamesConcat
  <2> QED BY <2>1, <2>4, <2>5, <2>6, <2>7, <2>8, Zenon
<1>6. \A k \in 0..n : k \in Good
  <2> HIDE DEF Good
  <2> QED BY <1>4, <1>5, Rounds, Zenon
<1>7. n \in 0..n
  OBVIOUS
<1> QED BY <1>2, <1>3, <1>6, <1>7, Zenon

\* Leaving out the entries of others leaves out no name.
LEMMA NamesChosen ==
  ASSUME NEW E, AreEntries(E), NEW es \in Seq(E), NEW id
  PROVE  Names(Chosen(es, {i \in DOMAIN es : es[i].service_id = id}), id) = Names(es, id)
<1>9. PICK keep : keep = {i \in DOMAIN es : es[i].service_id = id}
  OBVIOUS
<1> DEFINE T == Seq(E)
<1>1. PICK n \in Nat : n = Len(es) /\ DOMAIN es = 1..n /\ \A i \in 1..n : es[i] \in E
  BY LenProperties
<1>10. PICK ss : ss = [i \in DOMAIN es |-> IF i \in keep THEN <<es[i]>> ELSE << >>]
  OBVIOUS
<1>2. \A i \in 1..n : ss[i] = IF i \in keep THEN <<es[i]>> ELSE << >>
  BY <1>1, <1>10
<1>3. ss \in Seq(T) /\ Len(ss) = n
  <2>1. ss = [i \in 1..n |-> ss[i]] /\ \A i \in 1..n : ss[i] \in T
    BY <1>1, <1>10
  <2> HIDE DEF T
  <2> QED BY <2>1, MapSeq
<1>4. PICK ns : ns = AllSaid(es, id)
  OBVIOUS
<1>5. /\ ns \in Seq(Seq(Words)) /\ Len(ns) = n /\ Names(es, id) = FlattenSeq(ns)
      /\ \A i \in 1..n : ns[i] = Said(es[i], id)
  BY <1>1, <1>4, SaidSeq
<1>6. \A i \in 1..n : ns[i] = Names(ss[i], id)
  <2> TAKE i \in 1..n
  <2>1. CASE i \in keep
    <3>1. Names(<<es[i]>>, id) = Said(es[i], id)
      BY <1>1, NamesOfOne
    <3> QED BY <1>2, <1>5, <2>1, <3>1
  <2>2. CASE i \notin keep
    <3>1. es[i].service_id # id
      BY <1>1, <1>9, <2>2
    <3>2. Said(es[i], id) = << >>
      BY <3>1 DEF Said
    <3> QED BY <1>2, <1>5, <2>2, <3>2, NamesOfNone
  <2> QED BY <2>1, <2>2
<1>7. Names(FlattenSeq(ss), id) = FlattenSeq(ns)
  <2>1. /\ ss \in Seq(Seq(E)) /\ ns \in Seq(Seq(Words)) /\ Len(ns) = Len(ss)
        /\ \A i \in 1..Len(ss) : ns[i] = Names(ss[i], id)
    BY <1>3, <1>5, <1>6
  <2> QED BY <2>1, NamesFlat, Zenon
<1>8. Chosen(es, keep) = FlattenSeq(ss)
  BY <1>10, Zenon DEF Chosen
<1> QED BY <1>5, <1>7, <1>8, <1>9

-----------------------------------------------------------------------------
(* Names in the new SDT.                                                   *)

LEMMA PlainRecoded ==
  ASSUME NEW t \in Seq(Byte), Plain(t) = t
  PROVE  Plain(Recode(t)) = t
<1>1. CASE t = << >>
  BY <1>1 DEF Recode
<1>2. CASE t # << >>
  BY <1>2, PlainPrefixed DEF Recode
<1> QED BY <1>1, <1>2

\* A recoded name says what it said.
LEMMA WordRecoded ==
  ASSUME NEW d \in Descriptor, Len(d.texts) = 2,
         \A n \in 1..2 : Plain(d.texts[n]) = d.texts[n]
  PROVE  Word(Recoded(d)) = Word(d) /\ Recoded(d).tag = d.tag /\ Recoded(d) \in Descriptor
<1>1. PICK ts : ts = d.texts
  OBVIOUS
<1>2. /\ ts \in Seq(Seq(Byte)) /\ DOMAIN ts = 1..2
      /\ ts[1] \in Seq(Byte) /\ ts[2] \in Seq(Byte)
  BY <1>1, LenProperties DEF Descriptor
<1>3. PICK new : new = [i \in DOMAIN ts |-> Recode(ts[i])]
  OBVIOUS
<1>4. new \in Seq(Seq(Byte)) /\ DOMAIN new = 1..2
      /\ new[1] = Recode(ts[1]) /\ new[2] = Recode(ts[2])
  <2>1. new \in Seq(Seq(Byte))
    BY <1>2, <1>3, RecodedTexts, Zenon
  <2> QED BY <1>2, <1>3, <2>1
<1>5. PICK e : e = Closed([d EXCEPT !.texts = new])
  OBVIOUS
<1>6. e = [tag |-> d.tag, len |-> Size([d EXCEPT !.texts = new]) % 256,
           fixed |-> d.fixed, texts |-> new] /\ e \in Descriptor
  BY <1>4, <1>5, ClosedDescriptor, ZenonT(30)
<1>7. e.texts = new /\ e.tag = d.tag
  BY <1>6
<1>8. Recoded(d) = e
  BY <1>1, <1>3, <1>5, Zenon DEF Recoded
<1>9. Plain(ts[1]) = ts[1] /\ Plain(ts[2]) = ts[2]
  BY <1>1
<1>10. Plain(new[1]) = ts[1] /\ Plain(new[2]) = ts[2]
  BY <1>2, <1>4, <1>9, PlainRecoded
<1>11. \A k \in 1..2 : Plain(new[k]) = Plain(ts[k])
  BY <1>9, <1>10
<1>12. [k \in 1..2 |-> Plain(new[k])] = [k \in 1..2 |-> Plain(ts[k])]
  BY <1>11
<1>13. Word(e) = Word(d)
  BY <1>1, <1>2, <1>4, <1>7, <1>12 DEF Word
<1> QED BY <1>6, <1>7, <1>8, <1>13

\* copy_sdt_descriptors keeps an entry's names.
LEMMA CopiedNames ==
  ASSUME NEW ds \in Seq(Descriptor), NEW onid, NameFits(ds, onid),
         NEW e, e.descs = ds, NEW f, f.descs = CopySdtDescriptors(ds, onid)
  PROVE  EntryNames(f) = EntryNames(e)
<1>1. PICK kept : kept = Chosen(ds, Tagged(ds, 72))
  OBVIOUS
<1>2. kept \in Seq(Descriptor) /\ Range(kept) = {ds[k] : k \in Tagged(ds, 72) \cap DOMAIN ds}
  BY <1>1, ChosenElements
<1>3. PICK n \in Nat : n = Len(kept) /\ DOMAIN kept = 1..n /\ \A i \in 1..n : kept[i] \in Descriptor
  BY <1>2, LenProperties
<1>4. \A i \in 1..n : \E k \in Tagged(ds, 72) : k \in DOMAIN ds /\ kept[i] = ds[k]
  <2>1. \A i \in 1..n : kept[i] \in Range(kept)
    BY <1>3 DEF Range
  <2> QED BY <1>2, <2>1
<1>5. PICK new : new = f.descs
  OBVIOUS
<1>6. new = IF Latin(onid) THEN [i \in DOMAIN kept |-> Recoded(kept[i])] ELSE kept
  BY <1>1, <1>5, Zenon DEF CopySdtDescriptors
<1>7. new \in Seq(Descriptor)
  BY <1>5, CopiedDescriptors
<1>8. DOMAIN new = 1..n
  BY <1>3, <1>6
<1>9. ASSUME NEW i \in 1..n PROVE new[i].tag = 72 /\ Word(new[i]) = Word(kept[i])
  <2>1. PICK k \in Tagged(ds, 72) : k \in DOMAIN ds /\ kept[i] = ds[k]
    BY <1>4
  <2>2. ds[k] \in Descriptor /\ ds[k].tag = 72
    BY <2>1, LenProperties DEF Tagged
  <2>3. CASE Latin(onid)
    <3>1. /\ Len(ds[k].texts) = 2
          /\ \A j \in 1..2 : Plain(ds[k].texts[j]) = ds[k].texts[j]
      BY <2>3, Zenon DEF NameFits
    <3>2. Word(Recoded(ds[k])) = Word(ds[k]) /\ Recoded(ds[k]).tag = ds[k].tag
      BY <2>2, <3>1, WordRecoded, Zenon
    <3>3. new[i] = Recoded(ds[k])
      BY <1>3, <1>6, <2>1, <2>3, Zenon
    <3> QED BY <2>1, <2>2, <3>2, <3>3, Zenon
  <2>4. CASE ~Latin(onid)
    BY <1>6, <2>1, <2>2, <2>4, Zenon
  <2> QED BY <2>3, <2>4
<1>10. Chosen(new, Tagged(new, 72)) = new
  <2>1. DOMAIN new \subseteq Tagged(new, 72)
    BY <1>8, <1>9 DEF Tagged
  <2> QED BY <1>7, <2>1, ChosenAll
<1>11. EntryNames(f) = [j \in DOMAIN new |-> Word(new[j])]
  BY <1>5, <1>10, Zenon DEF EntryNames
<1>12. EntryNames(e) = [j \in DOMAIN kept |-> Word(kept[j])]
  BY <1>1, Zenon DEF EntryNames
<1>13. [j \in 1..n |-> Word(new[j])] = [j \in 1..n |-> Word(kept[j])]
  BY <1>9, Zenon
<1> QED BY <1>3, <1>8, <1>11, <1>12, <1>13, Zenon

\* The names of one service in the new SDT, if its entries are all there is.
LEMMA ServiceNamed ==
  ASSUME NEW sv, sv.sdt \in SdtSection, NamesHeld(sv)
  PROVE  Names(SdtEntries(sv), sv.new_service_id) = Names(sv.sdt.entries, sv.service_id)
<1>1. PICK own : own = Own(sv)
  OBVIOUS
<1>2. /\ own \in Seq(SdtEntry)
      /\ \A i \in DOMAIN own : \E k \in DOMAIN sv.sdt.entries :
           own[i] = sv.sdt.entries[k] /\ sv.sdt.entries[k].service_id = sv.service_id
      /\ SdtEntries(sv) = [i \in DOMAIN own |-> NewEntry(sv, own[i])]
  BY <1>1, OwnEntries
<1>3. \A i \in DOMAIN own : own[i] \in SdtEntry
  BY <1>2, LenProperties
<1>4. ASSUME NEW i \in DOMAIN own
      PROVE  Said(NewEntry(sv, own[i]), sv.new_service_id) = Said(own[i], sv.service_id)
  <2>1. PICK k \in DOMAIN sv.sdt.entries :
           own[i] = sv.sdt.entries[k] /\ sv.sdt.entries[k].service_id = sv.service_id
    BY <1>2
  <2>2. PICK e : e = own[i]
    OBVIOUS
  <2>3. PICK f : f = NewEntry(sv, own[i])
    OBVIOUS
  <2>4. e.descs \in Seq(Descriptor) /\ e.service_id = sv.service_id
    BY <1>3, <2>1, <2>2 DEF SdtEntry
  <2>5. f.service_id = sv.new_service_id /\ f.descs = CopySdtDescriptors(e.descs, sv.onid)
    BY <2>2, <2>3 DEF NewEntry
  <2>6. NameFits(e.descs, sv.onid)
    BY <2>1, <2>2 DEF NamesHeld
  <2>7. EntryNames(f) = EntryNames(e)
    BY <2>4, <2>5, <2>6, CopiedNames
  <2> QED BY <2>2, <2>3, <2>4, <2>5, <2>7, Zenon DEF Said
<1>5. PICK new : new = SdtEntries(sv)
  OBVIOUS
<1>6. DOMAIN new = DOMAIN own /\ \A i \in DOMAIN own : new[i] = NewEntry(sv, own[i])
  BY <1>2, <1>5, Zenon
<1>7. [i \in DOMAIN own |-> Said(new[i], sv.new_service_id)]
        = [i \in DOMAIN own |-> Said(own[i], sv.service_id)]
  BY <1>4, <1>6, Zenon
<1>8. AllSaid(new, sv.new_service_id) = AllSaid(own, sv.service_id)
  BY <1>6, <1>7, Zenon DEF AllSaid
<1>9. Names(new, sv.new_service_id) = Names(own, sv.service_id)
  <2>1. \A es, id : Names(es, id) = FlattenSeq(AllSaid(es, id))
    BY Zenon DEF Names, AllSaid, Said, EntryNames, Word
  <2> QED BY <1>8, <2>1, Zenon
<1>10. Names(own, sv.service_id) = Names(sv.sdt.entries, sv.service_id)
  <2>1. AreEntries(SdtEntry)
    BY DEF AreEntries, SdtEntry
  <2>2. PICK es, id : es = sv.sdt.entries /\ id = sv.service_id
    OBVIOUS
  <2>3. es \in Seq(SdtEntry)
    BY <2>2 DEF SdtSection, SdtEntry
  <2>4. own = Chosen(es, {i \in DOMAIN es : es[i].service_id = id})
    BY <1>1, <2>2, Zenon DEF Own
  <2>5. Names(Chosen(es, {i \in DOMAIN es : es[i].service_id = id}), id) = Names(es, id)
    BY <2>1, <2>3, NamesChosen, Zenon
  <2> QED BY <2>2, <2>4, <2>5, Zenon
<1> QED BY <1>5, <1>9, <1>10, Zenon

\* With ids of their own, no service gets another's names.
OwnIds(services) ==
  \A s, t \in DOMAIN services :
    s # t => services[s].new_service_id # services[t].new_service_id

LEMMA SdtNamed ==
  ASSUME NEW services, IsServices(services),
         \A s \in DOMAIN services : services[s].sdt \in SdtSection,
         OwnIds(services), NEW one \in DOMAIN services, NamesHeld(services[one])
  PROVE  Names(CreateSdt(services).entries, services[one].new_service_id)
           = Names(services[one].sdt.entries, services[one].service_id)
<1> DEFINE E == [service_id : {services[s].new_service_id : s \in DOMAIN services},
                 free_CA_mode : {0}, descs : Seq(Descriptor)]
<1>1. PICK n \in Nat : n = Len(services) /\ DOMAIN services = 1..n
  BY ZenonT(30) DEF IsServices
<1>2. PICK ss : ss = [t \in DOMAIN services |-> SdtEntries(services[t])]
  OBVIOUS
<1>3. ss \in Seq(Seq(E)) /\ Len(ss) = n /\ \A t \in 1..n : ss[t] = SdtEntries(services[t])
  <2>1. /\ ss \in Seq(Seq(E)) /\ DOMAIN services = 1..Len(ss)
        /\ \A t \in 1..Len(ss) : ss[t] = SdtEntries(services[t])
    BY <1>2, EntriesOfServices, Zenon
  <2>2. Len(ss) \in Nat
    <3> HIDE DEF E
    <3> QED BY <2>1, LenProperties
  <2>3. Len(ss) = n
    BY <1>1, <2>1, <2>2
  <2> QED BY <2>1, <2>3
<1>4. AreEntries(E)
  BY DEF AreEntries
<1>5. PICK id : id = services[one].new_service_id
  OBVIOUS
<1>6. ASSUME NEW t \in 1..n, t # one PROVE Names(ss[t], id) = << >>
  <2> DEFINE V == [service_id : {services[t].new_service_id}, free_CA_mode : {0},
                   descs : Seq(Descriptor)]
  <2>1. ss[t] \in Seq(V)
    <3>1. SdtEntries(services[t]) \in Seq(V)
      BY <1>1, NewEntries, Zenon
    <3> QED BY <1>3, <3>1, Zenon
  <2>2. AreEntries(V)
    BY DEF AreEntries
  <2>3. services[t].new_service_id # id
    BY <1>1, <1>5, <1>6 DEF OwnIds
  <2>4. \A e \in V : e.service_id # id
    BY <2>3
  <2> HIDE DEF V
  <2>5. \A i \in 1..Len(ss[t]) : ss[t][i].service_id # id
    BY <2>1, <2>4, LenProperties
  <2> QED BY <2>1, <2>2, <2>5, NamesOfOthers
<1> HIDE DEF E
<1> DEFINE T == Seq(Words)
<1>7. PICK ns : ns = [t \in 1..n |-> Names(ss[t], id)]
  OBVIOUS
<1>8. ns \in Seq(T) /\ Len(ns) = n
  <2>1. \A t \in 1..n : Names(ss[t], id) \in T
    <3> TAKE t \in 1..n
    <3>1. ss[t] \in Seq(E)
      <4> DEFINE U == Seq(E)
      <4>1. ss \in Seq(U) /\ Len(ss) = n
        BY <1>3
      <4> HIDE DEF U
      <4>2. ss[t] \in U
        BY <4>1, LenProperties
      <4> QED BY <4>2 DEF U
    <3> QED BY <1>4, <3>1, NamesTyped
  <2>2. ns = [t \in 1..n |-> ns[t]] /\ \A t \in 1..n : ns[t] \in T
    BY <1>7, <2>1
  <2> HIDE DEF T
  <2> QED BY <2>2, MapSeq
<1>9. \A t \in 1..n : ns[t] = Names(ss[t], id)
  BY <1>7
<1>10. Names(FlattenSeq(ss), id) = FlattenSeq(ns)
  <2>1. /\ ss \in Seq(Seq(E)) /\ ns \in Seq(Seq(Words)) /\ Len(ns) = Len(ss)
        /\ \A t \in 1..Len(ss) : ns[t] = Names(ss[t], id)
    BY <1>3, <1>8, <1>9
  <2> QED BY <1>4, <2>1, NamesFlat, Zenon
<1>11. FlattenSeq(ns) = ns[one]
  <2>1. one \in 1..Len(ns) /\ \A t \in 1..Len(ns) : t # one => ns[t] = << >>
    BY <1>1, <1>6, <1>8, <1>9
  <2> QED BY <1>8, <2>1, FlatLone
<1>12. CreateSdt(services).entries = FlattenSeq(ss)
  BY <1>2 DEF CreateSdt
<1>13. Names(ss[one], id) = Names(services[one].sdt.entries, services[one].service_id)
  <2>1. PICK sv : sv = services[one]
    OBVIOUS
  <2>2. Names(SdtEntries(sv), sv.new_service_id) = Names(sv.sdt.entries, sv.service_id)
    BY <2>1, ServiceNamed
  <2>3. ss[one] = SdtEntries(sv)
    BY <1>1, <1>3, <2>1
  <2> QED BY <1>5, <2>1, <2>2, <2>3, Zenon
<1> QED BY <1>1, <1>5, <1>9, <1>10, <1>11, <1>12, <1>13, Zenon

-----------------------------------------------------------------------------
(* Bounds of sums.                                                         *)

LEMMA TotalAtMost ==
  ASSUME NEW ns \in Seq(Nat), NEW b \in Nat, \A k \in 1..Len(ns) : ns[k] <= b
  PROVE  Total(ns) <= b * Len(ns)
<1>1. PICK n \in Nat : n = Len(ns) /\ \A k \in 1..n : ns[k] \in Nat
  BY LenProperties
<1>2. PICK m : /\ m[0] = 0 /\ Total(ns) = m[n]
               /\ \A k \in 1..n : m[k] = m[k - 1] + ns[k]
  BY <1>1, TotalLoop
<1> DEFINE Good == {k \in 0..n : m[k] \in Nat /\ m[k] <= b * k}
<1>3. 0 \in Good
  BY <1>2
<1>4. ASSUME NEW k \in 1..n, k - 1 \in Good PROVE k \in Good
  <2>1. PICK x \in Nat, y \in Nat : x = m[k - 1] /\ y = ns[k] /\ y <= b
    BY <1>1, <1>4
  <2>2. PICK z \in Int : z = b * (k - 1) /\ x <= z
    BY <1>4, <2>1
  <2>3. PICK w \in Int : w = b * k /\ w = z + b
    BY <2>2
  <2>4. x + y \in Nat /\ x + y <= w
    BY <2>1, <2>2, <2>3
  <2>5. m[k] = x + y
    BY <1>2, <2>1
  <2>6. m[k] \in Nat /\ m[k] <= b * k
    BY <2>3, <2>4, <2>5, Zenon
  <2>7. k \in 0..n
    OBVIOUS
  <2> QED BY <2>6, <2>7, Zenon
<1>5. \A k \in 0..n : k \in Good
  <2> HIDE DEF Good
  <2> QED BY <1>3, <1>4, Rounds, Zenon
<1>6. n \in 0..n
  OBVIOUS
<1> QED BY <1>1, <1>2, <1>5, <1>6
=============================================================================
