---------------------------- MODULE FsImageProof ----------------------------
(***************************************************************************)
(* Theorems about the fsimage reader: for images of any size, with any     *)
(* messages the name node may write.                                       *)
(***************************************************************************)
EXTENDS FsImage, TLAPS, SequenceTheorems, FiniteSetTheorems

-----------------------------------------------------------------------------
(***************************************************************************)
(* Numbers and sequences                                                   *)
(***************************************************************************)

\* A set of numbers that has an element has a least one.
LEMMA MinOfNats ==
  ASSUME NEW S \in SUBSET Nat, S # {}
  PROVE  Min(S) \in S /\ \A x \in S : Min(S) <= x
<1> DEFINE Below(x) == 0..x
           T == {Below(x) : x \in S}
           R == StrictSubsetOrdering(Nat)
<1>1. IsWellFoundedOn(R, FiniteSubsetsOf(Nat))
  BY FS_StrictSubsetOrderingWellFounded
<1>2. T \subseteq FiniteSubsetsOf(Nat) /\ T # {}
  <2>1. \A x \in S : IsFiniteSet(Below(x)) /\ Below(x) \subseteq Nat
    BY FS_Interval
  <2>2. QED
    BY <2>1 DEF FiniteSubsetsOf
<1> HIDE DEF R
<1>3. \E t \in T : \A u \in T : ~(<<u, t>> \in R)
  <2> HIDE DEF T
  <2>1. QED
    BY <1>1, <1>2, WFMin
<1>4. PICK x \in S : \A y \in S : ~(<<Below(y), Below(x)>> \in R)
  BY <1>3
<1>5. \A y \in S : x <= y
  <2>1. SUFFICES ASSUME NEW y \in S, y < x PROVE FALSE
    OBVIOUS
  <2>2. Below(y) \subseteq Below(x) /\ Below(y) # Below(x)
    BY <2>1
  <2>3. Below(y) \in SUBSET Nat /\ Below(x) \in SUBSET Nat
    OBVIOUS
  <2>4. <<Below(y), Below(x)>> \in R
    <3> HIDE DEF Below
    <3>1. QED
      BY <2>2, <2>3 DEF R, StrictSubsetOrdering
  <2>5. QED
    BY <1>4, <2>4
<1>6. QED
  BY <1>5 DEF Min

LEMMA SequenceIn ==
  ASSUME NEW s, IsSequence(s)
  PROVE  s \in Seq(Range(s)) /\ DOMAIN s = 1..Len(s)
<1>1. Len(s) \in Nat /\ s = [i \in 1..Len(s) |-> s[i]]
  BY DEF IsSequence
<1>2. DOMAIN s = 1..Len(s)
  BY <1>1
<1>3. s \in [1..Len(s) -> Range(s)]
  BY <1>1, <1>2 DEF Range
<1>4. QED
  BY <1>1, <1>2, <1>3, SeqDef

LEMMA SequenceOf ==
  ASSUME NEW S, NEW s \in Seq(S)
  PROVE  IsSequence(s)
  BY LenProperties DEF IsSequence

\* Two sequences have a common set of values.
LEMMA ConcatSequence ==
  ASSUME NEW s, NEW t, IsSequence(s), IsSequence(t)
  PROVE  /\ IsSequence(s \o t)
         /\ Len(s \o t) = Len(s) + Len(t)
         /\ s \o t = <<>> <=> s = <<>> /\ t = <<>>
         /\ t # <<>> => Last(s \o t) = Last(t)
         /\ s \o <<>> = s
         /\ <<>> \o t = t
<1> DEFINE S == Range(s) \cup Range(t)
<1>1. s \in Seq(S) /\ t \in Seq(S)
  BY SequenceIn, SeqMonotonic
<1> HIDE DEF S
<1>2. s \o t \in Seq(S) /\ Len(s \o t) = Len(s) + Len(t)
  BY <1>1, ConcatProperties
<1>3. IsSequence(s \o t)
  BY <1>2, SequenceOf
<1>4. s \o <<>> = s /\ <<>> \o t = t
  BY <1>1, ConcatEmptySeq
<1>5. s \o t = <<>> <=> s = <<>> /\ t = <<>>
  BY <1>1, <1>2, <1>4, EmptySeq
<1>6. t # <<>> => Last(s \o t) = Last(t)
  BY <1>1, <1>2, EmptySeq, ConcatProperties DEF Last
<1>7. QED
  BY <1>2, <1>3, <1>4, <1>5, <1>6

LEMMA NoSequence == IsSequence(<<>>)
  BY SequenceOf, EmptySeq

LEMMA OneSequence == ASSUME NEW v PROVE IsSequence(<<v>>) /\ Len(<<v>>) = 1 /\ <<v>> # <<>>
<1>1. <<v>> \in Seq({v})
  OBVIOUS
<1>2. QED
  BY <1>1, SequenceOf

\* FlattenSeq is defined by a function that calls itself; for every sequence
\* there is such a function.
Flattens(g, q, n) ==
  g = [i \in 1..n |-> IF i = 1 THEN q[i] ELSE g[i - 1] \o q[i]]

LEMMA FlattenExists ==
  ASSUME NEW q, NEW n \in Nat
  PROVE  \E g : Flattens(g, q, n)
<1> DEFINE E(k) == \E g : Flattens(g, q, k)
           None == {k \in Nat : ~E(k)}
<1>1. E(0)
  <2>1. <<>> = [i \in 1..0 |-> IF i = 1 THEN q[i] ELSE <<>>[i - 1] \o q[i]]
    OBVIOUS
  <2>2. QED
    BY <2>1 DEF Flattens
<1>2. ASSUME NEW k \in Nat, E(k) PROVE E(k + 1)
  <2>1. PICK g : Flattens(g, q, k)
    BY <1>2
  <2> DEFINE next == IF k = 0 THEN q[1] ELSE g[k] \o q[k + 1]
             h == [i \in 1..k + 1 |-> IF i = k + 1 THEN next ELSE g[i]]
  <2>2. ASSUME NEW i \in 1..k + 1
        PROVE  h[i] = IF i = 1 THEN q[i] ELSE h[i - 1] \o q[i]
    <3>1. CASE i = k + 1 /\ k = 0
      BY <3>1
    <3>2. CASE i = k + 1 /\ k # 0
      <4>1. h[i] = g[k] \o q[k + 1]
        BY <3>2
      <4>2. i - 1 \in 1..k + 1 /\ i - 1 # k + 1 /\ i - 1 = k /\ i # 1
        BY <3>2
      <4>3. h[i - 1] = g[k]
        BY <4>2
      <4> HIDE DEF h, next
      <4>4. QED
        BY <3>2, <4>1, <4>2, <4>3
    <3>3. CASE i # k + 1
      <4>1. i \in 1..k /\ h[i] = g[i] /\ (i # 1 => h[i - 1] = g[i - 1])
        BY <3>3
      <4>2. g[i] = IF i = 1 THEN q[i] ELSE g[i - 1] \o q[i]
        BY <2>1, <4>1 DEF Flattens
      <4>3. QED
        BY <4>1, <4>2
    <3>4. QED
      BY <3>1, <3>2, <3>3
  <2>3. DOMAIN h = 1..k + 1 /\ h = [i \in DOMAIN h |-> h[i]]
    OBVIOUS
  <2> HIDE DEF h
  <2>4. h = [i \in 1..k + 1 |-> IF i = 1 THEN q[i] ELSE h[i - 1] \o q[i]]
    BY <2>2, <2>3
  <2>5. QED
    BY <2>4 DEF Flattens
<1>3. SUFFICES ASSUME None # {} PROVE FALSE
  OBVIOUS
<1> HIDE DEF E
<1>4. Min(None) \in None /\ \A x \in None : Min(None) <= x
  BY <1>3, MinOfNats
<1>5. PICK k \in Nat : Min(None) = k + 1 /\ E(k)
  <2>1. Min(None) \in Nat /\ Min(None) # 0
    BY <1>1, <1>4
  <2>2. Min(None) - 1 \in Nat /\ Min(None) - 1 \notin None
    BY <1>4, <2>1
  <2>3. E(Min(None) - 1) /\ Min(None) = (Min(None) - 1) + 1
    BY <2>1, <2>2
  <2> HIDE DEF None
  <2>4. QED
    BY <2>2, <2>3
<1>6. QED
  BY <1>2, <1>4, <1>5

\* What is put behind a sequence of sequences comes last.
LEMMA FlattenAppend ==
  ASSUME NEW q, IsSequence(q), NEW t, IsSequence(t)
  PROVE  /\ FlattenSeq(<<>>) = <<>>
         /\ FlattenSeq(q \o <<t>>) = FlattenSeq(q) \o t
<1> DEFINE F(w, g) == Flattens(g, w, Len(w))
           all == q \o <<t>>
<1>1. FlattenSeq(<<>>) = <<>>
  BY DEF FlattenSeq
<1>2. /\ Len(q) \in Nat /\ Len(all) = Len(q) + 1
      /\ all[Len(all)] = t
      /\ \A i \in 1..Len(q) : all[i] = q[i]
  <2> DEFINE S == Range(q) \cup {t}
  <2>1. q \in Seq(S) /\ <<t>> \in Seq(S)
    BY SequenceIn, SeqMonotonic
  <2> HIDE DEF S
  <2>2. QED
    BY <2>1, ConcatProperties
<1> HIDE DEF all
<1>3. CASE q = <<>>
  <2>1. all = <<t>>
    BY <1>3, OneSequence, ConcatSequence DEF all
  <2>2. FlattenSeq(all) = (CHOOSE g : F(all, g))[1]
    BY <2>1 DEF FlattenSeq, Flattens
  <2>3. \E g : F(all, g)
    BY <1>2, FlattenExists
  <2>4. F(all, CHOOSE g : F(all, g))
    BY <2>3
  <2>5. FlattenSeq(all) = t
    BY <2>1, <2>2, <2>4 DEF Flattens
  <2>6. QED
    BY <1>1, <1>3, <2>5, ConcatSequence DEF all
<1>4. CASE q # <<>>
  <2> DEFINE g == CHOOSE g : F(q, g)
             h == CHOOSE h : F(all, h)
             Differ == {i \in 1..Len(q) : g[i] # h[i]}
  <2>1. Len(q) # 0
    BY <1>4, <1>2, SequenceIn, EmptySeq
  <2>2. FlattenSeq(q) = g[Len(q)] /\ FlattenSeq(all) = h[Len(all)]
    BY <1>2, <2>1 DEF FlattenSeq, Flattens
  <2>3. F(q, g) /\ F(all, h)
    <3>1. Len(q) \in Nat /\ Len(all) \in Nat
      BY <1>2
    <3>2. \E x : F(q, x)
      BY <3>1, FlattenExists
    <3>3. \E x : F(all, x)
      BY <3>1, FlattenExists
    <3>4. QED
      BY <3>2, <3>3
  <2> HIDE DEF g, h
  <2>4. Differ = {}
    <3>1. SUFFICES ASSUME Differ # {} PROVE FALSE
      OBVIOUS
    <3>2. Min(Differ) \in Differ /\ \A x \in Differ : Min(Differ) <= x
      <4>1. Differ \in SUBSET Nat
        BY <1>2
      <4> HIDE DEF Differ
      <4>2. QED
        BY <3>1, <4>1, MinOfNats
    <3>3. PICK i \in 1..Len(q) : g[i] # h[i] /\ (i # 1 => g[i - 1] = h[i - 1])
      <4>1. Min(Differ) \in 1..Len(q) /\ g[Min(Differ)] # h[Min(Differ)]
        BY <3>2
      <4>2. Min(Differ) # 1 => Min(Differ) - 1 \in 1..Len(q) /\ Min(Differ) - 1 \notin Differ
        BY <1>2, <3>2, <4>1
      <4>3. QED
        BY <4>1, <4>2
    <3>4. g[i] = IF i = 1 THEN q[i] ELSE g[i - 1] \o q[i]
      BY <2>3 DEF Flattens
    <3>5. h[i] = IF i = 1 THEN all[i] ELSE h[i - 1] \o all[i]
      <4>1. i \in 1..Len(all)
        BY <1>2
      <4>2. QED
        BY <2>3, <4>1 DEF Flattens
    <3>6. QED
      BY <1>2, <3>3, <3>4, <3>5
  <2>5. h[Len(all)] = h[Len(q)] \o t
    <3>1. Len(all) \in 1..Len(all) /\ Len(all) # 1 /\ Len(all) - 1 = Len(q)
      BY <1>2, <2>1
    <3>2. h[Len(all)] = h[Len(all) - 1] \o all[Len(all)]
      BY <2>3, <3>1 DEF Flattens
    <3>3. QED
      BY <1>2, <3>1, <3>2
  <2>6. h[Len(q)] = g[Len(q)]
    BY <1>2, <2>1, <2>4
  <2>7. QED
    BY <1>1, <2>2, <2>5, <2>6 DEF all
<1>5. QED
  BY <1>3, <1>4

-----------------------------------------------------------------------------
(***************************************************************************)
(* Messages                                                                *)
(***************************************************************************)

LEMMA RepeatedSequence ==
  ASSUME NEW m, IsMessage(m), NEW f
  PROVE  IsSequence(Repeated(m, f)) /\ (f \in DOMAIN m <=> Has(m, f))
  BY NoSequence DEF IsMessage, Repeated, Has

LEMMA NothingFound ==
  IsMessage(Nothing) /\ \A f : Repeated(Nothing, f) = <<>>
  BY DEF IsMessage, Nothing, Repeated

\* A parse into a message adds to each field.
LEMMA MergeFields ==
  ASSUME NEW m, NEW w, IsMessage(m), IsMessage(w)
  PROVE  /\ IsMessage(Merge(m, w))
         /\ \A f : Repeated(Merge(m, w), f) = Repeated(m, f) \o Repeated(w, f)
<1>1. ASSUME NEW f PROVE Repeated(Merge(m, w), f) = Repeated(m, f) \o Repeated(w, f)
  <2>1. CASE f \in DOMAIN m \cup DOMAIN w
    BY <2>1 DEF Merge, Repeated
  <2>2. CASE f \notin DOMAIN m \cup DOMAIN w
    <3>1. Repeated(Merge(m, w), f) = <<>> /\ Repeated(m, f) = <<>> /\ Repeated(w, f) = <<>>
      BY <2>2 DEF Merge, Repeated
    <3>2. QED
      BY <3>1, NoSequence, ConcatSequence
  <2>3. QED
    BY <2>1, <2>2
<1>2. ASSUME NEW f \in DOMAIN Merge(m, w)
      PROVE  /\ f \in Nat
             /\ IsSequence(Merge(m, w)[f]) /\ Merge(m, w)[f] # <<>>
  <2>1. Merge(m, w)[f] = Repeated(m, f) \o Repeated(w, f)
    BY <1>1 DEF Repeated
  <2>2. f \in DOMAIN m \/ f \in DOMAIN w
    BY DEF Merge
  <2>3. Has(m, f) \/ Has(w, f)
    BY <2>2, RepeatedSequence
  <2>4. IsSequence(Repeated(m, f)) /\ IsSequence(Repeated(w, f))
    BY RepeatedSequence
  <2>5. QED
    BY <2>1, <2>2, <2>3, <2>4, ConcatSequence DEF Has, IsMessage
<1>3. QED
  BY <1>1, <1>2 DEF IsMessage

\* Parts that are all empty are empty together.
LEMMA EmptyParts ==
  ASSUME NEW n \in Nat
  PROVE  FlattenSeq([i \in 1..n |-> <<>>]) = <<>>
<1> DEFINE E(k) == FlattenSeq([i \in 1..k |-> <<>>]) = <<>>
           Others == {k \in Nat : ~E(k)}
<1>1. E(0)
  <2>1. [i \in 1..0 |-> <<>>] = <<>>
    OBVIOUS
  <2>2. QED
    BY <2>1, NoSequence, FlattenAppend
<1>2. ASSUME NEW k \in Nat, E(k) PROVE E(k + 1)
  <2> DEFINE q == [i \in 1..k |-> <<>>]
  <2>1. q \in Seq({<<>>}) /\ Len(q) = k
    OBVIOUS
  <2>2. IsSequence(q)
    BY <2>1, SequenceOf
  <2>3. [i \in 1..k + 1 |-> <<>>] = q \o << <<>> >>
    OBVIOUS
  <2>4. FlattenSeq(q \o << <<>> >>) = FlattenSeq(q) \o <<>>
    BY <2>2, NoSequence, FlattenAppend
  <2>5. FlattenSeq(q) = <<>>
    BY <1>2
  <2>6. QED
    BY <2>3, <2>4, <2>5, NoSequence, ConcatSequence
<1> HIDE DEF E
<1>3. SUFFICES ASSUME Others # {} PROVE FALSE
  BY DEF E
<1>4. Min(Others) \in Others /\ \A x \in Others : Min(Others) <= x
  BY <1>3, MinOfNats
<1>5. Min(Others) \in Nat /\ Min(Others) # 0
  BY <1>1, <1>4
<1>6. Min(Others) - 1 \in Nat /\ Min(Others) - 1 \notin Others
  BY <1>4, <1>5
<1>7. E(Min(Others) - 1) /\ ~E(Min(Others)) /\ Min(Others) = (Min(Others) - 1) + 1
  BY <1>4, <1>6
<1> HIDE DEF Others
<1>8. QED
  BY <1>2, <1>6, <1>7

\* A field of a message that was written in several parts.
LEMMA RepeatedMerged ==
  ASSUME NEW s, IsSequence(s), NEW f
  PROVE  Repeated(Merged(s), f) = FlattenSeq([i \in 1..Len(s) |-> Repeated(s[i], f)])
<1>1. DOMAIN s = 1..Len(s) /\ Len(s) \in Nat
  BY SequenceIn DEF IsSequence
<1>2. CASE f \in UNION {DOMAIN s[i] : i \in DOMAIN s}
  <2>1. Merged(s)[f] = FlattenSeq([i \in DOMAIN s |-> Repeated(s[i], f)])
    BY <1>2 DEF Merged
  <2>2. f \in DOMAIN Merged(s)
    BY <1>2 DEF Merged
  <2>3. QED
    BY <1>1, <2>1, <2>2 DEF Repeated
<1>3. CASE f \notin UNION {DOMAIN s[i] : i \in DOMAIN s}
  <2>1. f \notin DOMAIN Merged(s)
    BY <1>3 DEF Merged
  <2>2. \A i \in 1..Len(s) : Repeated(s[i], f) = <<>>
    BY <1>1, <1>3 DEF Repeated
  <2>3. [i \in 1..Len(s) |-> Repeated(s[i], f)] = [i \in 1..Len(s) |-> <<>>]
    BY <2>2
  <2>4. QED
    BY <1>1, <2>1, <2>3, EmptyParts DEF Repeated
<1>4. QED
  BY <1>2, <1>3

\* M has in each field what m has and behind it what w has.
Adds(M, m, w) == \A f : Repeated(M, f) = Repeated(m, f) \o Repeated(w, f)

\* One part more adds to each field.
LEMMA MergedAppend ==
  ASSUME NEW s, IsSequence(s), IsMessage(Merged(s)), NEW v, IsMessage(v)
  PROVE  IsMessage(Merged(s \o <<v>>)) /\ Adds(Merged(s \o <<v>>), Merged(s), v)
<1> DEFINE t == s \o <<v>>
           S == Range(s) \cup {v}
<1>1. s \in Seq(S) /\ <<v>> \in Seq(S)
  BY SequenceIn, SeqMonotonic
<1> HIDE DEF S
<1>2. /\ Len(s) \in Nat /\ Len(t) = Len(s) + 1 /\ t[Len(s) + 1] = v
      /\ \A i \in 1..Len(s) : t[i] = s[i]
      /\ t \in Seq(S)
  BY <1>1, ConcatProperties
<1>3. IsSequence(t) /\ DOMAIN t = 1..Len(s) + 1 /\ DOMAIN s = 1..Len(s)
  BY <1>1, <1>2, SequenceOf, SequenceIn
<1> HIDE DEF t
<1>4. ASSUME NEW f
      PROVE  Repeated(Merged(t), f) = Repeated(Merged(s), f) \o Repeated(v, f)
  <2> DEFINE q == [i \in 1..Len(s) |-> Repeated(s[i], f)]
             r == [i \in 1..Len(t) |-> Repeated(t[i], f)]
             U == {Repeated(s[i], f) : i \in 1..Len(s)} \cup {Repeated(v, f)}
  <2>1. q \in Seq(U) /\ Len(q) = Len(s)
    BY <1>2
  <2>2. r = q \o <<Repeated(v, f)>>
    <3>1. r \in Seq(U) /\ Len(r) = Len(s) + 1
      BY <1>2
    <3>2. \A i \in 1..Len(s) + 1 : r[i] = IF i = Len(s) + 1 THEN Repeated(v, f) ELSE q[i]
      BY <1>2
    <3> HIDE DEF r, q
    <3>3. <<Repeated(v, f)>> \in Seq(U)
      OBVIOUS
    <3>4. /\ q \o <<Repeated(v, f)>> \in Seq(U)
          /\ Len(q \o <<Repeated(v, f)>>) = Len(s) + 1
          /\ \A i \in 1..Len(s) + 1 : (q \o <<Repeated(v, f)>>)[i] =
               IF i = Len(s) + 1 THEN Repeated(v, f) ELSE q[i]
      BY <1>2, <2>1, <3>3, ConcatProperties
    <3> HIDE DEF U
    <3>5. QED
      BY <3>1, <3>2, <3>4, SeqEqual
  <2>3. IsSequence(q) /\ IsSequence(Repeated(v, f))
    BY <2>1, SequenceOf, RepeatedSequence
  <2>4. Repeated(Merged(t), f) = FlattenSeq(r)
    BY <1>3, RepeatedMerged
  <2>5. Repeated(Merged(s), f) = FlattenSeq(q)
    BY RepeatedMerged
  <2> HIDE DEF q, r
  <2>6. QED
    BY <2>2, <2>3, <2>4, <2>5, FlattenAppend
<1>5. DOMAIN Merged(t) = DOMAIN Merged(s) \cup DOMAIN v
  <2>1. DOMAIN Merged(t) = UNION {DOMAIN t[i] : i \in DOMAIN t}
    BY DEF Merged
  <2>2. DOMAIN Merged(s) = UNION {DOMAIN s[i] : i \in DOMAIN s}
    BY DEF Merged
  <2>3. \A i \in DOMAIN t : (i \in DOMAIN s /\ t[i] = s[i]) \/ t[i] = v
    BY <1>2, <1>3
  <2>4. \A i \in DOMAIN s : i \in DOMAIN t /\ t[i] = s[i]
    BY <1>2, <1>3
  <2>5. Len(s) + 1 \in DOMAIN t /\ t[Len(s) + 1] = v
    BY <1>2, <1>3
  <2>6. ASSUME NEW f PROVE f \in DOMAIN Merged(t) <=> f \in DOMAIN Merged(s) \cup DOMAIN v
    <3>1. f \in DOMAIN Merged(t) <=> \E i \in DOMAIN t : f \in DOMAIN t[i]
      BY <2>1
    <3>2. f \in DOMAIN Merged(s) <=> \E i \in DOMAIN s : f \in DOMAIN s[i]
      BY <2>2
    <3>3. QED
      BY <2>3, <2>4, <2>5, <3>1, <3>2
  <2>7. QED
    BY <2>6
<1>6. ASSUME NEW f \in DOMAIN Merged(t)
      PROVE  /\ f \in Nat
             /\ IsSequence(Merged(t)[f]) /\ Merged(t)[f] # <<>>
  <2>1. Merged(t)[f] = Repeated(Merged(s), f) \o Repeated(v, f)
    BY <1>4 DEF Repeated
  <2>2. Has(Merged(s), f) \/ Has(v, f)
    BY <1>5, RepeatedSequence
  <2>3. IsSequence(Repeated(Merged(s), f)) /\ IsSequence(Repeated(v, f))
    BY RepeatedSequence
  <2>4. QED
    BY <1>5, <2>1, <2>2, <2>3, ConcatSequence DEF Has, IsMessage
<1>7. QED
  BY <1>4, <1>6 DEF IsMessage, Adds, t

\* A field that is a message, of a message that was merged.
LEMMA EmbeddedMerged ==
  ASSUME NEW M, NEW m, NEW w, NEW g,
         Repeated(M, g) = Repeated(m, g) \o Repeated(w, g),
         IsSequence(Repeated(m, g)), IsMessage(Embedded(m, g)),
         Has(w, g) => IsOne(w, g)
  PROVE  /\ IsMessage(Embedded(M, g)) /\ IsMessage(Embedded(w, g))
         /\ Adds(Embedded(M, g), Embedded(m, g), Embedded(w, g))
<1>1. IsMessage(Merged(<<>>)) /\ \A f : Repeated(Merged(<<>>), f) = <<>>
  BY DEF Merged, IsMessage, Repeated
<1>2. CASE ~Has(w, g)
  <2>1. Repeated(w, g) = <<>>
    BY <1>2 DEF Has
  <2>2. Repeated(m, g) \o <<>> = Repeated(m, g)
    BY NoSequence, ConcatSequence
  <2>3. Embedded(M, g) = Embedded(m, g) /\ Embedded(w, g) = Merged(<<>>)
    BY <2>1, <2>2 DEF Embedded
  <2>4. ASSUME NEW f
        PROVE  Repeated(Embedded(m, g), f) \o <<>> = Repeated(Embedded(m, g), f)
    BY RepeatedSequence, NoSequence, ConcatSequence
  <2>5. QED
    BY <1>1, <2>3, <2>4 DEF Adds
<1>3. CASE Has(w, g)
  <2>1. PICK one : Repeated(w, g) = <<one>> /\ IsMessage(one)
    BY <1>3 DEF IsOne
  <2>2. Repeated(M, g) = Repeated(m, g) \o <<one>>
    BY <2>1
  <2>3. <<>> \o <<one>> = <<one>>
    BY NoSequence, OneSequence, ConcatSequence
  <2>4. IsMessage(Merged(<<one>>)) /\ Adds(Merged(<<one>>), Merged(<<>>), one)
    <3>1. IsSequence(<<>>) /\ IsMessage(Merged(<<>>)) /\ IsMessage(one)
      BY <1>1, <2>1, NoSequence
    <3>2. IsMessage(Merged(<<>> \o <<one>>)) /\ Adds(Merged(<<>> \o <<one>>), Merged(<<>>), one)
      BY <3>1, MergedAppend
    <3>3. QED
      BY <2>3, <3>2
  <2>5. Embedded(w, g) = Merged(<<one>>)
    BY <2>1 DEF Embedded
  <2>6. ASSUME NEW f PROVE Repeated(Embedded(w, g), f) = Repeated(one, f)
    <3>1. Repeated(Embedded(w, g), f) = <<>> \o Repeated(one, f)
      BY <1>1, <2>4, <2>5 DEF Adds
    <3>2. IsSequence(Repeated(one, f))
      BY <2>1, RepeatedSequence
    <3>3. QED
      BY <3>1, <3>2, NoSequence, ConcatSequence
  <2>7. IsMessage(Embedded(M, g)) /\ Adds(Embedded(M, g), Embedded(m, g), one)
    <3> DEFINE s == Repeated(m, g)
    <3>1. IsSequence(s) /\ IsMessage(Merged(s)) /\ IsMessage(one)
      BY <2>1 DEF Embedded
    <3>2. Embedded(M, g) = Merged(s \o <<one>>) /\ Embedded(m, g) = Merged(s)
      BY <2>2 DEF Embedded
    <3> HIDE DEF s
    <3>3. IsMessage(Merged(s \o <<one>>)) /\ Adds(Merged(s \o <<one>>), Merged(s), one)
      BY <3>1, MergedAppend
    <3>4. QED
      BY <3>2, <3>3
  <2>8. QED
    BY <2>4, <2>5, <2>6, <2>7 DEF Adds
<1>4. QED
  BY <1>2, <1>3

-----------------------------------------------------------------------------
(***************************************************************************)
(* The inductive invariant                                                 *)
(***************************************************************************)

\* The table is that of the image once it was read, and a loop runs in the
\* section it is for.
TableInv ==
  /\ image \in Images
  /\ IF pc = "summary" THEN sections = <<>> /\ section = 1 ELSE sections = image.sections
  /\ section \in 1..Len(sections) + 1
  /\ pc \in {"inode", "aborted"} => section \in Section("INODE")
  /\ pc = "string" => section \in Section("STRING_TABLE")
  /\ pc = "entry" => section \in Section("INODE_DIR")
  /\ pc = "done" => section = Len(sections) + 1

\* How far the loop over inodes is: not begun, in it, aborted, or through.
InodesInv ==
  /\ pc = "summary" => inodes = <<>>
  /\ \A i \in Section("INODE") :
       /\ section < i \/ (section = i /\ pc \notin {"inode", "aborted"}) => inodes = <<>>
       /\ section = i /\ pc = "inode" =>
            /\ position = sections[i].offset + 1 + Len(inodes)
            /\ Len(inodes) + left = InodeCount
       /\ section > i => Len(inodes) = InodeCount

StringsInv ==
  /\ pc = "summary" => strings = <<>>
  /\ \A i \in Section("STRING_TABLE") :
       /\ section < i \/ (section = i /\ pc # "string") => strings = <<>>
       /\ section = i /\ pc = "string" =>
            /\ position = sections[i].offset + 1 + Len(strings)
            /\ Len(strings) + left = StringCount
       /\ section > i => Len(strings) = StringCount

\* The loop over entries is always at a message, since the last one stops it.
EntriesInv ==
  /\ pc = "summary" => entries = <<>>
  /\ \A i \in Section("INODE_DIR") :
       /\ section < i \/ (section = i /\ pc # "entry") => entries = <<>>
       /\ section = i /\ pc = "entry" =>
            /\ position \in DOMAIN image.messages
            /\ position = sections[i].offset + Len(entries)
       /\ section > i => Parent(image.messages[sections[i].offset + Len(entries)]) = 0

\* The inodes up to the k-th that are files with field f, and what was
\* written of their contents, one file behind the other; the client of the
\* last one that is open.
FilesWith(k, f) == {j \in 1..k : Has(FileOf(WrittenInode(j)), f)}
WrittenUpTo(k, part) ==
  FlattenSeq([j \in 1..k |-> Contents(WrittenInode(j))[part]])
LastClient(k) ==
  LET open == FilesWith(k, 7)
  IN  IF open = {} THEN "" ELSE Contents(WrittenInode(Max(open))).client

\* What the inode that is parsed into holds of the first k inodes.
Held(m, k) ==
  /\ IsMessage(FileOf(m)) /\ IsMessage(DirectoryOf(m))
  /\ IsMessage(Embedded(FileOf(m), 7)) /\ IsMessage(Embedded(FileOf(m), 8))
  /\ Repeated(FileOf(m), 6) = WrittenUpTo(k, "blocks")
  /\ Repeated(Embedded(FileOf(m), 8), 2) = WrittenUpTo(k, "acl")
  /\ Scalar(Embedded(FileOf(m), 7), 1, "") = LastClient(k)
  /\ (Has(FileOf(m), 8) <=> FilesWith(k, 8) # {})

\* What the k-th inode has of its own comes last in it.
Behind(own, all) == \E before : IsSequence(before) /\ IsSequence(own) /\ all = before \o own
OwnLast(k) ==
  LET own == Contents(WrittenInode(k))
  IN  /\ Behind(own.blocks, WrittenUpTo(k, "blocks"))
      /\ Behind(own.acl, WrittenUpTo(k, "acl"))
      /\ Has(FileOf(WrittenInode(k)), 7) => LastClient(k) = own.client
      /\ Has(FileOf(WrittenInode(k)), 8) => FilesWith(k, 8) # {}

HeldInv == pc = "inode" => Held(inode, Len(inodes))

\* What was printed are sequences.
PrintedInv == /\ IsSequence(inodes) /\ IsSequence(strings) /\ IsSequence(entries)

Inv ==
  /\ TypeOK /\ TableInv /\ PrintedInv
  /\ InodesInv /\ StringsInv /\ EntriesInv /\ HeldInv

-----------------------------------------------------------------------------
(***************************************************************************)
(* The table of sections and the messages of the image                     *)
(***************************************************************************)

LEMMA AppendSequence ==
  ASSUME NEW s, IsSequence(s), NEW e
  PROVE  /\ IsSequence(Append(s, e)) /\ Append(s, e) # <<>>
         /\ Len(s) \in Nat /\ Len(Append(s, e)) = Len(s) + 1
         /\ DOMAIN s = 1..Len(s) /\ DOMAIN Append(s, e) = 1..Len(s) + 1
         /\ Append(s, e)[Len(s) + 1] = e
         /\ \A i \in DOMAIN s : Append(s, e)[i] = s[i]
<1> DEFINE S == Range(s) \cup {e}
<1>1. s \in Seq(S)
  BY SequenceIn, SeqMonotonic
<1>2. e \in S
  OBVIOUS
<1> HIDE DEF S
<1>3. /\ Append(s, e) \in Seq(S) /\ Append(s, e) # <<>>
      /\ Len(s) \in Nat /\ Len(Append(s, e)) = Len(s) + 1
      /\ Append(s, e)[Len(s) + 1] = e
      /\ \A i \in 1..Len(s) : Append(s, e)[i] = s[i]
  BY <1>1, <1>2, AppendProperties
<1>4. IsSequence(Append(s, e))
  BY <1>3, SequenceOf
<1>5. DOMAIN s = 1..Len(s) /\ DOMAIN Append(s, e) = 1..Len(s) + 1
  BY <1>3, <1>4, SequenceIn
<1>6. QED
  BY <1>3, <1>4, <1>5

LEMMA EmptySequence == IsSequence(<<>>) /\ Len(<<>>) = 0 /\ DOMAIN <<>> = 1..0
  BY NoSequence, SequenceIn

LEMMA ImageFacts ==
  ASSUME TableInv
  PROVE  /\ DOMAIN image.messages = 1..Len(image.messages) /\ Len(image.messages) \in Nat
         /\ DOMAIN sections = 1..Len(sections) /\ Len(sections) \in Nat
         /\ \A p \in DOMAIN image.messages : IsMessage(image.messages[p])
         /\ image.messages # <<>> => Last(image.messages) = Nothing
         /\ \A i \in DOMAIN sections : sections[i].offset \in DOMAIN image.messages
         /\ \A i, j \in DOMAIN sections : sections[i].name = sections[j].name => i = j
<1>1. /\ IsSequence(image.sections) /\ IsSequence(image.messages)
      /\ \A p \in DOMAIN image.messages : IsMessage(image.messages[p])
      /\ image.messages # <<>> => Last(image.messages) = Nothing
      /\ \A i \in DOMAIN image.sections : image.sections[i].offset \in DOMAIN image.messages
      /\ \A i, j \in DOMAIN image.sections :
           image.sections[i].name = image.sections[j].name => i = j
  BY ImageAssumption DEF TableInv
<1>2. DOMAIN image.messages = 1..Len(image.messages) /\ Len(image.messages) \in Nat
  BY <1>1, SequenceIn DEF IsSequence
<1>3. sections = <<>> \/ sections = image.sections
  BY DEF TableInv
<1>4. CASE sections = <<>>
  <2>1. DOMAIN sections = 1..0 /\ Len(sections) = 0
    BY <1>4, EmptySequence
  <2>2. \A i \in DOMAIN sections : FALSE
    BY <2>1
  <2>3. QED
    BY <1>1, <1>2, <2>1, <2>2
<1>5. CASE sections = image.sections
  <2>1. DOMAIN sections = 1..Len(sections) /\ Len(sections) \in Nat
    BY <1>1, <1>5, SequenceIn DEF IsSequence
  <2>2. QED
    BY <1>1, <1>2, <1>5, <2>1
<1>6. QED
  BY <1>3, <1>4, <1>5

\* A name has one section, which is where Start says.
LEMMA SectionFound ==
  ASSUME TableInv, NEW name, NEW i \in Section(name)
  PROVE  /\ i \in 1..Len(sections) /\ sections[i].name = name
         /\ \A j \in Section(name) : j = i
         /\ PlaceIn(sections, name) = i
         /\ Start(name) = sections[i].offset
         /\ sections[i].offset \in DOMAIN image.messages
         /\ sections = image.sections /\ pc # "summary"
<1>1. /\ i \in DOMAIN sections /\ sections[i].name = name
      /\ \A j \in DOMAIN sections : sections[j].name = name => j = i
  BY ImageFacts DEF Section
<1>2. PlaceIn(sections, name) = i
  BY <1>1 DEF PlaceIn
<1>3. pc # "summary" /\ sections = image.sections
  <2>1. sections # <<>>
    BY <1>1, EmptySequence
  <2>2. QED
    BY <2>1 DEF TableInv
<1>4. QED
  BY <1>1, <1>2, <1>3, ImageFacts DEF Start, Section

\* The section of inodes holds as many as its header says.
LEMMA InodesWritten ==
  ASSUME TableInv, NEW i \in Section("INODE")
  PROVE  /\ InodeCount \in Nat
         /\ InodeCount = Scalar(image.messages[sections[i].offset], 2, 0)
         /\ \A k \in 1..InodeCount :
              /\ sections[i].offset + k \in DOMAIN image.messages
              /\ WrittenInode(k) = image.messages[sections[i].offset + k]
              /\ IsInode(WrittenInode(k)) /\ IsMessage(WrittenInode(k))
<1> DEFINE start == sections[i].offset
<1>1. /\ i \in DOMAIN image.sections /\ image.sections[i].name = "INODE"
      /\ sections = image.sections /\ Start("INODE") = start
      /\ start \in DOMAIN image.messages
  BY SectionFound, ImageFacts
<1>2. InodeCount = Scalar(image.messages[start], 2, 0)
  BY <1>1 DEF InodeCount
<1>3. /\ InodeCount \in Nat
      /\ start + InodeCount \in DOMAIN image.messages
      /\ \A p \in start + 1..start + InodeCount : IsInode(image.messages[p])
  BY <1>1, <1>2, SectionAssumption DEF TableInv
<1>4. ASSUME NEW k \in 1..InodeCount
      PROVE  /\ start + k \in DOMAIN image.messages
             /\ start + k \in start + 1..start + InodeCount
  <2>1. start \in 1..Len(image.messages) /\ start + InodeCount \in 1..Len(image.messages)
        /\ Len(image.messages) \in Nat
    BY <1>1, <1>3, ImageFacts
  <2> HIDE DEF start
  <2>2. start + k \in 1..Len(image.messages) /\ start + k \in start + 1..start + InodeCount
    BY <1>3, <2>1
  <2>3. QED
    BY <2>2, ImageFacts
<1>5. QED
  BY <1>1, <1>2, <1>3, <1>4, ImageFacts DEF WrittenInode

LEMMA StringsWritten ==
  ASSUME TableInv, NEW i \in Section("STRING_TABLE")
  PROVE  /\ StringCount \in Nat
         /\ StringCount = Scalar(image.messages[sections[i].offset], 1, 0)
         /\ \A k \in 1..StringCount : sections[i].offset + k \in DOMAIN image.messages
<1> DEFINE start == sections[i].offset
<1>1. /\ i \in DOMAIN image.sections /\ image.sections[i].name = "STRING_TABLE"
      /\ sections = image.sections /\ Start("STRING_TABLE") = start
      /\ start \in DOMAIN image.messages
  BY SectionFound, ImageFacts
<1>2. StringCount = Scalar(image.messages[start], 1, 0)
  BY <1>1 DEF StringCount
<1>3. StringCount \in Nat /\ start + StringCount \in DOMAIN image.messages
  BY <1>1, <1>2, SectionAssumption DEF TableInv
<1>4. start \in 1..Len(image.messages) /\ start + StringCount \in 1..Len(image.messages)
      /\ Len(image.messages) \in Nat
  BY <1>1, <1>3, ImageFacts
<1>5. \A k \in 1..StringCount : start + k \in 1..Len(image.messages)
  <2> HIDE DEF start
  <2>1. QED
    BY <1>3, <1>4
<1>6. QED
  BY <1>2, <1>3, <1>5, ImageFacts

\* The message a stream is at, and the place behind it.
LEMMA UpcomingMessage ==
  ASSUME TypeOK, TableInv
  PROVE  /\ IsMessage(Upcoming)
         /\ position \in DOMAIN image.messages
              => Upcoming = image.messages[position] /\ Onward = position + 1
         /\ Onward \in 1..Len(image.messages) + 1
         /\ Parent(Upcoming) # 0 => position \in DOMAIN image.messages
<1>1. position \notin DOMAIN image.messages => Parent(Upcoming) = 0
  BY NothingFound DEF Upcoming, Parent, Scalar, Has
<1>2. QED
  BY <1>1, ImageFacts, NothingFound DEF Upcoming, Onward, TypeOK

\* No step changes the image, and only the first changes the table.
LEMMA ImageKept ==
  ASSUME [Next]_vars, TableInv
  PROVE  /\ image' = image
         /\ ~ReadSummary => sections' = sections
         /\ \A name : Section(name)' = {i \in DOMAIN sections' : sections'[i].name = name}
<1>1. image' = image /\ (~ReadSummary => sections' = sections)
  BY DEF Next, vars, ReadSummary, OpenInodes, OpenStrings, OpenDirectories, SkipSection,
         ReadInode, ReadInodeAborts, ReadString, LoopEnds, ReadEntry, EntriesEnd, Return
<1>2. QED
  BY <1>1 DEF Section

\* What was written, and where, stays.
LEMMA WrittenKept ==
  ASSUME image' = image, sections' = sections
  PROVE  /\ \A name : Section(name)' = Section(name)
         /\ \A name : Start(name)' = Start(name)
         /\ InodeCount' = InodeCount /\ StringCount' = StringCount
         /\ \A k : WrittenInode(k)' = WrittenInode(k)
         /\ \A k, f : FilesWith(k, f)' = FilesWith(k, f)
         /\ \A k, part : WrittenUpTo(k, part)' = WrittenUpTo(k, part)
         /\ \A k : LastClient(k)' = LastClient(k)
<1>1. \A name : Section(name)' = Section(name)
  BY DEF Section
<1>2. \A name : Start(name)' = Start(name)
  BY DEF Start
<1>3. InodeCount' = InodeCount /\ StringCount' = StringCount
  BY <1>2 DEF InodeCount, StringCount
<1>4. \A k : WrittenInode(k)' = WrittenInode(k)
  BY <1>2 DEF WrittenInode
<1>5. \A k, f : FilesWith(k, f)' = FilesWith(k, f)
  BY <1>4 DEF FilesWith
<1>6. \A k, part : WrittenUpTo(k, part)' = WrittenUpTo(k, part)
  BY <1>4 DEF WrittenUpTo
<1>7. \A k : LastClient(k)' = LastClient(k)
  BY <1>4, <1>5 DEF LastClient
<1>8. QED
  BY <1>1, <1>2, <1>3, <1>4, <1>5, <1>6, <1>7
-----------------------------------------------------------------------------
(***************************************************************************)
(* Where main is                                                           *)
(***************************************************************************)

LEMMA InvInit == Init => Inv
<1> SUFFICES ASSUME Init PROVE Inv
  OBVIOUS
<1>1. TableInv
  <2>1. 1 \in 1..Len(sections) + 1
    BY EmptySequence DEF Init
  <2>2. QED
    BY <2>1 DEF Init, TableInv
<1>2. TypeOK
  <2>1. Len(image.messages) \in Nat
    BY <1>1, ImageFacts
  <2>2. Len(image.sections) \in Nat
    BY ImageAssumption DEF Init, IsSequence
  <2>3. QED
    BY <2>1, <2>2, NothingFound DEF Init, TypeOK
<1>3. \A name : Section(name) = {}
  BY EmptySequence DEF Init, Section
<1>4. QED
  BY <1>1, <1>2, <1>3, NoSequence
     DEF Init, Inv, PrintedInv, InodesInv, StringsInv, EntriesInv, HeldInv

\* A section that is read is one of the table, of one name.
LEMMA InSection ==
  ASSUME TypeOK, TableInv
  PROVE  /\ pc \in {"inode", "string", "entry", "aborted"} =>
              section \in 1..Len(sections) /\ section + 1 \in 1..Len(sections) + 1
         /\ pc \notin {"summary"} => sections = image.sections
         /\ pc = "string" \/ pc = "entry" => section \notin Section("INODE")
         /\ pc \in {"inode", "aborted", "entry"} => section \notin Section("STRING_TABLE")
         /\ pc \in {"inode", "aborted", "string"} => section \notin Section("INODE_DIR")
  BY ImageFacts DEF TableInv, Section

LEMMA TableStep == Inv /\ [Next]_vars => TableInv'
<1> SUFFICES ASSUME Inv, [Next]_vars PROVE TableInv'
  OBVIOUS
<1> USE DEF Inv
<1>1. CASE ReadSummary
  <2>1. Len(image.sections) \in Nat
    BY ImageAssumption DEF TableInv, IsSequence
  <2>2. QED
    BY <1>1, <2>1 DEF ReadSummary, TableInv
<1>2. CASE OpenInodes \/ OpenStrings \/ OpenDirectories
  BY <1>2 DEF OpenInodes, OpenStrings, OpenDirectories, At, TableInv, Section
<1>3. CASE SkipSection
  <2>1. section \in 1..Len(sections) /\ Len(sections) \in Nat
    BY <1>3, ImageFacts DEF SkipSection
  <2>2. section + 1 \in 1..Len(sections) + 1
    BY <2>1
  <2>3. QED
    BY <1>3, <2>2 DEF SkipSection, TableInv
<1>4. CASE ReadInode \/ ReadInodeAborts \/ ReadString \/ ReadEntry
  BY <1>4 DEF ReadInode, ReadInodeAborts, ReadString, ReadEntry, TableInv, Section
<1>5. CASE LoopEnds \/ EntriesEnd
  BY <1>5, InSection DEF LoopEnds, EntriesEnd, TableInv
<1>6. CASE Return
  <2>1. section = Len(sections) + 1
    BY <1>6, ImageFacts DEF Return, TableInv
  <2>2. QED
    BY <1>6, <2>1 DEF Return, TableInv
<1>7. CASE UNCHANGED vars
  BY <1>7 DEF vars, printed, TableInv, Section
<1>8. QED
  BY <1>1, <1>2, <1>3, <1>4, <1>5, <1>6, <1>7 DEF Next

LEMMA TypeStep == Inv /\ [Next]_vars => TypeOK'
<1> SUFFICES ASSUME Inv, [Next]_vars PROVE TypeOK'
  OBVIOUS
<1> USE DEF Inv
<1>1. /\ image' = image /\ Len(image.messages) \in Nat /\ Len(image.sections) \in Nat
      /\ sections' \in {<<>>, image.sections}
  <2>1. Len(image.sections) \in Nat
    BY ImageAssumption DEF TableInv, IsSequence
  <2>2. QED
    BY <2>1, ImageKept, ImageFacts DEF ReadSummary, TypeOK
<1>2. section' \in 1..Len(image.sections) + 1
  <2>1. TableInv'
    BY TableStep
  <2>2. CASE pc' = "summary"
    BY <1>1, <2>1, <2>2 DEF TableInv
  <2>3. CASE pc' # "summary"
    BY <1>1, <2>1, <2>3 DEF TableInv
  <2>4. QED
    BY <2>2, <2>3
<1>3. position' \in 1..Len(image.messages) + 1
  <2>1. CASE OpenInodes \/ OpenStrings \/ OpenDirectories
    <3>1. sections[section].offset \in 1..Len(image.messages)
      BY <2>1, ImageFacts DEF OpenInodes, OpenStrings, OpenDirectories, At
    <3>2. \/ position' = sections[section].offset
          \/ position' = sections[section].offset + 1
      BY <2>1 DEF OpenInodes, OpenStrings, OpenDirectories
    <3>3. QED
      BY <1>1, <3>1, <3>2
  <2>2. CASE ReadInode \/ ReadString \/ ReadEntry
    BY <2>2, UpcomingMessage DEF ReadInode, ReadString, ReadEntry
  <2>3. CASE UNCHANGED position
    BY <2>3 DEF TypeOK
  <2>4. QED
    BY <2>1, <2>2, <2>3
       DEF Next, vars, ReadSummary, SkipSection, ReadInodeAborts, LoopEnds, EntriesEnd, Return
<1>4. left' \in Nat
  <2>1. CASE OpenInodes
    <3>1. section \in Section("INODE")
      BY <2>1 DEF OpenInodes, At, Section
    <3>2. QED
      BY <2>1, <3>1, InodesWritten DEF OpenInodes
  <2>2. CASE OpenStrings
    <3>1. section \in Section("STRING_TABLE")
      BY <2>2 DEF OpenStrings, At, Section
    <3>2. QED
      BY <2>2, <3>1, StringsWritten DEF OpenStrings
  <2>3. CASE ReadInode \/ ReadString
    BY <2>3 DEF ReadInode, ReadString, TypeOK
  <2>4. CASE UNCHANGED left
    BY <2>4 DEF TypeOK
  <2>5. QED
    BY <2>1, <2>2, <2>3, <2>4
       DEF Next, vars, ReadSummary, OpenDirectories, SkipSection, ReadInodeAborts, LoopEnds,
           ReadEntry, EntriesEnd, Return
<1>5. IsMessage(inode')
  <2>1. CASE OpenInodes
    BY <2>1, NothingFound DEF OpenInodes
  <2>2. CASE ReadInode \/ ReadInodeAborts
    BY <2>2, UpcomingMessage, MergeFields DEF ReadInode, ReadInodeAborts, TypeOK
  <2>3. CASE UNCHANGED inode
    BY <2>3 DEF TypeOK
  <2>4. QED
    BY <2>1, <2>2, <2>3
       DEF Next, vars, ReadSummary, OpenStrings, OpenDirectories, SkipSection, ReadString,
           LoopEnds, ReadEntry, EntriesEnd, Return
<1>6. pc' \in {"summary", "section", "inode", "string", "entry", "done", "aborted"}
  BY DEF Next, vars, ReadSummary, OpenInodes, OpenStrings, OpenDirectories, SkipSection, TypeOK,
         ReadInode, ReadInodeAborts, ReadString, LoopEnds, ReadEntry, EntriesEnd, Return
<1>7. QED
  BY <1>1, <1>2, <1>3, <1>4, <1>5, <1>6 DEF TypeOK

LEMMA PrintedStep == Inv /\ [Next]_vars => PrintedInv'
<1> SUFFICES ASSUME Inv, [Next]_vars PROVE PrintedInv'
  OBVIOUS
<1>1. CASE ReadInode
  BY <1>1, AppendSequence DEF ReadInode, Inv, PrintedInv
<1>2. CASE ReadString
  BY <1>2, AppendSequence DEF ReadString, Inv, PrintedInv
<1>3. CASE ReadEntry
  BY <1>3, AppendSequence DEF ReadEntry, Inv, PrintedInv
<1>4. CASE UNCHANGED printed
  BY <1>4 DEF printed, Inv, PrintedInv
<1>5. QED
  BY <1>1, <1>2, <1>3, <1>4
     DEF Next, vars, ReadSummary, OpenInodes, OpenStrings, OpenDirectories, SkipSection,
         ReadInodeAborts, LoopEnds, EntriesEnd, Return

\* The step into the table finds nothing printed.
LEMMA SummaryStep ==
  ASSUME Inv, ReadSummary
  PROVE  /\ inodes' = <<>> /\ strings' = <<>> /\ entries' = <<>>
         /\ pc' = "section" /\ section' = 1
         /\ \A name : \A i \in Section(name)' : i \in Nat /\ i >= 1
<1>1. /\ inodes' = <<>> /\ strings' = <<>> /\ entries' = <<>>
      /\ pc' = "section" /\ section' = 1
  BY DEF ReadSummary, printed, Inv, TableInv, InodesInv, StringsInv, EntriesInv
<1>2. TableInv'
  BY TableStep DEF Next
<1>3. DOMAIN sections' = 1..Len(sections)' /\ Len(sections)' \in Nat
  BY <1>2, ImageFacts
<1>4. QED
  BY <1>1, <1>3 DEF Section
LEMMA InodesStep == Inv /\ [Next]_vars => InodesInv'
<1> SUFFICES ASSUME Inv, [Next]_vars PROVE InodesInv'
  OBVIOUS
<1> USE DEF Inv
<1>1. CASE ReadSummary
  BY <1>1, SummaryStep DEF InodesInv
<1>2. CASE UNCHANGED vars
  BY <1>2 DEF vars, printed, InodesInv, Section, InodeCount, Start
<1>3. ASSUME ~ReadSummary, Next PROVE InodesInv'
  <2>1. image' = image /\ sections' = sections /\ pc' # "summary"
    BY <1>3, ImageKept
       DEF Next, OpenInodes, OpenStrings, OpenDirectories, SkipSection, At,
           ReadInode, ReadInodeAborts, ReadString, LoopEnds, ReadEntry, EntriesEnd, Return
  <2> SUFFICES ASSUME NEW i \in Section("INODE")
        PROVE  /\ section' < i \/ (section' = i /\ pc' \notin {"inode", "aborted"}) => inodes' = <<>>
               /\ section' = i /\ pc' = "inode" =>
                    /\ position' = sections[i].offset + 1 + Len(inodes')
                    /\ Len(inodes') + left' = InodeCount
               /\ section' > i => Len(inodes') = InodeCount
    BY <2>1, WrittenKept DEF InodesInv
  <2>2. /\ section < i \/ (section = i /\ pc \notin {"inode", "aborted"}) => inodes = <<>>
        /\ section = i /\ pc = "inode" =>
             /\ position = sections[i].offset + 1 + Len(inodes)
             /\ Len(inodes) + left = InodeCount
        /\ section > i => Len(inodes) = InodeCount
    BY DEF InodesInv
  <2>3. /\ i \in Nat /\ section \in Nat
        /\ section \in DOMAIN sections /\ sections[section].name = "INODE" => section = i
        /\ pc = "inode" => section = i
        /\ sections[i].name = "INODE" /\ sections[i].offset \in Nat
    <3>1. i \in 1..Len(sections) /\ Len(sections) \in Nat
      BY SectionFound, ImageFacts
    <3>2. sections[i].offset \in 1..Len(image.messages) /\ Len(image.messages) \in Nat
      BY SectionFound, ImageFacts
    <3>3. section \in DOMAIN sections /\ sections[section].name = "INODE" => section = i
      BY SectionFound DEF Section
    <3>4. pc = "inode" => section = i
      BY SectionFound DEF TableInv
    <3>5. QED
      BY <3>1, <3>2, <3>3, <3>4, SectionFound DEF TableInv
  <2>4. /\ IsSequence(inodes) /\ Len(inodes) \in Nat /\ left \in Nat
        /\ InodeCount = Scalar(image.messages[sections[i].offset], 2, 0)
        /\ InodeCount \in Nat
    BY InodesWritten DEF PrintedInv, TypeOK, IsSequence
  <2>5. CASE OpenInodes
    <3>1. section = i /\ inodes = <<>> /\ section' = section /\ inodes' = inodes
      BY <2>2, <2>3, <2>5 DEF OpenInodes, At, printed
    <3>2. position' = sections[i].offset + 1 /\ left' = InodeCount /\ pc' = "inode"
      BY <2>4, <2>5, <3>1 DEF OpenInodes
    <3>3. QED
      BY <2>3, <2>4, <3>1, <3>2, EmptySequence
  <2>6. CASE ReadInode
    <3>1. section = i /\ section' = section /\ pc = "inode" /\ pc' = "inode"
          /\ left > 0 /\ left' = left - 1
      BY <2>3, <2>6 DEF ReadInode
    <3>2. Len(inodes') = Len(inodes) + 1
      BY <2>4, <2>6, AppendSequence DEF ReadInode
    <3>3. position' = position + 1
      <4>1. position = sections[i].offset + (Len(inodes) + 1) /\ Len(inodes) + 1 \in 1..InodeCount
        BY <2>2, <2>3, <2>4, <3>1
      <4>2. position \in DOMAIN image.messages
        BY <4>1, InodesWritten
      <4>3. QED
        BY <2>6, <4>2, UpcomingMessage DEF ReadInode
    <3>4. QED
      <4>1. position' = sections[i].offset + 1 + Len(inodes') /\ Len(inodes') + left' = InodeCount
        <5>1. position = sections[i].offset + 1 + Len(inodes) /\ Len(inodes) + left = InodeCount
          BY <2>2, <3>1
        <5>2. sections[i].offset \in Nat /\ Len(inodes) \in Nat /\ left \in Nat
          BY <2>3, <2>4
        <5>3. position' = sections[i].offset + 1 + Len(inodes')
          BY <3>2, <3>3, <5>1, <5>2
        <5>4. QED
          BY <3>1, <3>2, <5>1, <5>2, <5>3
      <4>2. ~(section' < i) /\ ~(section' > i)
        BY <2>3, <3>1
      <4>3. QED
        BY <3>1, <4>1, <4>2
  <2>7. CASE ReadInodeAborts
    BY <2>2, <2>3, <2>7 DEF ReadInodeAborts, printed
  <2>8. CASE LoopEnds /\ pc = "inode"
    BY <2>2, <2>3, <2>4, <2>8 DEF LoopEnds, printed
  <2>9. CASE SkipSection \/ (LoopEnds /\ pc # "inode") \/ EntriesEnd
    <3>1. section # i /\ section' = section + 1 /\ pc' = "section" /\ inodes' = inodes
      <4>1. CASE SkipSection
        BY <2>3, <4>1 DEF SkipSection, printed
      <4>2. CASE (LoopEnds /\ pc # "inode") \/ EntriesEnd
        BY <4>2, InSection DEF LoopEnds, EntriesEnd, printed
      <4>3. QED
        BY <2>9, <4>1, <4>2
    <3>2. QED
      BY <2>2, <2>3, <3>1
  <2>10. CASE OpenStrings \/ OpenDirectories \/ ReadString \/ ReadEntry
    <3>1. section # i /\ section' = section /\ inodes' = inodes
      BY <2>3, <2>10, InSection
         DEF OpenStrings, OpenDirectories, ReadString, ReadEntry, At, printed
    <3>2. QED
      BY <2>2, <2>3, <3>1
  <2>11. CASE Return
    BY <2>2, <2>3, <2>11 DEF Return, printed
  <2>12. QED
    BY <1>3, <2>5, <2>6, <2>7, <2>8, <2>9, <2>10, <2>11 DEF Next
<1>4. QED
  BY <1>1, <1>2, <1>3

LEMMA StringsStep == Inv /\ [Next]_vars => StringsInv'
<1> SUFFICES ASSUME Inv, [Next]_vars PROVE StringsInv'
  OBVIOUS
<1> USE DEF Inv
<1>1. CASE ReadSummary
  BY <1>1, SummaryStep DEF StringsInv
<1>2. CASE UNCHANGED vars
  BY <1>2 DEF vars, printed, StringsInv, Section, StringCount, Start
<1>3. ASSUME ~ReadSummary, Next PROVE StringsInv'
  <2>1. image' = image /\ sections' = sections /\ pc' # "summary"
    BY <1>3, ImageKept
       DEF Next, OpenInodes, OpenStrings, OpenDirectories, SkipSection, At,
           ReadInode, ReadInodeAborts, ReadString, LoopEnds, ReadEntry, EntriesEnd, Return
  <2> SUFFICES ASSUME NEW i \in Section("STRING_TABLE")
        PROVE  /\ section' < i \/ (section' = i /\ pc' # "string") => strings' = <<>>
               /\ section' = i /\ pc' = "string" =>
                    /\ position' = sections[i].offset + 1 + Len(strings')
                    /\ Len(strings') + left' = StringCount
               /\ section' > i => Len(strings') = StringCount
    BY <2>1, WrittenKept DEF StringsInv
  <2>2. /\ section < i \/ (section = i /\ pc # "string") => strings = <<>>
        /\ section = i /\ pc = "string" =>
             /\ position = sections[i].offset + 1 + Len(strings)
             /\ Len(strings) + left = StringCount
        /\ section > i => Len(strings) = StringCount
    BY DEF StringsInv
  <2>3. /\ i \in Nat /\ section \in Nat
        /\ section \in DOMAIN sections /\ sections[section].name = "STRING_TABLE" => section = i
        /\ pc = "string" => section = i
        /\ sections[i].name = "STRING_TABLE" /\ sections[i].offset \in Nat
    <3>1. i \in 1..Len(sections) /\ Len(sections) \in Nat
      BY SectionFound, ImageFacts
    <3>2. sections[i].offset \in 1..Len(image.messages) /\ Len(image.messages) \in Nat
      BY SectionFound, ImageFacts
    <3>3. section \in DOMAIN sections /\ sections[section].name = "STRING_TABLE" => section = i
      BY SectionFound DEF Section
    <3>4. pc = "string" => section = i
      BY SectionFound DEF TableInv
    <3>5. QED
      BY <3>1, <3>2, <3>3, <3>4, SectionFound DEF TableInv
  <2>4. /\ IsSequence(strings) /\ Len(strings) \in Nat /\ left \in Nat
        /\ StringCount = Scalar(image.messages[sections[i].offset], 1, 0)
        /\ StringCount \in Nat
    BY StringsWritten DEF PrintedInv, TypeOK, IsSequence
  <2>5. CASE OpenStrings
    <3>1. section = i /\ strings = <<>> /\ section' = section /\ strings' = strings
      BY <2>2, <2>3, <2>5 DEF OpenStrings, At, printed
    <3>2. position' = sections[i].offset + 1 /\ left' = StringCount /\ pc' = "string"
      BY <2>4, <2>5, <3>1 DEF OpenStrings
    <3>3. QED
      BY <2>3, <2>4, <3>1, <3>2, EmptySequence
  <2>6. CASE ReadString
    <3>1. section = i /\ section' = section /\ pc = "string" /\ pc' = "string"
          /\ left > 0 /\ left' = left - 1
      BY <2>3, <2>6 DEF ReadString
    <3>2. Len(strings') = Len(strings) + 1
      BY <2>4, <2>6, AppendSequence DEF ReadString
    <3>3. position' = position + 1
      <4>1. position = sections[i].offset + (Len(strings) + 1) /\ Len(strings) + 1 \in 1..StringCount
        BY <2>2, <2>3, <2>4, <3>1
      <4>2. position \in DOMAIN image.messages
        BY <4>1, StringsWritten
      <4>3. QED
        BY <2>6, <4>2, UpcomingMessage DEF ReadString
    <3>4. QED
      <4>1. position' = sections[i].offset + 1 + Len(strings') /\ Len(strings') + left' = StringCount
        <5>1. position = sections[i].offset + 1 + Len(strings) /\ Len(strings) + left = StringCount
          BY <2>2, <3>1
        <5>2. sections[i].offset \in Nat /\ Len(strings) \in Nat /\ left \in Nat
          BY <2>3, <2>4
        <5>3. position' = sections[i].offset + 1 + Len(strings')
          BY <3>2, <3>3, <5>1, <5>2
        <5>4. QED
          BY <3>1, <3>2, <5>1, <5>2, <5>3
      <4>2. ~(section' < i) /\ ~(section' > i)
        BY <2>3, <3>1
      <4>3. QED
        BY <3>1, <4>1, <4>2
  <2>7. CASE LoopEnds /\ pc = "string"
    BY <2>2, <2>3, <2>4, <2>7 DEF LoopEnds, printed
  <2>8. CASE SkipSection \/ (LoopEnds /\ pc # "string") \/ EntriesEnd
    <3>1. section # i /\ section' = section + 1 /\ pc' = "section" /\ strings' = strings
      <4>1. CASE SkipSection
        BY <2>3, <4>1 DEF SkipSection, printed
      <4>2. CASE (LoopEnds /\ pc # "string") \/ EntriesEnd
        BY <4>2, InSection DEF LoopEnds, EntriesEnd, printed
      <4>3. QED
        BY <2>8, <4>1, <4>2
    <3>2. QED
      BY <2>2, <2>3, <3>1
  <2>9. CASE OpenInodes \/ OpenDirectories \/ ReadInode \/ ReadInodeAborts \/ ReadEntry
    <3>1. section # i /\ section' = section /\ strings' = strings
      BY <2>3, <2>9, InSection
         DEF OpenInodes, OpenDirectories, ReadInode, ReadInodeAborts, ReadEntry, At, printed
    <3>2. QED
      BY <2>2, <2>3, <3>1
  <2>10. CASE Return
    BY <2>2, <2>3, <2>10 DEF Return, printed
  <2>11. QED
    BY <1>3, <2>5, <2>6, <2>7, <2>8, <2>9, <2>10 DEF Next
<1>4. QED
  BY <1>1, <1>2, <1>3

LEMMA EntriesStep == Inv /\ [Next]_vars => EntriesInv'
<1> SUFFICES ASSUME Inv, [Next]_vars PROVE EntriesInv'
  OBVIOUS
<1> USE DEF Inv
<1>1. CASE ReadSummary
  BY <1>1, SummaryStep DEF EntriesInv
<1>2. CASE UNCHANGED vars
  BY <1>2 DEF vars, printed, EntriesInv, Section
<1>3. ASSUME ~ReadSummary, Next PROVE EntriesInv'
  <2>1. image' = image /\ sections' = sections /\ pc' # "summary"
    BY <1>3, ImageKept
       DEF Next, OpenInodes, OpenStrings, OpenDirectories, SkipSection, At,
           ReadInode, ReadInodeAborts, ReadString, LoopEnds, ReadEntry, EntriesEnd, Return
  <2> DEFINE start(i) == sections[i].offset
  <2> SUFFICES ASSUME NEW i \in Section("INODE_DIR")
        PROVE  /\ section' < i \/ (section' = i /\ pc' # "entry") => entries' = <<>>
               /\ section' = i /\ pc' = "entry" =>
                    /\ position' \in DOMAIN image.messages
                    /\ position' = start(i) + Len(entries')
               /\ section' > i => Parent(image.messages[start(i) + Len(entries')]) = 0
    BY <2>1, WrittenKept DEF EntriesInv
  <2>2. /\ section < i \/ (section = i /\ pc # "entry") => entries = <<>>
        /\ section = i /\ pc = "entry" =>
             /\ position \in DOMAIN image.messages
             /\ position = start(i) + Len(entries)
        /\ section > i => Parent(image.messages[start(i) + Len(entries)]) = 0
    BY DEF EntriesInv
  <2>3. /\ i \in Nat /\ section \in Nat
        /\ section \in DOMAIN sections /\ sections[section].name = "INODE_DIR" => section = i
        /\ pc = "entry" => section = i
        /\ sections[i].name = "INODE_DIR"
        /\ start(i) \in Nat /\ start(i) \in DOMAIN image.messages
    <3>1. i \in 1..Len(sections) /\ Len(sections) \in Nat
      BY SectionFound, ImageFacts
    <3>2. start(i) \in 1..Len(image.messages) /\ Len(image.messages) \in Nat
      BY SectionFound, ImageFacts
    <3>3. section \in DOMAIN sections /\ sections[section].name = "INODE_DIR" => section = i
      BY SectionFound DEF Section
    <3>4. pc = "entry" => section = i
      BY SectionFound DEF TableInv
    <3>5. QED
      BY <3>1, <3>2, <3>3, <3>4, SectionFound DEF TableInv
  <2>4. IsSequence(entries) /\ Len(entries) \in Nat
    BY DEF PrintedInv, IsSequence
  <2>5. CASE OpenDirectories
    <3>1. section = i /\ entries = <<>> /\ section' = section /\ entries' = entries
      BY <2>2, <2>3, <2>5 DEF OpenDirectories, At, printed
    <3>2. position' = start(i) /\ pc' = "entry"
      BY <2>5, <3>1 DEF OpenDirectories
    <3> HIDE DEF start
    <3>3. QED
      BY <2>3, <3>1, <3>2, EmptySequence
  <2>6. CASE ReadEntry
    <3>1. section = i /\ section' = section /\ pc' = "entry"
      BY <2>3, <2>6 DEF ReadEntry
    <3>2. Len(entries') = Len(entries) + 1
      BY <2>4, <2>6, AppendSequence DEF ReadEntry
    <3>3. position \in DOMAIN image.messages /\ position = start(i) + Len(entries)
      BY <2>2, <2>6, <3>1 DEF ReadEntry
    <3>4. position' = position + 1 /\ Upcoming = image.messages[position]
      BY <2>6, <3>3, UpcomingMessage DEF ReadEntry
    <3>5. position' \in DOMAIN image.messages
      <4>1. Len(image.messages) \in Nat /\ DOMAIN image.messages = 1..Len(image.messages)
        BY ImageFacts
      <4>2. position # Len(image.messages)
        <5>1. SUFFICES ASSUME position = Len(image.messages) PROVE FALSE
          OBVIOUS
        <5>2. Upcoming = Nothing
          <6>1. image.messages # <<>>
            BY <3>3, EmptySequence
          <6>2. QED
            BY <3>4, <5>1, <6>1, ImageFacts DEF Last
        <5>3. Parent(Upcoming) = 0
          BY <5>2, NothingFound DEF Parent, Scalar, Has
        <5>4. QED
          BY <2>6, <5>3 DEF ReadEntry
      <4>3. QED
        BY <3>3, <3>4, <4>1, <4>2
    <3> HIDE DEF start
    <3>6. QED
      BY <2>3, <2>4, <3>1, <3>2, <3>3, <3>4, <3>5
  <2>7. CASE EntriesEnd
    <3>1. section = i /\ section' = section + 1 /\ entries' = entries
      BY <2>3, <2>7 DEF EntriesEnd, printed
    <3>2. Parent(image.messages[start(i) + Len(entries)]) = 0
      BY <2>2, <2>7, <3>1, UpcomingMessage DEF EntriesEnd
    <3>3. QED
      BY <2>3, <3>1, <3>2
  <2>8. CASE SkipSection \/ LoopEnds
    <3>1. section # i /\ section' = section + 1 /\ pc' = "section" /\ entries' = entries
      <4>1. CASE SkipSection
        BY <2>3, <4>1 DEF SkipSection, printed
      <4>2. CASE LoopEnds
        BY <4>2, InSection DEF LoopEnds, printed
      <4>3. QED
        BY <2>8, <4>1, <4>2
    <3> HIDE DEF start
    <3>2. QED
      BY <2>2, <2>3, <3>1
  <2>9. CASE OpenInodes \/ OpenStrings \/ ReadInode \/ ReadInodeAborts \/ ReadString
    <3>1. section # i /\ section' = section /\ entries' = entries
      BY <2>3, <2>9, InSection
         DEF OpenInodes, OpenStrings, ReadInode, ReadInodeAborts, ReadString, At, printed
    <3>2. QED
      BY <2>2, <2>3, <3>1
  <2>10. CASE Return
    BY <2>2, <2>3, <2>10 DEF Return, printed
  <2>11. QED
    BY <1>3, <2>5, <2>6, <2>7, <2>8, <2>9, <2>10 DEF Next
<1>4. QED
  BY <1>1, <1>2, <1>3
-----------------------------------------------------------------------------
(***************************************************************************)
(* What the inode message holds                                            *)
(***************************************************************************)

LEMMA NothingMerged ==
  IsMessage(Merged(<<>>)) /\ \A f : Repeated(Merged(<<>>), f) = <<>>
  BY DEF Merged, IsMessage, Repeated

\* An inode of the image has at most one message of each kind.
LEMMA InodeParts ==
  ASSUME NEW w, IsMessage(w), IsInode(w)
  PROVE  /\ Has(w, 1) /\ Has(w, 2) /\ Has(w, 3)
         /\ Has(w, 4) => IsOne(w, 4)
         /\ Has(w, 5) => IsOne(w, 5)
         /\ Has(FileOf(w), 7) => IsOne(FileOf(w), 7) /\ Has(Embedded(FileOf(w), 7), 1)
         /\ Has(FileOf(w), 8) => IsOne(FileOf(w), 8)
         /\ Type(w) = FILE => Has(FileOf(w), 5)
         /\ Type(w) = DIRECTORY => Has(DirectoryOf(w), 4)
         /\ Type(w) # FILE => \A f : Repeated(FileOf(w), f) = <<>>
<1>1. Type(w) # FILE => \A f : Repeated(FileOf(w), f) = <<>>
  <2>1. Type(w) # FILE => Repeated(w, 4) = <<>>
    BY DEF IsInode, Has
  <2>2. QED
    BY <2>1, NothingMerged DEF FileOf, Embedded
<1>2. QED
  BY <1>1 DEF IsInode, Has

\* Of a field that is not repeated the value written last counts.
LEMMA ScalarOfMerged ==
  ASSUME NEW M, NEW m, NEW w, NEW f,
         IsMessage(m), IsMessage(w),
         Repeated(M, f) = Repeated(m, f) \o Repeated(w, f)
  PROVE  /\ Has(w, f) => \A none : Scalar(M, f, none) = Scalar(w, f, none)
         /\ ~Has(w, f) => \A none : Scalar(M, f, none) = Scalar(m, f, none)
         /\ Has(M, f) <=> Has(m, f) \/ Has(w, f)
<1>1. IsSequence(Repeated(m, f)) /\ IsSequence(Repeated(w, f))
  BY RepeatedSequence
<1>2. Has(M, f) <=> Has(m, f) \/ Has(w, f)
  BY <1>1, ConcatSequence DEF Has
<1>3. CASE Has(w, f)
  BY <1>1, <1>2, <1>3, ConcatSequence DEF Has, Scalar
<1>4. CASE ~Has(w, f)
  BY <1>1, <1>2, <1>4, ConcatSequence DEF Has, Scalar
<1>5. QED
  BY <1>2, <1>3, <1>4

\* What an inode of the image says of its contents.
LEMMA ContentsOf ==
  ASSUME NEW w, IsMessage(w), IsInode(w)
  PROVE  /\ Contents(w).blocks = Repeated(FileOf(w), 6)
         /\ Contents(w).acl = Repeated(Embedded(FileOf(w), 8), 2)
         /\ Has(FileOf(w), 7) =>
              Contents(w).client = Scalar(Embedded(FileOf(w), 7), 1, "")
<1>1. CASE Type(w) = FILE
  BY <1>1 DEF Contents
<1>2. CASE Type(w) # FILE
  <2>1. \A f : Repeated(FileOf(w), f) = <<>>
    BY <1>2, InodeParts
  <2>2. Repeated(Embedded(FileOf(w), 8), 2) = <<>> /\ ~Has(FileOf(w), 7)
    BY <2>1, NothingMerged DEF Embedded, Has
  <2>3. QED
    BY <1>2, <2>1, <2>2 DEF Contents
<1>3. QED
  BY <1>1, <1>2

\* The parts of the inode message are messages.
Parts(m) ==
  /\ IsMessage(FileOf(m)) /\ IsMessage(DirectoryOf(m))
  /\ IsMessage(Embedded(FileOf(m), 7)) /\ IsMessage(Embedded(FileOf(m), 8))

\* In M the identity of w has taken the place of that in m, and its contents
\* come behind those in m.
Joined(M, m, w) ==
  /\ Parts(M) /\ Parts(w)
  /\ Identity(M) = Identity(w)
  /\ \A f : Repeated(FileOf(M), f) = Repeated(FileOf(m), f) \o Repeated(FileOf(w), f)
  /\ \A f, g : f \in {7, 8} =>
       Repeated(Embedded(FileOf(M), f), g)
         = Repeated(Embedded(FileOf(m), f), g) \o Repeated(Embedded(FileOf(w), f), g)

LEMMA InodeMerged ==
  ASSUME NEW m, IsMessage(m), Parts(m), NEW w, IsMessage(w), IsInode(w)
  PROVE  Joined(Merge(m, w), m, w)
<1> DEFINE M == Merge(m, w)
<1>1. IsMessage(M) /\ \A f : Repeated(M, f) = Repeated(m, f) \o Repeated(w, f)
  BY MergeFields
<1> HIDE DEF M
<1>2. \A f : IsSequence(Repeated(m, f))
  BY RepeatedSequence
<1>3. /\ IsMessage(FileOf(M)) /\ IsMessage(FileOf(w))
      /\ \A f : Repeated(FileOf(M), f) = Repeated(FileOf(m), f) \o Repeated(FileOf(w), f)
  <2>1. /\ Repeated(M, 4) = Repeated(m, 4) \o Repeated(w, 4)
        /\ IsSequence(Repeated(m, 4)) /\ IsMessage(Embedded(m, 4))
        /\ Has(w, 4) => IsOne(w, 4)
    BY <1>1, <1>2, InodeParts DEF FileOf, Parts
  <2>2. /\ IsMessage(Embedded(M, 4)) /\ IsMessage(Embedded(w, 4))
        /\ Adds(Embedded(M, 4), Embedded(m, 4), Embedded(w, 4))
    BY <2>1, EmbeddedMerged
  <2>3. QED
    BY <2>2 DEF Adds, FileOf
<1>4. /\ IsMessage(DirectoryOf(M)) /\ IsMessage(DirectoryOf(w))
      /\ \A f : Repeated(DirectoryOf(M), f)
                  = Repeated(DirectoryOf(m), f) \o Repeated(DirectoryOf(w), f)
  <2>1. /\ Repeated(M, 5) = Repeated(m, 5) \o Repeated(w, 5)
        /\ IsSequence(Repeated(m, 5)) /\ IsMessage(Embedded(m, 5))
        /\ Has(w, 5) => IsOne(w, 5)
    BY <1>1, <1>2, InodeParts DEF DirectoryOf, Parts
  <2>2. /\ IsMessage(Embedded(M, 5)) /\ IsMessage(Embedded(w, 5))
        /\ Adds(Embedded(M, 5), Embedded(m, 5), Embedded(w, 5))
    BY <2>1, EmbeddedMerged
  <2>3. QED
    BY <2>2 DEF Adds, DirectoryOf
<1>5. \A f : IsSequence(Repeated(FileOf(m), f))
  BY RepeatedSequence DEF Parts
<1>6. ASSUME NEW f \in {7, 8}
      PROVE  /\ IsMessage(Embedded(FileOf(M), f)) /\ IsMessage(Embedded(FileOf(w), f))
             /\ \A g : Repeated(Embedded(FileOf(M), f), g)
                  = Repeated(Embedded(FileOf(m), f), g) \o Repeated(Embedded(FileOf(w), f), g)
  <2>1. /\ Repeated(FileOf(M), f) = Repeated(FileOf(m), f) \o Repeated(FileOf(w), f)
        /\ IsSequence(Repeated(FileOf(m), f)) /\ IsMessage(Embedded(FileOf(m), f))
        /\ Has(FileOf(w), f) => IsOne(FileOf(w), f)
    BY <1>3, <1>5, InodeParts DEF Parts
  <2> DEFINE a == FileOf(M)
             b == FileOf(m)
             c == FileOf(w)
  <2>2. /\ Repeated(a, f) = Repeated(b, f) \o Repeated(c, f)
        /\ IsSequence(Repeated(b, f)) /\ IsMessage(Embedded(b, f))
        /\ Has(c, f) => IsOne(c, f)
    BY <2>1
  <2> HIDE DEF a, b, c
  <2>3. /\ IsMessage(Embedded(a, f)) /\ IsMessage(Embedded(c, f))
        /\ Adds(Embedded(a, f), Embedded(b, f), Embedded(c, f))
    BY <2>2, EmbeddedMerged
  <2>4. QED
    BY <2>3 DEF Adds, a, b, c
<1>7. Type(M) = Type(w) /\ Scalar(M, 2, 0) = Scalar(w, 2, 0) /\ Scalar(M, 3, "") = Scalar(w, 3, "")
  <2>1. Has(w, 1) /\ Has(w, 2) /\ Has(w, 3)
    BY InodeParts
  <2>2. ASSUME NEW f, Has(w, f)
        PROVE  \A none : Scalar(M, f, none) = Scalar(w, f, none)
    <3>1. Repeated(M, f) = Repeated(m, f) \o Repeated(w, f)
      BY <1>1
    <3>2. QED
      BY <2>2, <3>1, ScalarOfMerged
  <2>3. QED
    BY <2>1, <2>2 DEF Type
<1>8. Type(w) = FILE => Scalar(FileOf(M), 5, 0) = Scalar(FileOf(w), 5, 0)
  <2>1. Type(w) = FILE => Has(FileOf(w), 5)
    BY InodeParts
  <2>2. IsMessage(FileOf(m)) /\ IsMessage(FileOf(w))
    BY <1>3 DEF Parts
  <2>3. Repeated(FileOf(M), 5) = Repeated(FileOf(m), 5) \o Repeated(FileOf(w), 5)
    BY <1>3
  <2>4. Has(FileOf(w), 5) => Scalar(FileOf(M), 5, 0) = Scalar(FileOf(w), 5, 0)
    BY <2>2, <2>3, ScalarOfMerged
  <2>5. QED
    BY <2>1, <2>4
<1>9. Type(w) = DIRECTORY => Scalar(DirectoryOf(M), 4, 0) = Scalar(DirectoryOf(w), 4, 0)
  <2>1. Type(w) = DIRECTORY => Has(DirectoryOf(w), 4)
    BY InodeParts
  <2>2. IsMessage(DirectoryOf(m)) /\ IsMessage(DirectoryOf(w))
    BY <1>4 DEF Parts
  <2>3. Repeated(DirectoryOf(M), 4) = Repeated(DirectoryOf(m), 4) \o Repeated(DirectoryOf(w), 4)
    BY <1>4
  <2>4. Has(DirectoryOf(w), 4) => Scalar(DirectoryOf(M), 4, 0) = Scalar(DirectoryOf(w), 4, 0)
    BY <2>2, <2>3, ScalarOfMerged
  <2>5. QED
    BY <2>1, <2>4
<1>10. Identity(M) = Identity(w)
  BY <1>7, <1>8, <1>9 DEF Identity
<1>11. Parts(M) /\ Parts(w)
  BY <1>3, <1>4, <1>6 DEF Parts
<1>12. QED
  <2>1. Joined(M, m, w)
    BY <1>3, <1>6, <1>10, <1>11 DEF Joined
  <2>2. QED
    BY <2>1 DEF M

\* The k-th inode adds to what was written up to there.
LEMMA UpToNext ==
  ASSUME NEW k \in Nat, NEW part, IsSequence(Contents(WrittenInode(k + 1))[part])
  PROVE  WrittenUpTo(k + 1, part) = WrittenUpTo(k, part) \o Contents(WrittenInode(k + 1))[part]
<1> DEFINE c(j) == Contents(WrittenInode(j))[part]
           q == [j \in 1..k |-> c(j)]
           r == [j \in 1..k + 1 |-> c(j)]
           S == {c(j) : j \in 1..k + 1}
<1> HIDE DEF c
<1>1. q \in Seq(S) /\ Len(q) = k /\ r \in Seq(S) /\ Len(r) = k + 1
  OBVIOUS
<1>2. <<c(k + 1)>> \in Seq(S)
  OBVIOUS
<1>3. r = q \o <<c(k + 1)>>
  <2>1. \A j \in 1..k + 1 : r[j] = IF j = k + 1 THEN c(k + 1) ELSE q[j]
    OBVIOUS
  <2> HIDE DEF q, r, S
  <2>2. /\ q \o <<c(k + 1)>> \in Seq(S) /\ Len(q \o <<c(k + 1)>>) = k + 1
        /\ \A j \in 1..k + 1 : (q \o <<c(k + 1)>>)[j] = IF j = k + 1 THEN c(k + 1) ELSE q[j]
    BY <1>1, <1>2, ConcatProperties
  <2>3. QED
    BY <1>1, <2>1, <2>2, SeqEqual
<1>4. IsSequence(q) /\ IsSequence(c(k + 1))
  BY <1>1, SequenceOf DEF c
<1>5. FlattenSeq(q \o <<c(k + 1)>>) = FlattenSeq(q) \o c(k + 1)
  <2> HIDE DEF q
  <2>1. QED
    BY <1>4, FlattenAppend
<1>6. FlattenSeq(r) = FlattenSeq(q) \o c(k + 1)
  <2> HIDE DEF q, r
  <2>1. QED
    BY <1>3, <1>5
<1>7. QED
  BY <1>6 DEF WrittenUpTo, c

LEMMA UpToNone == \A part : WrittenUpTo(0, part) = <<>>
<1>1. ASSUME NEW part PROVE WrittenUpTo(0, part) = <<>>
  <2>1. [j \in 1..0 |-> Contents(WrittenInode(j))[part]] = <<>>
    OBVIOUS
  <2>2. QED
    BY <2>1, NoSequence, FlattenAppend DEF WrittenUpTo
<1>2. QED
  BY <1>1

LEMMA FilesNext ==
  ASSUME NEW k \in Nat, NEW f
  PROVE  /\ FilesWith(0, f) = {} /\ FilesWith(k, f) \subseteq 1..k
         /\ FilesWith(k + 1, f) = FilesWith(k, f)
              \cup (IF Has(FileOf(WrittenInode(k + 1)), f) THEN {k + 1} ELSE {})
  BY DEF FilesWith

LEMMA LastClientNext ==
  ASSUME NEW k \in Nat
  PROVE  /\ LastClient(0) = ""
         /\ LastClient(k + 1) = IF Has(FileOf(WrittenInode(k + 1)), 7)
                                THEN Contents(WrittenInode(k + 1)).client
                                ELSE LastClient(k)
<1>1. LastClient(0) = ""
  BY FilesNext DEF LastClient
<1>2. CASE Has(FileOf(WrittenInode(k + 1)), 7)
  <2>1. FilesWith(k + 1, 7) = FilesWith(k, 7) \cup {k + 1} /\ FilesWith(k, 7) \subseteq 1..k
    BY <1>2, FilesNext
  <2>2. Max(FilesWith(k + 1, 7)) = k + 1
    <3>1. k + 1 \in FilesWith(k + 1, 7) /\ \A x \in FilesWith(k + 1, 7) : x \in Nat /\ k + 1 >= x
      BY <2>1
    <3>2. \A y \in FilesWith(k + 1, 7) :
            (\A x \in FilesWith(k + 1, 7) : y >= x) => y = k + 1
      BY <3>1
    <3>3. QED
      BY <3>1, <3>2 DEF Max
  <2>3. QED
    BY <1>1, <1>2, <2>1, <2>2 DEF LastClient
<1>3. CASE ~Has(FileOf(WrittenInode(k + 1)), 7)
  <2>1. FilesWith(k + 1, 7) = FilesWith(k, 7) \cup {}
    BY <1>3, FilesNext
  <2>2. QED
    BY <1>1, <1>3, <2>1 DEF LastClient
<1>4. QED
  BY <1>2, <1>3
-----------------------------------------------------------------------------
(***************************************************************************)
(* The loop over inodes                                                    *)
(***************************************************************************)

\* The next inode is at the stream.
LEMMA InodeUpcoming ==
  ASSUME Inv, pc = "inode", left > 0
  PROVE  LET k == Len(inodes) + 1
         IN  /\ Len(inodes) \in Nat /\ k \in 1..InodeCount
             /\ Upcoming = WrittenInode(k)
             /\ IsMessage(WrittenInode(k)) /\ IsInode(WrittenInode(k))
<1> DEFINE k == Len(inodes) + 1
<1>1. section \in Section("INODE")
  BY DEF Inv, TableInv
<1>2. /\ position = sections[section].offset + 1 + Len(inodes)
      /\ Len(inodes) + left = InodeCount
  BY <1>1 DEF Inv, InodesInv
<1>3. Len(inodes) \in Nat /\ left \in Nat
  BY DEF Inv, PrintedInv, IsSequence, TypeOK
<1>4. /\ InodeCount \in Nat
      /\ \A j \in 1..InodeCount :
           /\ sections[section].offset + j \in DOMAIN image.messages
           /\ WrittenInode(j) = image.messages[sections[section].offset + j]
           /\ IsInode(WrittenInode(j)) /\ IsMessage(WrittenInode(j))
  BY <1>1, InodesWritten DEF Inv
<1>5. k \in 1..InodeCount
  BY <1>2, <1>3, <1>4
<1>6. sections[section].offset \in Nat
  BY <1>1, SectionFound, ImageFacts DEF Inv
<1>7. position = sections[section].offset + k
  BY <1>2, <1>3, <1>6
<1>8. QED
  BY <1>3, <1>4, <1>5, <1>7 DEF Upcoming

\* What the message holds when the next inode has been parsed into it.
LEMMA HeldNext ==
  ASSUME Inv, pc = "inode", left > 0
  PROVE  LET M == Merge(inode, Upcoming)
             k == Len(inodes) + 1
         IN  /\ Held(M, k) /\ OwnLast(k)
             /\ Identity(M) = Identity(WrittenInode(k))
<1> DEFINE n == Len(inodes)
           w == WrittenInode(n + 1)
           M == Merge(inode, Upcoming)
<1>1. n \in Nat /\ Upcoming = w /\ IsMessage(w) /\ IsInode(w)
  BY InodeUpcoming
<1>2. Held(inode, n) /\ IsMessage(inode)
  BY DEF Inv, HeldInv, TypeOK
<1>3. Parts(inode)
  BY <1>2 DEF Held, Parts
<1> HIDE DEF n, w
<1>4. Joined(M, inode, w)
  <2>1. Joined(Merge(inode, w), inode, w)
    BY <1>1, <1>2, <1>3, InodeMerged
  <2>2. QED
    BY <1>1, <2>1
<1> HIDE DEF M
<1>5. /\ Parts(M) /\ Parts(w)
      /\ Identity(M) = Identity(w)
      /\ \A f : Repeated(FileOf(M), f) = Repeated(FileOf(inode), f) \o Repeated(FileOf(w), f)
      /\ \A f, g : f \in {7, 8} =>
           Repeated(Embedded(FileOf(M), f), g)
             = Repeated(Embedded(FileOf(inode), f), g) \o Repeated(Embedded(FileOf(w), f), g)
  BY <1>4 DEF Joined
<1>6. /\ Contents(w).blocks = Repeated(FileOf(w), 6)
      /\ Contents(w).acl = Repeated(Embedded(FileOf(w), 8), 2)
      /\ Has(FileOf(w), 7) => Contents(w).client = Scalar(Embedded(FileOf(w), 7), 1, "")
  BY <1>1, ContentsOf
<1>7. Repeated(FileOf(M), 6) = WrittenUpTo(n + 1, "blocks")
  <2>1. IsSequence(Contents(w).blocks)
    BY <1>5, <1>6, RepeatedSequence DEF Parts
  <2>2. WrittenUpTo(n + 1, "blocks") = WrittenUpTo(n, "blocks") \o Contents(w).blocks
    BY <1>1, <2>1, UpToNext DEF w
  <2>3. Repeated(FileOf(inode), 6) = WrittenUpTo(n, "blocks")
    BY <1>2 DEF Held
  <2>4. QED
    BY <1>5, <1>6, <2>2, <2>3
<1>8. Repeated(Embedded(FileOf(M), 8), 2) = WrittenUpTo(n + 1, "acl")
  <2>1. IsSequence(Contents(w).acl)
    BY <1>5, <1>6, RepeatedSequence DEF Parts
  <2>2. WrittenUpTo(n + 1, "acl") = WrittenUpTo(n, "acl") \o Contents(w).acl
    BY <1>1, <2>1, UpToNext DEF w
  <2>3. Repeated(Embedded(FileOf(inode), 8), 2) = WrittenUpTo(n, "acl")
    BY <1>2 DEF Held
  <2>4. Repeated(Embedded(FileOf(M), 8), 2)
          = Repeated(Embedded(FileOf(inode), 8), 2) \o Repeated(Embedded(FileOf(w), 8), 2)
    BY <1>5
  <2>5. QED
    BY <1>6, <2>2, <2>3, <2>4
<1>9. Scalar(Embedded(FileOf(M), 7), 1, "") = LastClient(n + 1)
  <2>1. LastClient(n + 1) = IF Has(FileOf(w), 7) THEN Contents(w).client ELSE LastClient(n)
    BY <1>1, LastClientNext DEF w
  <2>2. Scalar(Embedded(FileOf(inode), 7), 1, "") = LastClient(n)
    BY <1>2 DEF Held
  <2>3. Has(FileOf(w), 7) <=> Has(Embedded(FileOf(w), 7), 1)
    <3>1. Has(FileOf(w), 7) => Has(Embedded(FileOf(w), 7), 1)
      BY <1>1, InodeParts
    <3>2. ~Has(FileOf(w), 7) => ~Has(Embedded(FileOf(w), 7), 1)
      BY NothingMerged DEF Has, Embedded
    <3>3. QED
      BY <3>1, <3>2
  <2>4. /\ IsMessage(Embedded(FileOf(inode), 7)) /\ IsMessage(Embedded(FileOf(w), 7))
        /\ Repeated(Embedded(FileOf(M), 7), 1)
             = Repeated(Embedded(FileOf(inode), 7), 1) \o Repeated(Embedded(FileOf(w), 7), 1)
    <3>1. IsMessage(Embedded(FileOf(inode), 7)) /\ IsMessage(Embedded(FileOf(w), 7))
      BY <1>2, <1>5 DEF Held, Parts
    <3>2. QED
      BY <1>5, <3>1
  <2>5. /\ Has(Embedded(FileOf(w), 7), 1) =>
             \A none : Scalar(Embedded(FileOf(M), 7), 1, none)
                         = Scalar(Embedded(FileOf(w), 7), 1, none)
        /\ ~Has(Embedded(FileOf(w), 7), 1) =>
             \A none : Scalar(Embedded(FileOf(M), 7), 1, none)
                         = Scalar(Embedded(FileOf(inode), 7), 1, none)
    <3> DEFINE a == Embedded(FileOf(M), 7)
               b == Embedded(FileOf(inode), 7)
               c == Embedded(FileOf(w), 7)
    <3>1. IsMessage(b) /\ IsMessage(c) /\ Repeated(a, 1) = Repeated(b, 1) \o Repeated(c, 1)
      BY <2>4
    <3> HIDE DEF a, b, c
    <3>2. /\ Has(c, 1) => \A none : Scalar(a, 1, none) = Scalar(c, 1, none)
          /\ ~Has(c, 1) => \A none : Scalar(a, 1, none) = Scalar(b, 1, none)
      BY <3>1, ScalarOfMerged
    <3>3. QED
      BY <3>2 DEF a, b, c
  <2>6. CASE Has(FileOf(w), 7)
    BY <1>6, <2>1, <2>3, <2>5, <2>6
  <2>7. CASE ~Has(FileOf(w), 7)
    BY <2>1, <2>2, <2>3, <2>5, <2>7
  <2>8. QED
    BY <2>6, <2>7
<1>10. Has(FileOf(M), 8) <=> FilesWith(n + 1, 8) # {}
  <2>1. /\ IsMessage(FileOf(inode)) /\ IsMessage(FileOf(w))
        /\ Repeated(FileOf(M), 8) = Repeated(FileOf(inode), 8) \o Repeated(FileOf(w), 8)
    BY <1>2, <1>5 DEF Held, Parts
  <2>2. Has(FileOf(M), 8) <=> Has(FileOf(inode), 8) \/ Has(FileOf(w), 8)
    <3> DEFINE a == FileOf(M)
               b == FileOf(inode)
               c == FileOf(w)
    <3>1. IsMessage(b) /\ IsMessage(c) /\ Repeated(a, 8) = Repeated(b, 8) \o Repeated(c, 8)
      BY <2>1
    <3> HIDE DEF a, b, c
    <3>2. Has(a, 8) <=> Has(b, 8) \/ Has(c, 8)
      BY <3>1, RepeatedSequence, ConcatSequence DEF Has
    <3>3. QED
      BY <3>2 DEF a, b, c
  <2>3. FilesWith(n + 1, 8)
          = FilesWith(n, 8) \cup (IF Has(FileOf(w), 8) THEN {n + 1} ELSE {})
    BY <1>1, FilesNext DEF w
  <2>4. Has(FileOf(inode), 8) <=> FilesWith(n, 8) # {}
    BY <1>2 DEF Held
  <2>5. CASE Has(FileOf(w), 8)
    BY <2>2, <2>3, <2>5
  <2>6. CASE ~Has(FileOf(w), 8)
    BY <2>2, <2>3, <2>4, <2>6
  <2>7. QED
    BY <2>5, <2>6
<1>11. Held(M, n + 1)
  BY <1>5, <1>7, <1>8, <1>9, <1>10 DEF Held, Parts
<1>12. OwnLast(n + 1)
  <2>1. Behind(Contents(w).blocks, WrittenUpTo(n + 1, "blocks"))
    <3>1. IsSequence(WrittenUpTo(n, "blocks")) /\ IsSequence(Contents(w).blocks)
      BY <1>2, <1>5, <1>6, RepeatedSequence, ZenonT(40) DEF Held, Parts
    <3>2. WrittenUpTo(n + 1, "blocks") = WrittenUpTo(n, "blocks") \o Contents(w).blocks
      BY <1>1, <3>1, UpToNext DEF w
    <3>3. QED
      BY <3>1, <3>2 DEF Behind
  <2>2. Behind(Contents(w).acl, WrittenUpTo(n + 1, "acl"))
    <3>1. IsSequence(WrittenUpTo(n, "acl")) /\ IsSequence(Contents(w).acl)
      BY <1>2, <1>5, <1>6, RepeatedSequence, ZenonT(40) DEF Held, Parts
    <3>2. WrittenUpTo(n + 1, "acl") = WrittenUpTo(n, "acl") \o Contents(w).acl
      BY <1>1, <3>1, UpToNext DEF w
    <3>3. QED
      BY <3>1, <3>2 DEF Behind
  <2>3. Has(FileOf(w), 7) => LastClient(n + 1) = Contents(w).client
    BY <1>1, LastClientNext DEF w
  <2>4. Has(FileOf(w), 8) => FilesWith(n + 1, 8) # {}
    BY <1>1, FilesNext DEF w
  <2>5. QED
    BY <2>1, <2>2, <2>3, <2>4 DEF OwnLast, w
<1>13. QED
  BY <1>5, <1>11, <1>12 DEF M, n, w

LEMMA NothingHeld ==
  ASSUME NEW m, \A f : Repeated(m, f) = <<>>
  PROVE  Held(m, 0)
<1>1. /\ IsMessage(FileOf(m)) /\ IsMessage(DirectoryOf(m))
      /\ \A f : Repeated(FileOf(m), f) = <<>>
  BY NothingMerged DEF FileOf, DirectoryOf, Embedded
<1>2. \A f : /\ IsMessage(Embedded(FileOf(m), f))
             /\ \A g : Repeated(Embedded(FileOf(m), f), g) = <<>>
  BY <1>1, NothingMerged DEF Embedded
<1>3. LastClient(0) = "" /\ FilesWith(0, 8) = {}
  BY LastClientNext, FilesNext
<1>4. Scalar(Embedded(FileOf(m), 7), 1, "") = ""
  BY <1>2 DEF Scalar, Has
<1>5. ~Has(FileOf(m), 8)
  BY <1>1 DEF Has
<1>6. QED
  BY <1>1, <1>2, <1>3, <1>4, <1>5, UpToNone DEF Held

LEMMA HeldStep == Inv /\ [Next]_vars => HeldInv'
<1> SUFFICES ASSUME Inv, [Next]_vars, pc' = "inode" PROVE Held(inode, Len(inodes))'
  BY DEF HeldInv
<1>1. CASE OpenInodes
  <2>1. inode' = Nothing /\ inodes' = inodes /\ image' = image /\ sections' = sections
    BY <1>1 DEF OpenInodes, printed
  <2>2. inodes = <<>>
    BY <1>1 DEF OpenInodes, At, Inv, InodesInv, Section
  <2>3. Held(Nothing, 0)
    BY NothingFound, NothingHeld
  <2>4. Len(inodes) = 0
    BY <2>2, EmptySequence
  <2>5. QED
    BY <2>1, <2>3, <2>4, WrittenKept DEF Held
<1>2. CASE ReadInode
  <2>1. Held(Merge(inode, Upcoming), Len(inodes) + 1)
    BY <1>2, HeldNext DEF ReadInode
  <2>2. inode' = Merge(inode, Upcoming) /\ image' = image /\ sections' = sections
    BY <1>2 DEF ReadInode
  <2>3. Len(inodes') = Len(inodes) + 1
    BY <1>2, AppendSequence DEF ReadInode, Inv, PrintedInv
  <2>4. QED
    BY <2>1, <2>2, <2>3, WrittenKept DEF Held
<1>3. CASE UNCHANGED vars
  <2>1. /\ inode' = inode /\ image' = image /\ sections' = sections
        /\ inodes' = inodes /\ pc' = pc
    BY <1>3 DEF vars, printed
  <2>2. Held(inode, Len(inodes))
    BY <2>1 DEF Inv, HeldInv
  <2>3. QED
    BY <2>1, <2>2, WrittenKept DEF Held
<1>4. QED
  BY <1>1, <1>2, <1>3
     DEF Next, ReadSummary, OpenStrings, OpenDirectories, SkipSection, ReadInodeAborts,
         ReadString, LoopEnds, ReadEntry, EntriesEnd, Return

LEMMA InvStep == Inv /\ [Next]_vars => Inv'
  BY TypeStep, TableStep, PrintedStep, InodesStep, StringsStep, EntriesStep, HeldStep DEF Inv

LEMMA InvKept == Spec => []Inv
  BY InvInit, InvStep, PTL DEF Spec
-----------------------------------------------------------------------------
(***************************************************************************)
(* Theorems                                                                *)
(***************************************************************************)

\* The reader stays within the table of sections and within the file, at most
\* one past its last message, whatever the image and however often an inode
\* was parsed into the same message (main of proto/main.cc).
THEOREM TypeCorrect == Spec => []TypeOK
<1>1. Inv => TypeOK
  BY DEF Inv
<1>2. QED
  BY <1>1, InvKept, PTL

\* What a step does to the inodes printed: nothing, or one more, from the
\* message that holds what was written up to there.
LEMMA InodesOfStep ==
  ASSUME Inv, [Next]_vars, NEW k \in DOMAIN inodes'
  PROVE  /\ image' = image /\ sections' = sections
         /\ \/ k \in DOMAIN inodes /\ inodes'[k] = inodes[k]
            \/ \E m, beyond : /\ inodes'[k] = PrintedInode(m, beyond)
                              /\ Held(m, k) /\ OwnLast(k)
                              /\ Identity(m) = Identity(WrittenInode(k))
<1>1. CASE ReadSummary
  BY <1>1, EmptySequence DEF ReadSummary, printed, Inv, InodesInv
<1>2. CASE ReadInode
  <2> DEFINE m == Merge(inode, Upcoming)
             n == Len(inodes)
  <2>1. /\ image' = image /\ sections' = sections
        /\ \E beyond : inodes' = Append(inodes, PrintedInode(m, beyond))
    BY <1>2 DEF ReadInode
  <2>2. PICK beyond : inodes' = Append(inodes, PrintedInode(m, beyond))
    BY <2>1
  <2>3. /\ Held(m, n + 1) /\ OwnLast(n + 1)
        /\ Identity(m) = Identity(WrittenInode(n + 1))
    BY <1>2, HeldNext DEF ReadInode
  <2> HIDE DEF m
  <2>4. /\ n \in Nat /\ DOMAIN inodes = 1..n /\ DOMAIN inodes' = 1..n + 1
        /\ inodes'[n + 1] = PrintedInode(m, beyond)
        /\ \A i \in DOMAIN inodes : inodes'[i] = inodes[i]
    BY <2>2, AppendSequence DEF Inv, PrintedInv
  <2> HIDE DEF n
  <2>5. CASE k = n + 1
    BY <2>1, <2>3, <2>4, <2>5
  <2>6. CASE k # n + 1
    <3>1. k \in DOMAIN inodes
      BY <2>4, <2>6
    <3>2. QED
      BY <2>1, <2>4, <3>1
  <2>7. QED
    BY <2>5, <2>6
<1>3. CASE ~ReadSummary /\ ~ReadInode
  BY <1>3
     DEF Next, vars, OpenInodes, OpenStrings, OpenDirectories, SkipSection,
         ReadInodeAborts, ReadString, LoopEnds, ReadEntry, EntriesEnd, Return, printed
<1>4. QED
  BY <1>1, <1>2, <1>3

LEMMA NothingPrinted == Init => inodes = <<>> /\ strings = <<>> /\ entries = <<>> /\ pc = "summary"
  BY DEF Init

\* Type, id, name and permission of every inode are printed as they were
\* written, whatever was parsed into the same message before
\* (the loop over the INODE section in main of proto/main.cc).
THEOREM IdentityPrinted == Spec => []IdentityAsWritten
<1>1. Init => IdentityAsWritten
  BY NothingPrinted, EmptySequence DEF IdentityAsWritten
<1>2. Inv /\ [Next]_vars /\ IdentityAsWritten => IdentityAsWritten'
  <2> SUFFICES ASSUME Inv, [Next]_vars, IdentityAsWritten, NEW k \in DOMAIN inodes'
      PROVE  inodes'[k].identity = Identity(WrittenInode(k)')
    BY DEF IdentityAsWritten
  <2>1. image' = image /\ sections' = sections
    BY InodesOfStep
  <2>2. WrittenInode(k)' = WrittenInode(k)
    BY <2>1, WrittenKept
  <2>3. CASE k \in DOMAIN inodes /\ inodes'[k] = inodes[k]
    BY <2>2, <2>3 DEF IdentityAsWritten
  <2>4. CASE \E m, beyond : /\ inodes'[k] = PrintedInode(m, beyond)
                            /\ Identity(m) = Identity(WrittenInode(k))
    BY <2>2, <2>4 DEF PrintedInode
  <2>5. QED
    BY <2>3, <2>4, InodesOfStep
<1>3. QED
  BY <1>1, <1>2, InvKept, PTL DEF Spec

LEMMA PrintedType ==
  ASSUME NEW m, NEW beyond
  PROVE  PrintedInode(m, beyond).identity.type = Type(m)
<1>1. Identity(m).type = Type(m)
  BY DEF Identity
<1>2. QED
  BY <1>1 DEF PrintedInode

\* What is printed of a message that holds the first k inodes.
LEMMA PrintedOf ==
  ASSUME NEW m, NEW beyond, NEW k, Held(m, k), Type(m) = FILE
  PROVE  LET p == PrintedInode(m, beyond)
         IN  /\ p.contents.blocks = WrittenUpTo(k, "blocks")
             /\ p.contents.client = LastClient(k)
             /\ FilesWith(k, 8) = {} => p.contents.acl = <<>>
             /\ FilesWith(k, 8) # {} => p.contents.acl = Append(WrittenUpTo(k, "acl"), beyond)
             /\ IsSequence(WrittenUpTo(k, "acl"))
<1>1. Contents(m) = [blocks |-> WrittenUpTo(k, "blocks"),
                     client |-> LastClient(k),
                     acl |-> WrittenUpTo(k, "acl")]
  BY DEF Held, Contents
<1>2. HasAcl(m) <=> FilesWith(k, 8) # {}
  BY DEF Held, HasAcl
<1>3. IsSequence(WrittenUpTo(k, "acl"))
  BY RepeatedSequence DEF Held
<1>4. AclPrinted(m, beyond) = IF FilesWith(k, 8) # {} THEN Append(WrittenUpTo(k, "acl"), beyond)
                              ELSE <<>>
  BY <1>1, <1>2 DEF AclPrinted
<1>5. QED
  BY <1>1, <1>3, <1>4 DEF PrintedInode

\* What comes last in a sequence lies in it, and still does when something is
\* put behind it.
LEMMA BehindLies ==
  ASSUME NEW own, NEW all, Behind(own, all), NEW e
  PROVE  /\ LiesBehind(own, all, Len(all) - Len(own))
         /\ \E n \in 0..Len(Append(all, e)) : LiesBehind(own, Append(all, e), n)
<1>1. PICK before : IsSequence(before) /\ IsSequence(own) /\ all = before \o own
  BY DEF Behind
<1> DEFINE n == Len(before)
           more == Append(all, e)
<1>2. /\ IsSequence(all) /\ Len(all) = n + Len(own)
      /\ n \in Nat /\ Len(own) \in Nat /\ DOMAIN own = 1..Len(own)
  BY <1>1, ConcatSequence DEF IsSequence
<1>3. \A i \in 1..Len(own) : all[n + i] = own[i]
  <2> DEFINE S == Range(before) \cup Range(own)
  <2>1. before \in Seq(S) /\ own \in Seq(S)
    BY <1>1, SequenceIn, SeqMonotonic
  <2> HIDE DEF S
  <2>2. ASSUME NEW i \in 1..Len(own) PROVE (before \o own)[n + i] = own[i]
    <3>1. n + i \in 1..Len(before) + Len(own) /\ ~(n + i <= Len(before)) /\ (n + i) - Len(before) = i
      BY <1>2
    <3> HIDE DEF n
    <3>2. QED
      BY <2>1, <3>1, ConcatProperties
  <2>3. QED
    BY <1>1, <2>2
<1>4. /\ Len(more) = Len(all) + 1
      /\ \A i \in 1..Len(all) : more[i] = all[i]
  BY <1>2, AppendSequence
<1> HIDE DEF n, more
<1>5. Len(all) - Len(own) = n
  BY <1>2
<1>6. LiesBehind(own, all, n)
  BY <1>2, <1>3 DEF LiesBehind
<1>7. LiesBehind(own, more, n)
  <2>1. \A i \in 1..Len(own) : n + i \in 1..Len(all)
    BY <1>2
  <2>2. \A i \in 1..Len(own) : more[n + i] = own[i]
    BY <1>3, <1>4, <2>1
  <2>3. QED
    BY <1>2, <1>4, <2>2 DEF LiesBehind
<1>8. n \in 0..Len(more)
  BY <1>2, <1>4
<1>9. QED
  BY <1>5, <1>6, <1>7, <1>8 DEF more

\* Of a file its own blocks are printed in order and no block behind them, its
\* own client if it is open, and every entry of its own ACL; only a file with
\* an ACL aborts the process (the loop over the INODE section in main of
\* proto/main.cc, which parses every inode into the same message).
THEOREM ContentsPrinted == Spec => []OwnContents
<1> DEFINE Shown(k, shown) ==
             LET own == Contents(WrittenInode(k))
             IN  /\ LiesBehind(own.blocks, shown.blocks, Len(shown.blocks) - Len(own.blocks))
                 /\ Has(FileOf(WrittenInode(k)), 7) => shown.client = own.client
                 /\ Has(FileOf(WrittenInode(k)), 8) =>
                      \E n \in 0..Len(shown.acl) : LiesBehind(own.acl, shown.acl, n)
           Met == \E k \in 1..Len(inodes) + 1 : Has(FileOf(WrittenInode(k)), 8)
<1>1. OwnContents <=>
        /\ \A k \in DOMAIN inodes : inodes[k].identity.type = FILE => Shown(k, inodes[k].contents)
        /\ pc = "aborted" => Met
  BY DEF OwnContents
<1>2. Init => OwnContents
  BY <1>1, NothingPrinted, EmptySequence
<1>3. Inv /\ [Next]_vars /\ OwnContents => OwnContents'
  <2> SUFFICES ASSUME Inv, [Next]_vars, OwnContents PROVE OwnContents'
    OBVIOUS
  <2>1. ASSUME NEW k \in DOMAIN inodes', inodes'[k].identity.type = FILE
        PROVE  Shown(k, inodes[k].contents)'
    <3>1. WrittenInode(k)' = WrittenInode(k)
      BY InodesOfStep, WrittenKept
    <3>2. Shown(k, inodes'[k].contents)
      <4>1. CASE k \in DOMAIN inodes /\ inodes'[k] = inodes[k]
        BY <1>1, <2>1, <4>1
      <4>2. CASE \E m, beyond : inodes'[k] = PrintedInode(m, beyond) /\ Held(m, k) /\ OwnLast(k)
        <5>1. PICK m, beyond : inodes'[k] = PrintedInode(m, beyond) /\ Held(m, k) /\ OwnLast(k)
          BY <4>2
        <5>2. Type(m) = FILE
          BY <2>1, <5>1, PrintedType
        <5> DEFINE shown == inodes'[k].contents
                   own == Contents(WrittenInode(k))
        <5>3. /\ shown.blocks = WrittenUpTo(k, "blocks") /\ shown.client = LastClient(k)
              /\ FilesWith(k, 8) # {} => shown.acl = Append(WrittenUpTo(k, "acl"), beyond)
          BY <5>1, <5>2, PrintedOf
        <5>4. /\ Behind(own.blocks, WrittenUpTo(k, "blocks"))
              /\ Behind(own.acl, WrittenUpTo(k, "acl"))
              /\ Has(FileOf(WrittenInode(k)), 7) => LastClient(k) = own.client
              /\ Has(FileOf(WrittenInode(k)), 8) => FilesWith(k, 8) # {}
          BY <5>1 DEF OwnLast
        <5> HIDE DEF shown, own
        <5>5. LiesBehind(own.blocks, shown.blocks, Len(shown.blocks) - Len(own.blocks))
          BY <5>3, <5>4, BehindLies
        <5>6. Has(FileOf(WrittenInode(k)), 8) =>
                \E n \in 0..Len(shown.acl) : LiesBehind(own.acl, shown.acl, n)
          BY <5>3, <5>4, BehindLies
        <5>7. QED
          BY <5>3, <5>4, <5>5, <5>6 DEF shown, own
      <4>3. QED
        BY <4>1, <4>2, InodesOfStep
    <3>3. QED
      BY <3>1, <3>2
  <2>2. ASSUME pc' = "aborted" PROVE Met'
    <3>1. CASE ReadInodeAborts
      <4>1. Held(Merge(inode, Upcoming), Len(inodes) + 1)
        BY <3>1, HeldNext DEF ReadInodeAborts
      <4>2. HasAcl(Merge(inode, Upcoming)) /\ inodes' = inodes
            /\ image' = image /\ sections' = sections
        BY <3>1 DEF ReadInodeAborts, printed
      <4>3. FilesWith(Len(inodes) + 1, 8) # {}
        BY <4>1, <4>2 DEF Held, HasAcl
      <4>4. QED
        BY <4>2, <4>3, WrittenKept DEF FilesWith
    <3>2. CASE UNCHANGED vars
      <4>1. pc = "aborted" /\ inodes' = inodes /\ image' = image /\ sections' = sections
        BY <2>2, <3>2 DEF vars, printed
      <4>2. Met
        BY <1>1, <4>1
      <4>3. QED
        BY <4>1, <4>2, WrittenKept
    <3>3. QED
      BY <2>2, <3>1, <3>2
         DEF Next, ReadSummary, OpenInodes, OpenStrings, OpenDirectories, SkipSection,
             ReadInode, ReadString, LoopEnds, ReadEntry, EntriesEnd, Return
  <2>3. QED
    BY <2>1, <2>2 DEF OwnContents
<1>4. QED
  BY <1>2, <1>3, InvKept, PTL DEF Spec

\* What an entry step appends is the message that comes next in the section.
LEMMA EntriesOfStep ==
  ASSUME Inv, [Next]_vars, NEW k \in DOMAIN entries'
  PROVE  /\ image' = image /\ sections' = sections
         /\ \/ k \in DOMAIN entries /\ entries'[k] = entries[k]
            \/ entries'[k] = PrintedEntry(image.messages[Start("INODE_DIR") + k - 1])
<1>1. CASE ReadSummary
  BY <1>1, EmptySequence DEF ReadSummary, printed, Inv, EntriesInv
<1>2. CASE ReadEntry
  <2> DEFINE n == Len(entries)
             e == PrintedEntry(Upcoming)
             start == sections[section].offset
  <2>1. image' = image /\ sections' = sections /\ entries' = Append(entries, e)
    BY <1>2 DEF ReadEntry
  <2>2. section \in Section("INODE_DIR")
    BY <1>2 DEF ReadEntry, Inv, TableInv
  <2>3. position \in DOMAIN image.messages /\ position = start + n
    BY <1>2, <2>2 DEF ReadEntry, Inv, EntriesInv
  <2>4. Upcoming = image.messages[start + n]
    BY <2>3 DEF Upcoming
  <2>5. start \in Nat /\ Start("INODE_DIR") = start
    BY <2>2, SectionFound, ImageFacts DEF Inv
  <2> HIDE DEF e, start
  <2>6. /\ n \in Nat /\ DOMAIN entries = 1..n /\ DOMAIN entries' = 1..n + 1
        /\ entries'[n + 1] = e
        /\ \A i \in DOMAIN entries : entries'[i] = entries[i]
    BY <2>1, AppendSequence DEF Inv, PrintedInv
  <2> HIDE DEF n
  <2>7. CASE k = n + 1
    <3>1. start + n = Start("INODE_DIR") + k - 1
      BY <2>5, <2>6, <2>7
    <3>2. e = PrintedEntry(image.messages[Start("INODE_DIR") + k - 1])
      BY <2>4, <3>1 DEF e
    <3>3. QED
      BY <2>1, <2>6, <2>7, <3>2
  <2>8. CASE k # n + 1
    <3>1. k \in DOMAIN entries
      BY <2>6, <2>8
    <3>2. QED
      BY <2>1, <2>6, <3>1
  <2>9. QED
    BY <2>7, <2>8
<1>3. CASE ~ReadSummary /\ ~ReadEntry
  BY <1>3
     DEF Next, vars, OpenInodes, OpenStrings, OpenDirectories, SkipSection, ReadInode,
         ReadInodeAborts, ReadString, LoopEnds, EntriesEnd, Return, printed
<1>4. QED
  BY <1>1, <1>2, <1>3

\* A reader that is done has printed the whole section of directories, since
\* the loop stops at no entry of it.
LEMMA EntriesDone ==
  ASSUME Inv, pc = "done", NEW i \in Section("INODE_DIR")
  PROVE  Len(entries) >= EntryCount
<1> DEFINE start == sections[i].offset
           end == sections[i + 1].offset
           n == Len(entries)
<1>1. /\ i \in 1..Len(sections) /\ sections[i].name = "INODE_DIR"
      /\ PlaceIn(sections, "INODE_DIR") = i /\ Start("INODE_DIR") = start
      /\ sections = image.sections /\ Len(sections) \in Nat
  BY SectionFound, ImageFacts DEF Inv
<1>2. Boundary("INODE_DIR") = end
  BY <1>1 DEF Boundary
<1>3. section > i
  BY <1>1 DEF Inv, TableInv
<1>4. Parent(image.messages[start + n]) = 0
  BY <1>3 DEF Inv, EntriesInv
<1>5. /\ i + 1 \in DOMAIN sections
      /\ \A p \in start..end - 1 : Parent(image.messages[p]) # 0
  <2>1. image \in Images /\ i \in DOMAIN image.sections
    BY <1>1, ImageFacts DEF Inv, TableInv
  <2>2. QED
    BY <1>1, <2>1, SectionAssumption
<1>6. start \in Nat /\ end \in Nat /\ n \in Nat
  <2>1. \A j \in DOMAIN sections : sections[j].offset \in DOMAIN image.messages
    BY ImageFacts DEF Inv
  <2>2. DOMAIN image.messages = 1..Len(image.messages) /\ Len(image.messages) \in Nat
    BY ImageFacts DEF Inv
  <2>3. i \in DOMAIN sections
    BY <1>1, ImageFacts DEF Inv
  <2>4. start \in 1..Len(image.messages) /\ end \in 1..Len(image.messages)
    BY <1>5, <2>1, <2>2, <2>3
  <2>5. n \in Nat
    BY DEF Inv, PrintedInv, IsSequence
  <2> HIDE DEF start, end, n
  <2>6. QED
    BY <2>2, <2>4, <2>5
<1> HIDE DEF start, end, n
<1>7. ~(n < end - start)
  <2>1. n < end - start => start + n \in start..end - 1
    BY <1>6
  <2>2. QED
    BY <1>4, <1>5, <2>1
<1>8. n >= end - start
  BY <1>6, <1>7
<1>9. QED
  BY <1>1, <1>2, <1>8 DEF n, EntryCount

\* The entries of directories that the section holds are printed first, in order
\* and unchanged, and all of them when the reader is done (the loop over the
\* INODE_DIR section in main of proto/main.cc, which looks at no length).
THEOREM EntriesPrinted == Spec => []EntriesComplete
<1> DEFINE Unchanged ==
             \A k \in DOMAIN entries :
               entries[k] = PrintedEntry(image.messages[Start("INODE_DIR") + k - 1])
<1>1. Init => Unchanged
  BY NothingPrinted, EmptySequence
<1>2. Inv /\ [Next]_vars /\ Unchanged => Unchanged'
  <2> SUFFICES ASSUME Inv, [Next]_vars, Unchanged, NEW k \in DOMAIN entries'
      PROVE  entries'[k] = PrintedEntry(image'.messages[Start("INODE_DIR")' + k - 1])
    OBVIOUS
  <2>1. image' = image /\ Start("INODE_DIR")' = Start("INODE_DIR")
    BY EntriesOfStep, WrittenKept
  <2>2. QED
    BY <2>1, EntriesOfStep
<1>3. Inv /\ Unchanged => EntriesComplete
  BY EntriesDone DEF EntriesComplete
<1> HIDE DEF Unchanged
<1>4. QED
  BY <1>1, <1>2, <1>3, InvKept, PTL DEF Spec

LEMMA StringsOfStep ==
  ASSUME Inv, [Next]_vars, NEW k \in DOMAIN strings'
  PROVE  /\ image' = image /\ sections' = sections
         /\ \/ k \in DOMAIN strings /\ strings'[k] = strings[k]
            \/ strings'[k] = PrintedString(image.messages[Start("STRING_TABLE") + k])
<1>1. CASE ReadSummary
  BY <1>1, EmptySequence DEF ReadSummary, printed, Inv, StringsInv
<1>2. CASE ReadString
  <2> DEFINE n == Len(strings)
             e == PrintedString(Upcoming)
             start == sections[section].offset
  <2>1. image' = image /\ sections' = sections /\ strings' = Append(strings, e)
    BY <1>2 DEF ReadString
  <2>2. section \in Section("STRING_TABLE")
    BY <1>2 DEF ReadString, Inv, TableInv
  <2>3. position = start + 1 + n /\ n + left = StringCount
    BY <1>2, <2>2 DEF ReadString, Inv, StringsInv
  <2>4. /\ start \in Nat /\ Start("STRING_TABLE") = start
        /\ StringCount \in Nat
        /\ \A j \in 1..StringCount : start + j \in DOMAIN image.messages
    BY <2>2, SectionFound, ImageFacts, StringsWritten DEF Inv
  <2>5. n \in Nat /\ left \in Nat /\ left > 0
    BY <1>2 DEF Inv, PrintedInv, IsSequence, TypeOK, ReadString
  <2> HIDE DEF n, e, start
  <2>6. position = start + (n + 1) /\ n + 1 \in 1..StringCount
    BY <2>3, <2>4, <2>5
  <2>7. Upcoming = image.messages[Start("STRING_TABLE") + (n + 1)]
    BY <2>4, <2>6 DEF Upcoming
  <2>8. /\ DOMAIN strings = 1..n /\ DOMAIN strings' = 1..n + 1
        /\ strings'[n + 1] = e
        /\ \A i \in DOMAIN strings : strings'[i] = strings[i]
    BY <2>1, AppendSequence DEF Inv, PrintedInv, n
  <2>9. CASE k = n + 1
    BY <2>1, <2>7, <2>8, <2>9 DEF e
  <2>10. CASE k # n + 1
    <3>1. k \in DOMAIN strings
      BY <2>5, <2>8, <2>10
    <3>2. QED
      BY <2>1, <2>8, <3>1
  <2>11. QED
    BY <2>9, <2>10
<1>3. CASE ~ReadSummary /\ ~ReadString
  BY <1>3
     DEF Next, vars, OpenInodes, OpenStrings, OpenDirectories, SkipSection, ReadInode,
         ReadInodeAborts, LoopEnds, ReadEntry, EntriesEnd, Return, printed
<1>4. QED
  BY <1>1, <1>2, <1>3

\* A reader that is not aborted prints all inodes and all strings the headers
\* announce, in whatever order the sections come (main of proto/main.cc).
THEOREM EverythingPrinted == Spec => []AllPrinted
<1> DEFINE Unchanged ==
             \A k \in DOMAIN strings :
               strings[k] = PrintedString(image.messages[Start("STRING_TABLE") + k])
<1>1. Init => Unchanged
  BY NothingPrinted, EmptySequence
<1>2. Inv /\ [Next]_vars /\ Unchanged => Unchanged'
  <2> SUFFICES ASSUME Inv, [Next]_vars, Unchanged, NEW k \in DOMAIN strings'
      PROVE  strings'[k] = PrintedString(image'.messages[Start("STRING_TABLE")' + k])
    OBVIOUS
  <2>1. image' = image /\ Start("STRING_TABLE")' = Start("STRING_TABLE")
    BY StringsOfStep, WrittenKept
  <2>2. QED
    BY <2>1, StringsOfStep
<1>3. Inv /\ Unchanged => AllPrinted
  <2> SUFFICES ASSUME Inv, pc = "done"
      PROVE  /\ Section("INODE") # {} => Len(inodes) = InodeCount
             /\ Section("STRING_TABLE") # {} => Len(strings) = StringCount
    BY DEF AllPrinted
  <2>1. ASSUME NEW name, NEW i \in Section(name) PROVE section > i
    BY SectionFound, ImageFacts DEF Inv, TableInv
  <2>2. QED
    BY <2>1 DEF Inv, InodesInv, StringsInv
<1> HIDE DEF Unchanged
<1>4. QED
  BY <1>1, <1>2, <1>3, InvKept, PTL DEF Spec

=============================================================================
