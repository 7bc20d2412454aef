---------------------------- MODULE EditLogProof ----------------------------
(***************************************************************************)
(* Theorems about the edit log reader: for edit logs of any length, with   *)
(* any operations and values, cut anywhere.                                *)
(***************************************************************************)
EXTENDS WrittenLog, TLAPS, SequenceTheorems, FiniteSetTheorems

-----------------------------------------------------------------------------
(***************************************************************************)
(* Recursive functions                                                     *)
(***************************************************************************)

\* A set of numbers that has an element has a least one.
LEMMA LeastOf ==
  ASSUME NEW S \in SUBSET Nat, S # {}
  PROVE  \E x \in S : \A y \in S : x <= y
<1> DEFINE Below(x) == 0..x
           T == {Below(x) : x \in S}
           R == StrictSubsetOrdering(Nat)
<1>1. IsWellFoundedOn(R, FiniteSubsetsOf(Nat))
  BY FS_StrictSubsetOrderingWellFounded
<1>2. T \subseteq FiniteSubsetsOf(Nat) /\ T # {}
  <2>1. \A x \in S : IsFiniteSet(Below(x)) /\ Below(x) \subseteq Nat
    BY FS_Interval
  <2>2. QED
    BY <2>1 DEF FiniteSubsetsOf
<1> HIDE DEF R
<1>3. \E t \in T : \A u \in T : ~(<<u, t>> \in R)
  <2> HIDE DEF T
  <2>1. QED
    BY <1>1, <1>2, WFMin
<1>4. PICK x \in S : \A y \in S : ~(<<Below(y), Below(x)>> \in R)
  BY <1>3
<1>5. ASSUME NEW y \in S, y < x PROVE FALSE
  <2>1. Below(y) \subseteq Below(x) /\ Below(y) # Below(x)
    BY <1>5
  <2>2. Below(y) \in SUBSET Nat /\ Below(x) \in SUBSET Nat
    OBVIOUS
  <2>3. <<Below(y), Below(x)>> \in R
    <3> HIDE DEF Below
    <3>1. QED
      BY <2>1, <2>2 DEF R, StrictSubsetOrdering
  <2>4. QED
    BY <1>4, <2>3
<1>6. QED
  BY <1>5

\* What holds of 0, and of k + 1 when it does of k, has no exception.
LEMMA NoException ==
  ASSUME NEW Good \in SUBSET Nat, 0 \in Good, \A k \in Good : k + 1 \in Good
  PROVE  Good = Nat
<1> DEFINE Bad == Nat \ Good
<1>1. SUFFICES ASSUME Bad # {} PROVE FALSE
  OBVIOUS
<1>2. PICK x \in Bad : \A y \in Bad : x <= y
  <2>1. Bad \in SUBSET Nat
    OBVIOUS
  <2> HIDE DEF Bad
  <2>2. QED
    BY <1>1, <2>1, LeastOf
<1>3. x # 0 /\ x \in Nat
  BY <1>2
<1>4. x - 1 \in Nat /\ x - 1 \notin Bad
  BY <1>2, <1>3
<1>5. x - 1 \in Good /\ (x - 1) + 1 = x
  BY <1>3, <1>4
<1>6. QED
  BY <1>2, <1>5

\* The numbers BigEndian goes through.
GoesThrough(g, before, bytes, n) ==
  g = [k \in 0..n |-> IF k = 0 THEN before ELSE 256 * g[k - 1] + bytes[k]]

LEMMA BigEndianExists ==
  ASSUME NEW before, NEW bytes, NEW n \in Nat
  PROVE  \E g : GoesThrough(g, before, bytes, n)
<1> DEFINE Good == {k \in Nat : \E g : GoesThrough(g, before, bytes, k)}
<1>1. 0 \in Good
  <2> DEFINE g == [k \in 0..0 |-> before]
  <2>1. g = [k \in 0..0 |-> IF k = 0 THEN before ELSE 256 * g[k - 1] + bytes[k]]
    OBVIOUS
  <2> HIDE DEF g
  <2>2. QED
    BY <2>1 DEF GoesThrough
<1>2. ASSUME NEW k \in Good PROVE k + 1 \in Good
  <2>1. PICK g : GoesThrough(g, before, bytes, k)
    OBVIOUS
  <2> DEFINE next == 256 * g[k] + bytes[k + 1]
             h == [i \in 0..k + 1 |-> IF i = k + 1 THEN next ELSE g[i]]
  <2>2. ASSUME NEW i \in 0..k + 1
        PROVE  h[i] = IF i = 0 THEN before ELSE 256 * h[i - 1] + bytes[i]
    <3>1. CASE i = k + 1
      <4>1. h[i] = next /\ i # 0 /\ i - 1 \in 0..k + 1 /\ i - 1 # k + 1 /\ i - 1 = k
        BY <3>1
      <4>2. h[i - 1] = g[k]
        BY <4>1
      <4> HIDE DEF h
      <4>3. QED
        BY <3>1, <4>1, <4>2
    <3>2. CASE i # k + 1
      <4>1. i \in 0..k /\ h[i] = g[i] /\ (i # 0 => h[i - 1] = g[i - 1])
        BY <3>2
      <4>2. g[i] = IF i = 0 THEN before ELSE 256 * g[i - 1] + bytes[i]
        BY <2>1, <4>1 DEF GoesThrough
      <4> HIDE DEF h
      <4>3. QED
        BY <4>1, <4>2
    <3>3. QED
      BY <3>1, <3>2
  <2>3. DOMAIN h = 0..k + 1 /\ h = [i \in DOMAIN h |-> h[i]]
    OBVIOUS
  <2> HIDE DEF h
  <2>4. h = [i \in 0..k + 1 |-> IF i = 0 THEN before ELSE 256 * h[i - 1] + bytes[i]]
    BY <2>2, <2>3
  <2>5. QED
    BY <2>4 DEF GoesThrough
<1> HIDE DEF Good
<1>3. Good = Nat
  <2>1. Good \in SUBSET Nat
    BY DEF Good
  <2>2. QED
    BY <1>1, <1>2, <2>1, NoException
<1>4. QED
  BY <1>3 DEF Good

\* Bytes are the digits of an integer, and of a natural number when no sign
\* comes before them.
LEMMA BigEndianType ==
  ASSUME NEW S \in {Int, Nat}, NEW before \in S, NEW bytes \in Seq(Nat)
  PROVE  BigEndian(before, bytes) \in S
<1> DEFINE n == Len(bytes)
           g == CHOOSE f : GoesThrough(f, before, bytes, n)
           Good == {k \in Nat : k <= n => g[k] \in S}
<1>1. n \in Nat /\ \A k \in 1..n : bytes[k] \in Nat
  BY LenProperties, ElementOfSeq
<1>2. GoesThrough(g, before, bytes, n)
  <2>1. \E f : GoesThrough(f, before, bytes, n)
    BY <1>1, BigEndianExists
  <2>2. QED
    BY <2>1
<1>3. BigEndian(before, bytes) = g[n]
  BY DEF BigEndian, GoesThrough
<1> HIDE DEF g, n
<1>4. 0 \in Good
  BY <1>1, <1>2 DEF GoesThrough
<1>5. ASSUME NEW k \in Good PROVE k + 1 \in Good
  <2>1. SUFFICES ASSUME k + 1 <= n PROVE g[k + 1] \in S
    OBVIOUS
  <2>2. k \in Nat /\ g[k] \in S /\ k + 1 \in 0..n /\ k + 1 # 0 /\ (k + 1) - 1 = k
    BY <1>1, <2>1
  <2>3. g[k + 1] = 256 * g[k] + bytes[k + 1] /\ bytes[k + 1] \in Nat
    BY <1>1, <1>2, <2>2 DEF GoesThrough
  <2> HIDE DEF Good
  <2>4. ASSUME NEW x \in S, NEW y \in Nat PROVE 256 * x + y \in S
    <3>1. CASE S = Int
      BY <3>1
    <3>2. CASE S = Nat
      BY <3>2
    <3>3. QED
      BY <3>1, <3>2
  <2>5. 256 * g[k] + bytes[k + 1] \in S
    <3>1. g[k] \in S
      BY <2>2
    <3>2. bytes[k + 1] \in Nat
      BY <2>3
    <3>3. QED
      BY <2>4, <3>1, <3>2, Zenon
  <2>6. QED
    BY <2>3, <2>5, Zenon
<1>6. Good = Nat
  <2>1. Good \in SUBSET Nat
    OBVIOUS
  <2> HIDE DEF Good
  <2>2. QED
    BY <1>4, <1>5, <2>1, NoException
<1>7. QED
  BY <1>1, <1>3, <1>6

\* Reads goes from field to field.
LEMMA ReadsSteps ==
  ASSUME NEW op, Len(op.fields) \in Nat
  PROVE  /\ Reads(op)[0] = Turn(op.opcode)
         /\ \A k \in 1..Len(op.fields) :
              Reads(op)[k] = More(Head(Reads(op)[k - 1]), Stands(op.fields[k]))
                             \o Tail(Reads(op)[k - 1])
<1> DEFINE n == Len(op.fields)
           After(reads, k) == More(Head(reads), Stands(op.fields[k])) \o Tail(reads)
           Behaves(g, m) ==
             g = [k \in 0..m |-> IF k = 0 THEN Turn(op.opcode) ELSE After(g[k - 1], k)]
           Good == {k \in Nat : \E g : Behaves(g, k)}
<1> HIDE DEF After
<1>1. 0 \in Good
  <2> DEFINE g == [k \in 0..0 |-> Turn(op.opcode)]
  <2>1. g = [k \in 0..0 |-> IF k = 0 THEN Turn(op.opcode) ELSE After(g[k - 1], k)]
    OBVIOUS
  <2> HIDE DEF g
  <2>2. QED
    BY <2>1
<1>2. ASSUME NEW k \in Good PROVE k + 1 \in Good
  <2>1. PICK g : Behaves(g, k)
    OBVIOUS
  <2> DEFINE h == [i \in 0..k + 1 |-> IF i = k + 1 THEN After(g[k], i) ELSE g[i]]
  <2>2. ASSUME NEW i \in 0..k + 1
        PROVE  h[i] = IF i = 0 THEN Turn(op.opcode) ELSE After(h[i - 1], i)
    <3>1. CASE i = k + 1
      <4>1. h[i] = After(g[k], i) /\ i # 0
            /\ i - 1 \in 0..k + 1 /\ i - 1 # k + 1 /\ i - 1 = k
        BY <3>1
      <4>2. h[i - 1] = g[k]
        BY <4>1
      <4> HIDE DEF h
      <4>3. QED
        BY <4>1, <4>2
    <3>2. CASE i # k + 1
      <4>1. i \in 0..k /\ h[i] = g[i] /\ (i # 0 => h[i - 1] = g[i - 1])
        BY <3>2
      <4>2. g[i] = IF i = 0 THEN Turn(op.opcode) ELSE After(g[i - 1], i)
        BY <2>1, <4>1
      <4> HIDE DEF h
      <4>3. QED
        BY <4>1, <4>2
    <3>3. QED
      BY <3>1, <3>2
  <2>3. DOMAIN h = 0..k + 1 /\ h = [i \in DOMAIN h |-> h[i]]
    OBVIOUS
  <2> HIDE DEF h
  <2>4. Behaves(h, k + 1)
    BY <2>2, <2>3
  <2>5. QED
    BY <2>4
<1> HIDE DEF Good
<1>3. Good = Nat
  <2>1. Good \in SUBSET Nat
    BY DEF Good
  <2>2. QED
    BY <1>1, <1>2, <2>1, NoException
<1> DEFINE g == CHOOSE f : Behaves(f, n)
<1>4. Behaves(g, n)
  <2>1. \E f : Behaves(f, n)
    BY <1>3 DEF Good
  <2>2. QED
    BY <2>1
<1>5. Reads(op) = g
  BY DEF Reads, After
<1> HIDE DEF g, n
<1>6. n \in Nat
  BY DEF n
<1>7. g[0] = Turn(op.opcode) /\ \A k \in 1..n : g[k] = After(g[k - 1], k)
  BY <1>4, <1>6
<1>8. QED
  BY <1>5, <1>7 DEF After, n

-----------------------------------------------------------------------------
(***************************************************************************)
(* What is read of encoded fields                                          *)
(***************************************************************************)

\* The elements of s behind the first a, up to the b-th.
LEMMA Piece ==
  ASSUME NEW S, NEW s \in Seq(S), NEW a \in Nat, NEW b \in Nat, a <= b, b <= Len(s)
  PROVE  /\ SubSeq(s, a + 1, b) \in Seq(S)
         /\ Len(SubSeq(s, a + 1, b)) = b - a
         /\ \A i \in 1..b - a : SubSeq(s, a + 1, b)[i] = s[a + i]
<1> DEFINE piece == SubSeq(s, a + 1, b)
<1>1. \A i \in a + 1..b : s[i] \in S
  BY ElementOfSeq, LenProperties
<1>2. /\ piece \in Seq(S)
      /\ Len(piece) = IF a + 1 <= b THEN b - (a + 1) + 1 ELSE 0
      /\ \A i \in 1..b - (a + 1) + 1 : piece[i] = s[(a + 1) + i - 1]
  BY <1>1, SubSeqProperties
<1>3. /\ b - (a + 1) + 1 = b - a
      /\ \A i \in 1..b - a : (a + 1) + i - 1 = a + i
  OBVIOUS
<1> HIDE DEF piece
<1>4. QED
  BY <1>2, <1>3

\* The first b elements of s.
LEMMA FirstOf ==
  ASSUME NEW S, NEW s \in Seq(S), NEW b \in Nat, b <= Len(s)
  PROVE  /\ SubSeq(s, 1, b) \in Seq(S)
         /\ Len(SubSeq(s, 1, b)) = b
         /\ \A i \in 1..b : SubSeq(s, 1, b)[i] = s[i]
<1> DEFINE a == 0
           front == SubSeq(s, a + 1, b)
<1>1. a \in Nat /\ a <= b /\ b - a = b /\ \A i \in 1..b : a + i = i
  OBVIOUS
<1>2. front = SubSeq(s, 1, b)
  OBVIOUS
<1> HIDE DEF a
<1>3. front \in Seq(S) /\ Len(front) = b - a /\ \A i \in 1..b - a : front[i] = s[a + i]
  BY <1>1, Piece
<1> HIDE DEF front
<1>4. QED
  BY <1>1, <1>2, <1>3

\* A sequence of bytes is one of natural numbers, and one of integers.
LEMMA BytesType ==
  ASSUME NEW bytes \in Seq(Bytes)
  PROVE  /\ bytes \in Seq(Nat) /\ bytes \in Seq(Int)
         /\ Len(bytes) \in Nat /\ \A i \in 1..Len(bytes) : bytes[i] \in Bytes
<1>1. /\ Len(bytes) \in Nat /\ bytes \in [1..Len(bytes) -> Bytes]
      /\ \A i \in 1..Len(bytes) : bytes[i] \in Bytes
  BY LenProperties
<1>2. Bytes \subseteq Nat /\ Bytes \subseteq Int
  BY DEF Bytes
<1>3. bytes \in [1..Len(bytes) -> Nat] /\ bytes \in [1..Len(bytes) -> Int]
  BY <1>1, <1>2
<1>4. QED
  BY <1>1, <1>3, SeqDef

\* A number without a sign is natural; one with a sign is an integer.
LEMMA NumberType ==
  ASSUME NEW bytes \in Seq(Nat)
  PROVE  /\ Unsigned(bytes) \in Nat /\ Unsigned(bytes) \in Int
         /\ \A n \in Int : BigEndian(n, bytes) \in Int
<1>1. ASSUME NEW S \in {Int, Nat}, NEW n \in S PROVE BigEndian(n, bytes) \in S
  BY BigEndianType
<1>2. Unsigned(bytes) \in Nat
  BY <1>1 DEF Unsigned
<1>3. ASSUME NEW x \in Nat PROVE x \in Int
  OBVIOUS
<1>4. QED
  BY <1>1, <1>2, <1>3

\* What is computed of bytes.
LEMMA BytesNumbers ==
  ASSUME NEW bytes \in Seq(Bytes), bytes # <<>>
  PROVE  /\ Unsigned(bytes) \in Int /\ Unsigned(Tail(bytes)) \in Int
         /\ sbyte(bytes[1]) \in Int /\ Signed(bytes) \in Int /\ VarLong(bytes) \in Int
<1>1. bytes \in Seq(Nat) /\ bytes[1] \in Bytes
  <2>1. 1 \in 1..Len(bytes)
    BY EmptySeq
  <2>2. QED
    BY <2>1, BytesType
<1>2. Tail(bytes) \in Seq(Nat)
  BY <1>1, HeadTailProperties
<1>3. Unsigned(bytes) \in Int /\ Unsigned(Tail(bytes)) \in Int
  <2>1. Unsigned(bytes) \in Int
    BY <1>1, NumberType, Zenon
  <2>2. Unsigned(Tail(bytes)) \in Int
    BY <1>2, NumberType, Zenon
  <2>3. QED
    BY <2>1, <2>2
<1>4. sbyte(bytes[1]) \in Int
  <2>1. ASSUME NEW b \in Bytes PROVE sbyte(b) \in Int
    BY DEF sbyte, Bytes
  <2>2. QED
    BY <1>1, <2>1, Zenon
<1>5. Signed(bytes) \in Int
  BY <1>2, <1>4, NumberType, Zenon DEF Signed
<1>6. VarLong(bytes) \in Int
  BY <1>3, <1>4, Zenon DEF VarLong
<1>7. QED
  BY <1>3, <1>4, <1>5, <1>6

LEMMA SbyteType ==
  ASSUME NEW b \in Bytes
  PROVE  sbyte(b) \in -128..127 /\ decodeByteIntSize(sbyte(b)) \in 1..9
<1>1. sbyte(b) \in -128..127
  BY DEF Bytes, sbyte
<1>2. ASSUME NEW n \in -128..127 PROVE decodeByteIntSize(n) \in 1..9
  <2>1. CASE n >= -112
    BY <2>1 DEF decodeByteIntSize
  <2>2. CASE n < -120
    BY <2>2 DEF decodeByteIntSize
  <2>3. CASE ~(n >= -112) /\ ~(n < -120)
    BY <2>3 DEF decodeByteIntSize
  <2>4. QED
    BY <2>1, <2>2, <2>3
<1>3. QED
  BY <1>1, <1>2

\* A long that fits in one byte.
LEMMA OneByte ==
  ASSUME NEW n \in -112..127
  PROVE  sbyte(n % 256) = n /\ decodeByteIntSize(n) = 1
<1> decodeByteIntSize(n) = 1
  BY DEF decodeByteIntSize
<1>1. CASE n < 0
  <2>1. n + 256 \in 0..255 /\ n = 256 * (-1) + (n + 256)
    BY <1>1
  <2>2. n % 256 = n + 256
    BY <1>1
  <2>3. QED
    BY <1>1, <2>2 DEF sbyte
<1>2. CASE ~(n < 0)
  <2>1. n % 256 = n
    BY <1>2
  <2>2. QED
    BY <1>2, <2>1 DEF sbyte
<1>3. QED
  BY <1>1, <1>2

LEMMA SizeDef ==
  /\ DOMAIN Size = {"byte", "bool", "short", "int", "long"}
  /\ Size["byte"] = 1 /\ Size["bool"] = 1 /\ Size["short"] = 2
  /\ Size["int"] = 4 /\ Size["long"] = 8
BY DEF Size

\* What a read asks for, kind by kind.
LEMMA Extents ==
  ASSUME NEW rest
  PROVE  /\ Extent("byte", rest) = 1 /\ Extent("bool", rest) = 1
         /\ Extent("short", rest) = 2 /\ Extent("int", rest) = 4 /\ Extent("long", rest) = 8
         /\ Extent("text", rest) =
              IF Len(rest) < 2 THEN 2 ELSE 2 + Unsigned(SubSeq(rest, 1, 2))
         /\ Extent("name", rest) = IF rest = <<>> THEN 1 ELSE 1 + rest[1]
         /\ Extent("varlong", rest) =
              IF rest = <<>> THEN 1 ELSE decodeByteIntSize(sbyte(rest[1]))
<1>1. \A kind \in {"byte", "bool", "short", "int", "long"} : Extent(kind, rest) = Size[kind]
  BY SizeDef DEF Extent
<1>2. /\ Extent("text", rest) =
           IF Len(rest) < 2 THEN 2 ELSE 2 + Unsigned(SubSeq(rest, 1, 2))
      /\ Extent("name", rest) = IF rest = <<>> THEN 1 ELSE 1 + rest[1]
      /\ Extent("varlong", rest) =
           IF rest = <<>> THEN 1 ELSE decodeByteIntSize(sbyte(rest[1]))
  BY SizeDef DEF Extent
<1>3. QED
  BY <1>1, <1>2, SizeDef

LEMMA FieldKindsDef ==
  FieldKinds = {"byte", "bool", "short", "int", "long", "text", "name", "varlong"}
BY SizeDef DEF FieldKinds

LEMMA ExtentType ==
  ASSUME NEW kind \in FieldKinds, NEW rest \in Seq(Bytes)
  PROVE  Extent(kind, rest) \in Nat \ {0}
<1>1. Len(rest) \in Nat /\ (rest # <<>> => Len(rest) # 0)
  BY EmptySeq
<1>2. CASE kind = "text"
  <2>1. CASE Len(rest) < 2
    BY <1>2, <2>1, Extents
  <2>2. CASE ~(Len(rest) < 2)
    <3>1. SubSeq(rest, 1, 2) \in Seq(Bytes)
      BY <1>1, <2>2, FirstOf
    <3>2. SubSeq(rest, 1, 2) \in Seq(Nat)
      BY <3>1, BytesType
    <3>3. Unsigned(SubSeq(rest, 1, 2)) \in Nat
      BY <3>2, NumberType, Zenon
    <3>4. QED
      BY <1>2, <2>2, <3>3, Extents
  <2>3. QED
    BY <2>1, <2>2
<1>3. CASE kind = "name"
  <2>1. rest # <<>> => rest[1] \in Nat
    BY <1>1, BytesType DEF Bytes
  <2>2. QED
    BY <1>3, <2>1, Extents
<1>4. CASE kind = "varlong"
  <2>1. rest # <<>> => decodeByteIntSize(sbyte(rest[1])) \in 1..9
    BY <1>1, BytesType, SbyteType
  <2>2. QED
    BY <1>4, <2>1, Extents
<1>5. QED
  BY <1>2, <1>3, <1>4, Extents, FieldKindsDef

\* What is found in the bytes a read asked for, kind by kind.
LEMMA Values ==
  ASSUME NEW bytes
  PROVE  /\ Value("byte", bytes) = bytes
         /\ Value("bool", bytes) = <<IF bytes[1] = 0 THEN 0 ELSE 1>>
         /\ Value("short", bytes) = <<Unsigned(bytes)>>
         /\ Value("int", bytes) = <<Signed(bytes)>>
         /\ Value("long", bytes) = bytes
         /\ Value("text", bytes) = SubSeq(bytes, 3, Len(bytes))
         /\ Value("name", bytes) = Tail(bytes)
         /\ Value("varlong", bytes) = <<VarLong(bytes)>>
BY DEF Value

\* A number is a sequence of one number.
LEMMA OneNumber ==
  ASSUME NEW n \in Int
  PROVE  <<n>> \in Seq(Int) /\ Len(<<n>>) = 1 /\ <<n>>[1] = n
OBVIOUS

\* What is read is a sequence of numbers, and of one number where it decides.
LEMMA ValueType ==
  ASSUME NEW kind \in FieldKinds, NEW rest \in Seq(Bytes), Extent(kind, rest) <= Len(rest)
  PROVE  LET v == Value(kind, SubSeq(rest, 1, Extent(kind, rest)))
         IN  /\ v \in Seq(Int)
             /\ kind \in {"byte", "int", "varlong"} => Len(v) = 1 /\ v[1] \in Int
<1> DEFINE n == Extent(kind, rest)
           bytes == SubSeq(rest, 1, n)
<1>1. n \in Nat \ {0} /\ Len(rest) \in Nat
  BY ExtentType, LenProperties
<1>2. bytes \in Seq(Bytes) /\ Len(bytes) = n
  <2>1. n <= Len(rest)
    OBVIOUS
  <2> HIDE DEF n
  <2>2. QED
    BY <1>1, <2>1, FirstOf
<1>3. kind \in {"byte"} => n = 1
  BY Extents
<1>4. kind = "text" => n >= 2
  <2>1. SUFFICES ASSUME kind = "text", n < 2 PROVE FALSE
    BY <1>1
  <2>2. Len(rest) >= 2
    BY <1>1, <2>1, Extents
  <2>3. SubSeq(rest, 1, 2) \in Seq(Bytes)
    BY <1>1, <2>2, FirstOf
  <2>4. SubSeq(rest, 1, 2) \in Seq(Nat)
    BY <2>3, BytesType
  <2>5. Unsigned(SubSeq(rest, 1, 2)) \in Nat
    BY <2>4, NumberType, Zenon
  <2>6. QED
    BY <1>1, <2>1, <2>2, <2>5, Extents
<1> HIDE DEF n, bytes
<1>5. bytes # <<>> /\ bytes[1] \in Bytes /\ bytes \in Seq(Nat) /\ bytes \in Seq(Int)
  BY <1>1, <1>2, BytesType
<1>6. Tail(bytes) \in Seq(Nat) /\ Tail(bytes) \in Seq(Int)
  BY <1>5, HeadTailProperties
<1>7. Unsigned(bytes) \in Int /\ Signed(bytes) \in Int /\ VarLong(bytes) \in Int
  BY <1>2, <1>5, BytesNumbers
<1>11. kind = "text" => SubSeq(bytes, 3, Len(bytes)) \in Seq(Int)
  <2>1. kind = "text" => SubSeq(bytes, 2 + 1, Len(bytes)) \in Seq(Int)
    BY <1>1, <1>2, <1>4, <1>5, Piece
  <2>2. QED
    BY <2>1
<1>12. kind = "byte" => Len(bytes) = 1 /\ bytes[1] \in Int
  BY <1>2, <1>3, <1>5 DEF Bytes
<1>13. /\ Value(kind, bytes) \in Seq(Int)
       /\ kind \in {"byte", "int", "varlong"} =>
            Len(Value(kind, bytes)) = 1 /\ Value(kind, bytes)[1] \in Int
  <2>1. CASE kind \in {"byte", "long"}
    BY <1>5, <1>12, <2>1, Values
  <2>2. CASE kind = "bool"
    <3>1. (IF bytes[1] = 0 THEN 0 ELSE 1) \in Int
      OBVIOUS
    <3>2. QED
      BY <2>2, <3>1, Values, OneNumber
  <2>3. CASE kind \in {"short", "int", "varlong"}
    <3>1. ASSUME NEW x \in Int, Value(kind, bytes) = <<x>>
          PROVE  /\ Value(kind, bytes) \in Seq(Int)
                 /\ Len(Value(kind, bytes)) = 1 /\ Value(kind, bytes)[1] \in Int
      BY <3>1, OneNumber
    <3>2. \E x \in Int : Value(kind, bytes) = <<x>>
      <4>1. Value(kind, bytes) \in {<<Unsigned(bytes)>>, <<Signed(bytes)>>, <<VarLong(bytes)>>}
        BY <2>3, Values
      <4>2. QED
        BY <1>7, <4>1, Zenon
    <3>3. QED
      BY <3>1, <3>2
  <2>4. CASE kind = "text"
    BY <1>11, <2>4, Values
  <2>5. CASE kind = "name"
    BY <1>6, <2>5, Values
  <2>6. QED
    BY <2>1, <2>2, <2>3, <2>4, <2>5, FieldKindsDef
<1>14. QED
  BY <1>13 DEF bytes, n

\* What is written of a field, kind by kind.
LEMMA Encodings ==
  ASSUME NEW value, NEW bytes
  PROVE  /\ Encodes("byte", value, bytes) <=> Len(bytes) = 1 /\ value = bytes
         /\ Encodes("bool", value, bytes) <=> value \in {<<0>>, <<1>>} /\ value = bytes
         /\ Encodes("short", value, bytes) <=> Len(bytes) = 2 /\ value = <<Unsigned(bytes)>>
         /\ Encodes("int", value, bytes) <=> Len(bytes) = 4 /\ value = <<Signed(bytes)>>
         /\ Encodes("long", value, bytes) <=> Len(bytes) = 8 /\ value = bytes
         /\ Encodes("text", value, bytes) <=>
              /\ Len(bytes) = 2 + Len(value)
              /\ Unsigned(SubSeq(bytes, 1, 2)) = Len(value)
              /\ SubSeq(bytes, 3, Len(bytes)) = value
         /\ Encodes("name", value, bytes) <=>
              Len(bytes) = 1 + Len(value) /\ bytes[1] = Len(value) /\ Tail(bytes) = value
         /\ Encodes("varlong", value, bytes) =>
              /\ Len(value) = 1
              /\ \/ value[1] \in -112..127 /\ bytes = <<value[1] % 256>>
                 \/ /\ value[1] \notin -112..127 /\ Len(bytes) - 1 \in 1..8
                    /\ bytes[1] = 256 - (IF value[1] < 0 THEN 120 ELSE 112) - (Len(bytes) - 1)
                    /\ Unsigned(Tail(bytes)) = IF value[1] < 0 THEN -1 - value[1] ELSE value[1]
BY DEF Encodes

\* Fields of other kinds are read as they are; of these strings have a length.
LEMMA PlainFields ==
  ASSUME NEW kind \in FieldKinds \ {"varlong"}, NEW value, NEW bytes, NEW rest,
         Encodes(kind, value, bytes)
  PROVE  /\ Value(kind, bytes) = value
         /\ kind \notin {"text", "name"} => Extent(kind, rest) = Len(bytes)
<1>1. CASE kind = "byte"
  <2>1. Encodes("byte", value, bytes)
    BY <1>1
  <2>2. Len(bytes) = 1 /\ value = bytes
    BY <2>1, Encodings
  <2>3. Extent("byte", rest) = 1 /\ Value("byte", bytes) = bytes
    BY Extents, Values
  <2>4. QED
    BY <1>1, <2>2, <2>3
<1>2. CASE kind = "bool"
  <2>1. Encodes("bool", value, bytes)
    BY <1>2
  <2>2. bytes = value /\ value \in {<<0>>, <<1>>}
    BY <2>1, Encodings
  <2>3. <<IF bytes[1] = 0 THEN 0 ELSE 1>> = bytes /\ Len(bytes) = 1
    BY <2>2
  <2>4. Value("bool", bytes) = value /\ Extent("bool", rest) = Len(bytes)
    BY <2>2, <2>3, Values, Extents
  <2>5. QED
    BY <1>2, <2>4
<1>3. CASE kind = "short"
  <2>1. Encodes("short", value, bytes)
    BY <1>3
  <2>2. Len(bytes) = 2 /\ value = <<Unsigned(bytes)>>
    BY <2>1, Encodings
  <2>3. Extent("short", rest) = 2 /\ Value("short", bytes) = <<Unsigned(bytes)>>
    BY Extents, Values
  <2>4. QED
    BY <1>3, <2>2, <2>3
<1>4. CASE kind = "int"
  <2>1. Encodes("int", value, bytes)
    BY <1>4
  <2>2. Len(bytes) = 4 /\ value = <<Signed(bytes)>>
    BY <2>1, Encodings
  <2>3. Extent("int", rest) = 4 /\ Value("int", bytes) = <<Signed(bytes)>>
    BY Extents, Values
  <2>4. QED
    BY <1>4, <2>2, <2>3
<1>5. CASE kind = "long"
  <2>1. Encodes("long", value, bytes)
    BY <1>5
  <2>2. Len(bytes) = 8 /\ value = bytes
    BY <2>1, Encodings
  <2>3. Extent("long", rest) = 8 /\ Value("long", bytes) = bytes
    BY Extents, Values
  <2>4. QED
    BY <1>5, <2>2, <2>3
<1>6. CASE kind = "text"
  <2>1. Encodes("text", value, bytes)
    BY <1>6
  <2>2. value = SubSeq(bytes, 3, Len(bytes))
    BY <2>1, Encodings
  <2>3. Value("text", bytes) = SubSeq(bytes, 3, Len(bytes))
    BY Values
  <2>4. QED
    BY <1>6, <2>2, <2>3
<1>7. CASE kind = "name"
  <2>1. Encodes("name", value, bytes)
    BY <1>7
  <2>2. value = Tail(bytes)
    BY <2>1, Encodings
  <2>3. Value("name", bytes) = Tail(bytes)
    BY Values
  <2>4. QED
    BY <1>7, <2>2, <2>3
<1>8. QED
  BY <1>1, <1>2, <1>3, <1>4, <1>5, <1>6, <1>7, FieldKindsDef

\* The first byte of a long of variable length gives the number of its bytes.
LEMMA VarlongSize ==
  ASSUME NEW value \in Seq(Int), NEW bytes \in Seq(Bytes), Encodes("varlong", value, bytes)
  PROVE  Len(bytes) # 0 /\ decodeByteIntSize(sbyte(bytes[1])) = Len(bytes)
<1>1. Len(bytes) \in Nat /\ Len(value) = 1 /\ value[1] \in Int
  BY Encodings, LenProperties, ElementOfSeq
<1>2. CASE value[1] \in -112..127 /\ bytes = <<value[1] % 256>>
  <2>1. Len(bytes) = 1 /\ bytes[1] = value[1] % 256
    BY <1>2
  <2>2. sbyte(bytes[1]) = value[1]
    BY <1>2, <2>1, OneByte
  <2>3. decodeByteIntSize(value[1]) = 1
    BY <1>2, OneByte, Zenon
  <2>4. QED
    BY <2>1, <2>2, <2>3
<1>3. CASE /\ value[1] \notin -112..127 /\ Len(bytes) - 1 \in 1..8
           /\ bytes[1] = 256 - (IF value[1] < 0 THEN 120 ELSE 112) - (Len(bytes) - 1)
  <2>1. Len(bytes) # 0
    <3>1. ASSUME NEW n \in Nat, n - 1 \in 1..8 PROVE n # 0
      BY <3>1
    <3>2. QED
      BY <1>1, <1>3, <3>1, Zenon
  <2>2. ASSUME NEW size \in 1..8
        PROVE  /\ decodeByteIntSize(sbyte(256 - 120 - size)) = size + 1
               /\ decodeByteIntSize(sbyte(256 - 112 - size)) = size + 1
    <3>1. sbyte(256 - 120 - size) = -120 - size /\ sbyte(256 - 112 - size) = -112 - size
      BY DEF sbyte
    <3>2. decodeByteIntSize(-120 - size) = size + 1
      BY DEF decodeByteIntSize
    <3>3. decodeByteIntSize(-112 - size) = size + 1
      BY DEF decodeByteIntSize
    <3>4. QED
      BY <3>1, <3>2, <3>3
  <2>3. decodeByteIntSize(sbyte(bytes[1])) = (Len(bytes) - 1) + 1
    <3> DEFINE size == Len(bytes) - 1
    <3>1. bytes[1] = 256 - 120 - size \/ bytes[1] = 256 - 112 - size
      <4> HIDE DEF size
      <4>1. bytes[1] = 256 - (IF value[1] < 0 THEN 120 ELSE 112) - size
        BY <1>3 DEF size
      <4>2. QED
        BY <4>1, Zenon
    <3>2. size \in 1..8
      BY <1>3
    <3> HIDE DEF size
    <3>3. decodeByteIntSize(sbyte(bytes[1])) = size + 1
      <4>1. CASE bytes[1] = 256 - 120 - size
        <5>1. decodeByteIntSize(sbyte(256 - 120 - size)) = size + 1
          BY <2>2, <3>2
        <5>2. QED
          BY <4>1, <5>1, Zenon
      <4>2. CASE bytes[1] = 256 - 112 - size
        <5>1. decodeByteIntSize(sbyte(256 - 112 - size)) = size + 1
          BY <2>2, <3>2
        <5>2. QED
          BY <4>2, <5>1, Zenon
      <4>3. QED
        BY <3>1, <4>1, <4>2
    <3>4. QED
      BY <3>3 DEF size
  <2>4. QED
    BY <1>1, <2>1, <2>3
<1>4. QED
  BY <1>2, <1>3, Encodings

\* A read finds out how many bytes the field has, or that more than those that
\* are left.
LEMMA ExtentOfEncoded ==
  ASSUME NEW kind \in FieldKinds, NEW value \in Seq(Int), NEW bytes \in Seq(Bytes),
         Encodes(kind, value, bytes), NEW rest \in Seq(Bytes),
         \A j \in 1..Len(bytes) : j <= Len(rest) => rest[j] = bytes[j]
  PROVE  /\ Len(bytes) <= Len(rest) => Extent(kind, rest) = Len(bytes)
         /\ Len(rest) < Len(bytes) => Extent(kind, rest) > Len(rest)
<1>1. Len(bytes) \in Nat /\ Len(rest) \in Nat /\ Len(value) \in Nat
      /\ (rest = <<>> <=> Len(rest) = 0)
  BY EmptySeq, LenProperties
<1>2. CASE kind \notin {"text", "name", "varlong"}
  <2>1. Extent(kind, rest) = Len(bytes)
    BY <1>2, PlainFields, Zenon
  <2>2. QED
    BY <1>1, <2>1
<1>4. CASE kind = "text"
  <2>1. Len(bytes) = 2 + Len(value) /\ Unsigned(SubSeq(bytes, 1, 2)) = Len(value)
    BY <1>4, Encodings
  <2>2. CASE Len(rest) < 2
    BY <1>1, <1>4, <2>1, <2>2, Extents
  <2>3. CASE ~(Len(rest) < 2)
    <3>1. /\ SubSeq(rest, 1, 2) \in Seq(Bytes) /\ Len(SubSeq(rest, 1, 2)) = 2
          /\ \A i \in 1..2 : SubSeq(rest, 1, 2)[i] = rest[i]
      BY <1>1, <2>3, FirstOf
    <3>2. /\ SubSeq(bytes, 1, 2) \in Seq(Bytes) /\ Len(SubSeq(bytes, 1, 2)) = 2
          /\ \A i \in 1..2 : SubSeq(bytes, 1, 2)[i] = bytes[i]
      BY <1>1, <2>1, FirstOf
    <3>3. \A i \in 1..2 : rest[i] = bytes[i]
      BY <1>1, <2>1, <2>3
    <3>4. SubSeq(rest, 1, 2) = SubSeq(bytes, 1, 2)
      <4>1. \A i \in 1..2 : SubSeq(rest, 1, 2)[i] = SubSeq(bytes, 1, 2)[i]
        BY <3>1, <3>2, <3>3
      <4>2. QED
        BY <3>1, <3>2, <4>1, SeqEqual
    <3>5. Extent(kind, rest) = 2 + Len(value)
      <4>1. Extent("text", rest) = 2 + Unsigned(SubSeq(rest, 1, 2))
        BY <2>3, Extents, Zenon
      <4>2. QED
        BY <1>4, <2>1, <3>4, <4>1, Zenon
    <3>6. QED
      BY <1>1, <2>1, <3>5
  <2>4. QED
    BY <2>2, <2>3
<1>5. CASE kind = "name"
  <2>1. Len(bytes) = 1 + Len(value) /\ bytes[1] = Len(value)
    BY <1>5, Encodings
  <2>2. Len(rest) # 0 => rest[1] = bytes[1]
    BY <1>1, <2>1
  <2>3. QED
    BY <1>1, <1>5, <2>1, <2>2, Extents
<1>6. CASE kind = "varlong"
  <2>1. Len(bytes) # 0 /\ decodeByteIntSize(sbyte(bytes[1])) = Len(bytes)
    BY <1>6, VarlongSize
  <2>2. Len(rest) # 0 => rest[1] = bytes[1]
    BY <1>1, <2>1
  <2>3. QED
    BY <1>1, <1>6, <2>1, <2>2, Extents
<1>7. QED
  BY <1>2, <1>4, <1>5, <1>6

\* What is read of the bytes of a field is its value, but for the sign of a
\* negative number of several bytes.
LEMMA ValueOfEncoded ==
  ASSUME NEW field, field.kind \in FieldKinds, field.value \in Seq(Int),
         NEW bytes \in Seq(Bytes), Encodes(field.kind, field.value, bytes)
  PROVE  Value(field.kind, bytes) = Stands(field)
<1> DEFINE kind == field.kind
           value == field.value
<1> HIDE DEF kind, value
<1>1. Stands(field) =
        IF kind = "varlong" /\ value[1] < -112 THEN <<-1 - value[1]>> ELSE value
  BY DEF Stands, kind, value
<1>2. kind \in FieldKinds /\ value \in Seq(Int) /\ Encodes(kind, value, bytes)
  BY DEF kind, value
<1>3. CASE kind # "varlong"
  <2>1. Value(kind, bytes) = value
    BY <1>2, <1>3, PlainFields, Zenon
  <2>2. QED
    BY <1>1, <1>3, <2>1 DEF kind
<1>4. CASE kind = "varlong"
  <2>1. Len(value) = 1 /\ value[1] \in Int /\ value = <<value[1]>>
    <3>1. Len(value) = 1
      BY <1>2, <1>4, Encodings
    <3>2. value[1] \in Int
      <4>1. 1 \in 1..Len(value)
        BY <3>1
      <4>2. QED
        BY <1>2, <4>1, ElementOfSeq
    <3>3. value = <<value[1]>>
      <4>1. /\ <<value[1]>> \in Seq(Int) /\ Len(<<value[1]>>) = 1
            /\ <<value[1]>>[1] = value[1]
        BY <3>2, OneNumber
      <4>2. \A i \in 1..Len(value) : value[i] = <<value[1]>>[i]
        BY <3>1, <4>1
      <4>3. QED
        BY <1>2, <3>1, <4>1, <4>2, SeqEqual
    <3>4. QED
      BY <3>1, <3>2, <3>3
  <2>2. Len(bytes) \in Nat /\ Value(kind, bytes) = <<VarLong(bytes)>>
    BY <1>4, Values, LenProperties
  <2>3. CASE value[1] \in -112..127 /\ bytes = <<value[1] % 256>>
    <3>1. Len(bytes) = 1 /\ bytes[1] = value[1] % 256
      BY <2>3
    <3>2. sbyte(bytes[1]) = value[1]
      BY <2>3, <3>1, OneByte
    <3>3. VarLong(bytes) = value[1]
      BY <3>1, <3>2 DEF VarLong
    <3>4. ~(value[1] < -112)
      <4>1. ASSUME NEW n \in -112..127 PROVE ~(n < -112)
        OBVIOUS
      <4>2. QED
        BY <2>3, <4>1, Zenon
    <3>5. QED
      BY <1>1, <2>1, <2>2, <3>3, <3>4 DEF kind
  <2>4. CASE /\ value[1] \notin -112..127 /\ Len(bytes) - 1 \in 1..8
             /\ Unsigned(Tail(bytes)) = IF value[1] < 0 THEN -1 - value[1] ELSE value[1]
    <3>1. Len(bytes) # 1
      <4>1. ASSUME NEW n \in Nat, n - 1 \in 1..8 PROVE n # 1
        BY <4>1
      <4>2. QED
        BY <2>2, <2>4, <4>1, Zenon
    <3>2. VarLong(bytes) = Unsigned(Tail(bytes))
      BY <3>1 DEF VarLong
    <3>3. value[1] < 0 <=> value[1] < -112
      <4>1. ASSUME NEW n \in Int, n \notin -112..127 PROVE n < 0 <=> n < -112
        BY <4>1
      <4>2. QED
        BY <2>1, <2>4, <4>1, Zenon
    <3>4. QED
      BY <1>1, <1>4, <2>1, <2>2, <2>4, <3>2, <3>3, Zenon DEF kind
  <2>5. QED
    BY <1>2, <1>4, <2>3, <2>4, Encodings
<1>5. QED
  BY <1>3, <1>4 DEF kind

-----------------------------------------------------------------------------
(***************************************************************************)
(* The inductive invariant                                                 *)
(***************************************************************************)

\* The file is what is left of one that was written.
FileInv ==
  IF opened
  THEN \E f \in Files : /\ written = f.written
                        /\ \E n \in 0..Len(f.bytes) : file = SubSeq(f.bytes, 1, n)
  ELSE written = <<>> /\ file = <<>>

\* The operation that is being read.
Current == Len(served) + 1

\* The reader is where the fields found so far end, and the reads it has still
\* to do are those of the rest of the operation.
OnTrack ==
  LET op == written[Current]
      k  == Len(values)
  IN  /\ Current \in DOMAIN written /\ ~eof
      /\ opcode = op.opcode
      /\ k \in 0..Len(op.fields)
      /\ pos = Behind(written, Current, k)
      /\ todo = Reads(op)[k]
      /\ values = [j \in 1..k |-> Stands(op.fields[j])]
      /\ \A j \in 1..k : Expected(op, j) /\ ~RefusedAt(op, j)

\* The end was met in an operation of which the file does not hold all.
Astray == eof /\ Current \notin WholeOps

\* Nothing was read that the file does not hold; or all that it does hold was,
\* and at most one operation more.
OnlyWhole == DOMAIN served \subseteq WholeOps
AllWhole == WholeOps \subseteq DOMAIN served /\ DOMAIN served \subseteq WholeOps \cup {Len(served)}

PlaceInv ==
  CASE pc = "layout" -> pos = 0 /\ ~eof /\ served = <<>>
    [] pc = "opcode" -> IF eof THEN AllWhole
                        ELSE OnlyWhole /\ pos = Begin(written, Current)
    [] pc = "fields" -> OnlyWhole /\ (OnTrack \/ Astray)
    [] pc = "done" -> AllWhole
    [] pc = "exit" -> OnlyWhole /\ (Current \in WholeOps => ~written[Current].handled)

\* What was read of the operations that the file holds is what was written.
ServedInv == \A i \in DOMAIN served \cap WholeOps : served[i] = Written(i)

\* An operation that is read has an opcode.
OpcodeInv == pc = "fields" => opcode \in Bytes

Inv == TypeOK /\ FileInv /\ OpcodeInv /\ (opened => PlaceInv /\ ServedInv)

-----------------------------------------------------------------------------
(***************************************************************************)
(* Types                                                                   *)
(***************************************************************************)

LEMMA KindsDef ==
  Kinds = {"byte", "bool", "short", "int", "long", "text", "name", "varlong",
           "blocks", "compact", "acl", "aclsize", "xattr", "exit"}
BY FieldKindsDef DEF Kinds

\* What is read for a field; a number where it decides on something.
LEMMA EncodingType ==
  ASSUME NEW field \in Kinds \ {"exit"}
  PROVE  /\ Encoding(field) \in FieldKinds
         /\ field \in Deciding => Encoding(field) \in {"byte", "int", "varlong"}
BY KindsDef, FieldKindsDef DEF Encoding, Deciding

\* A function on the numbers from 1, if there are any, is a sequence.
LEMMA SequenceUpTo ==
  ASSUME NEW S, NEW n \in Int, NEW f \in [1..n -> S]
  PROVE  f \in Seq(S)
<1>1. CASE n \in Nat
  BY <1>1, SeqDef
<1>2. CASE n \notin Nat
  <2>1. 1..n = 1..0
    BY <1>2
  <2>2. f \in [1..0 -> S] /\ 0 \in Nat
    BY <2>1
  <2>3. QED
    BY <2>2, SeqDef
<1>3. QED
  BY <1>1, <1>2

LEMMA MoreType ==
  ASSUME NEW field \in Kinds, NEW v, field \in Deciding => v[1] \in Int
  PROVE  More(field, v) \in Seq(Kinds)
<1>1. ASSUME NEW n \in Int PROVE [i \in 1..3 * n |-> "long"] \in Seq(Kinds)
  <2>1. [i \in 1..3 * n |-> "long"] \in [1..3 * n -> Kinds]
    BY KindsDef
  <2>2. QED
    BY <2>1, SequenceUpTo
<1>2. ASSUME NEW n \in Int
      PROVE  [i \in 1..3 * n |-> IF i % 3 = 1 THEN "long" ELSE "varlong"] \in Seq(Kinds)
  <2>1. [i \in 1..3 * n |-> IF i % 3 = 1 THEN "long" ELSE "varlong"] \in [1..3 * n -> Kinds]
    BY KindsDef
  <2>2. QED
    BY <2>1, SequenceUpTo
<1>3. CASE field = "blocks"
  BY <1>1, <1>3 DEF More, Deciding
<1>4. CASE field = "compact"
  BY <1>2, <1>4 DEF More, Deciding
<1>5. CASE field \notin {"blocks", "compact"}
  BY <1>5, EmptySeq DEF More
<1>6. QED
  BY <1>3, <1>4, <1>5

LEMMA TurnType ==
  ASSUME NEW op
  PROVE  Turn(op) \in Seq(Kinds) /\ Turn(op) # <<>>
<1>1. /\ readPermissionStatus \in Seq(Kinds)
      /\ readRpcIds \in Seq(Kinds)
  BY KindsDef DEF readPermissionStatus, readRpcIds
<1>2. readAddClose \in Seq(Kinds)
  <2>1. <<"long", "text", "short", "long", "long", "long", "blocks">> \in Seq(Kinds)
    BY KindsDef
  <2>2. QED
    BY <1>1, <2>1, ConcatProperties DEF readAddClose
<1>3. readAdd \in Seq(Kinds)
  <2>1. <<"acl", "xattr", "text", "text", "bool", "byte", "byte">> \in Seq(Kinds)
    BY KindsDef
  <2>2. QED
    BY <1>1, <1>2, <2>1, ConcatProperties DEF readAdd
<1>4. readAddBlock \in Seq(Kinds)
  <2>1. <<"text", "compact">> \in Seq(Kinds)
    BY KindsDef
  <2>2. QED
    BY <1>1, <2>1, ConcatProperties DEF readAddBlock
<1>5. readRenameOld \in Seq(Kinds)
  <2>1. <<"text", "text", "long">> \in Seq(Kinds)
    BY KindsDef
  <2>2. QED
    BY <1>1, <2>1, ConcatProperties DEF readRenameOld
<1>6. readMkDir \in Seq(Kinds)
  <2>1. <<"long", "text", "long", "long">> \in Seq(Kinds) /\ <<"aclsize", "xattr">> \in Seq(Kinds)
    BY KindsDef
  <2>2. QED
    BY <1>1, <2>1, ConcatProperties DEF readMkDir
<1>7. <<"long">> \in Seq(Kinds) /\ <<>> \in Seq(Kinds) /\ <<"exit">> \in Seq(Kinds)
  BY KindsDef
<1>8. Fields(op) \in Seq(Kinds)
  BY <1>2, <1>3, <1>4, <1>5, <1>6, <1>7 DEF Fields
<1>9. <<"int", "long">> \in Seq(Kinds) /\ <<"int">> \in Seq(Kinds)
  BY KindsDef
<1> DEFINE first == <<"int", "long">>
           both == first \o Fields(op)
           last == <<"int">>
<1>10. Len(first) = 2 /\ Len(last) = 1
  OBVIOUS
<1> HIDE DEF first, last
<1>11. both \in Seq(Kinds) /\ Len(both) \in Nat
  BY <1>8, <1>9, ConcatProperties, LenProperties DEF first
<1>12. Turn(op) = both \o last
  BY DEF Turn, first, last
<1> HIDE DEF both
<1>13. Turn(op) \in Seq(Kinds) /\ Len(Turn(op)) = Len(both) + 1
  BY <1>9, <1>10, <1>11, <1>12, ConcatProperties DEF last
<1>14. QED
  BY <1>11, <1>13, EmptySeq

Operation ==
  [opcode : Bytes, handled : BOOLEAN,
   fields : Seq([kind : FieldKinds, value : Seq(Int), end : Nat])]

\* The file has the bytes of one that was written, up to where it was cut.
LEMMA FileFacts ==
  ASSUME FileInv
  PROVE  /\ file \in Seq(Bytes) /\ Len(file) \in Nat
         /\ written \in Seq(Operation) /\ Len(written) \in Nat
         /\ opened => \E f \in Files :
              /\ written = f.written /\ f.bytes \in Seq(Bytes) /\ Len(f.bytes) \in Nat
              /\ Len(file) <= Len(f.bytes)
              /\ \A j \in 1..Len(file) : file[j] = f.bytes[j]
<1>1. CASE opened
  <2>1. PICK f \in Files : /\ written = f.written
                           /\ \E n \in 0..Len(f.bytes) : file = SubSeq(f.bytes, 1, n)
    BY <1>1 DEF FileInv
  <2>2. f.bytes \in Seq(Bytes) /\ f.written \in Seq(Operation)
    BY FileAssumption DEF Operation
  <2>3. PICK n \in 0..Len(f.bytes) : file = SubSeq(f.bytes, 1, n)
    BY <2>1
  <2>4. Len(f.bytes) \in Nat
    BY <2>2, LenProperties
  <2>5. n \in Nat /\ n <= Len(f.bytes)
    BY <2>4
  <2>6. file \in Seq(Bytes) /\ Len(file) = n /\ \A i \in 1..n : file[i] = f.bytes[i]
    BY <2>2, <2>3, <2>5, FirstOf
  <2>7. QED
    BY <2>1, <2>2, <2>4, <2>5, <2>6, LenProperties
<1>2. CASE ~opened
  BY <1>2, EmptySeq DEF FileInv
<1>3. QED
  BY <1>1, <1>2

\* What is left of the file.
LEMMA RestFacts ==
  ASSUME FileInv, pos \in 0..Len(file)
  PROVE  /\ Rest \in Seq(Bytes) /\ Len(Rest) = Len(file) - pos
         /\ \A i \in 1..Len(Rest) : Rest[i] = file[pos + i]
<1>1. file \in Seq(Bytes) /\ Len(file) \in Nat
  BY FileFacts
<1>2. QED
  BY <1>1, Piece DEF Rest

\* The place stays in the file, and is its end when the end was met.
LEMMA AdvanceType ==
  ASSUME FileInv, pos \in 0..Len(file), eof \in BOOLEAN, eof => opened /\ pos = Len(file),
         NEW n \in Nat, Advance(n), UNCHANGED fileVars
  PROVE  /\ pos' \in 0..Len(file') /\ eof' \in BOOLEAN
         /\ eof' => opened' /\ pos' = Len(file')
<1>1. Len(file) \in Nat /\ Len(Rest) = Len(file) - pos
  BY FileFacts, RestFacts
<1>2. file' = file /\ opened' = opened
  BY DEF fileVars
<1>3. CASE Whole(n)
  BY <1>1, <1>2, <1>3 DEF Advance, Whole
<1>4. CASE ~Whole(n) /\ opened
  BY <1>1, <1>2, <1>4 DEF Advance
<1>5. CASE ~Whole(n) /\ ~opened
  BY <1>1, <1>2, <1>5 DEF Advance
<1>6. QED
  BY <1>3, <1>4, <1>5

\* What is found is a sequence of numbers, and one number where it decides.
LEMMA FoundType ==
  ASSUME FileInv, pos \in 0..Len(file), NEW field \in Kinds \ {"exit"}, NEW v \in Found(field)
  PROVE  v \in Seq(Int) /\ (field \in Deciding => v[1] \in Int)
<1> DEFINE kind == Encoding(field)
           n == Extent(kind, Rest)
<1>1. kind \in FieldKinds /\ (field \in Deciding => kind \in {"byte", "int", "varlong"})
  BY EncodingType
<1>2. Rest \in Seq(Bytes)
  BY RestFacts
<1>3. CASE Whole(n)
  <2>1. v = Value(kind, SubSeq(Rest, 1, n))
    BY <1>3 DEF Found
  <2>2. Extent(kind, Rest) <= Len(Rest)
    BY <1>3 DEF Whole
  <2> HIDE DEF kind
  <2>3. /\ Value(kind, SubSeq(Rest, 1, n)) \in Seq(Int)
        /\ kind \in {"byte", "int", "varlong"} => Value(kind, SubSeq(Rest, 1, n))[1] \in Int
    BY <1>1, <1>2, <2>2, ValueType
  <2>4. QED
    BY <1>1, <2>1, <2>3
<1>4. CASE ~Whole(n)
  <2>1. v \in {<<>>, <<0>>, <<1>>} /\ (field \in Deciding => v \in {<<0>>, <<1>>})
    BY <1>4 DEF Found, AnyCount
  <2>2. <<>> \in Seq(Int) /\ <<0>> \in Seq(Int) /\ <<1>> \in Seq(Int)
    OBVIOUS
  <2>3. <<0>>[1] \in Int /\ <<1>>[1] \in Int
    OBVIOUS
  <2>4. QED
    BY <2>1, <2>2, <2>3
<1>5. QED
  BY <1>3, <1>4

-----------------------------------------------------------------------------
(***************************************************************************)
(* Where operations and fields are                                         *)
(***************************************************************************)

\* The fields of an operation that was written.
LEMMA OperationType ==
  ASSUME FileInv, NEW i \in 1..Len(written)
  PROVE  /\ written[i].opcode \in Bytes /\ written[i].handled \in BOOLEAN
         /\ Len(written[i].fields) \in Nat
         /\ DOMAIN written[i].fields = 1..Len(written[i].fields)
         /\ \A k \in 1..Len(written[i].fields) :
              /\ written[i].fields[k].kind \in FieldKinds
              /\ written[i].fields[k].value \in Seq(Int)
              /\ written[i].fields[k].end \in Nat
<1> DEFINE Field == [kind : FieldKinds, value : Seq(Int), end : Nat]
           fields == written[i].fields
<1>1. written[i] \in Operation
  BY FileFacts, ElementOfSeq
<1>2. written[i].opcode \in Bytes /\ written[i].handled \in BOOLEAN /\ fields \in Seq(Field)
  BY <1>1 DEF Operation
<1> HIDE DEF fields
<1>3. /\ Len(fields) \in Nat /\ DOMAIN fields = 1..Len(fields)
      /\ \A k \in 1..Len(fields) : fields[k] \in Field
  <2> HIDE DEF Field
  <2>1. QED
    BY <1>2, LenProperties, ElementOfSeq
<1>4. QED
  BY <1>2, <1>3 DEF fields

\* The operations lie one behind the other.
LEMMA OperationPlaces ==
  ASSUME FileInv, opened
  PROVE  /\ Len(written) < MaxServed
         /\ Len(file) <= Begin(written, Len(written) + 1)
         /\ \A i \in 1..Len(written) :
              /\ Len(written[i].fields) # 0
              /\ Begin(written, i) \in Nat /\ End(written[i]) \in Nat
              /\ 8 <= Begin(written, i) /\ Begin(written, i) + 1 < End(written[i])
              /\ \A j \in 1..Len(written) : i < j => End(written[i]) < End(written[j])
<1>1. PICK f \in Files : /\ written = f.written /\ Len(f.bytes) \in Nat
                         /\ Len(file) <= Len(f.bytes)
  BY FileFacts
<1>2. Len(written) \in Nat /\ DOMAIN written = 1..Len(written)
  BY FileFacts, LenProperties
<1>3. /\ Len(written) < MaxServed
      /\ Len(f.bytes) = Begin(written, Len(written) + 1)
      /\ \A i, j \in 1..Len(written) : i < j => End(written[i]) < End(written[j])
      /\ \A i \in 1..Len(written) :
           /\ written[i].fields # <<>>
           /\ \A k \in DOMAIN written[i].fields :
                /\ Behind(written, i, k - 1) < Behind(written, i, k)
                /\ Behind(written, i, k) <= End(written[i])
  BY <1>1, <1>2, LogAssumption
<1>4. ASSUME NEW i \in 1..Len(written)
      PROVE  /\ Len(written[i].fields) # 0 /\ Len(written[i].fields) \in Nat
             /\ DOMAIN written[i].fields = 1..Len(written[i].fields)
             /\ End(written[i]) \in Nat
  <2>1. /\ Len(written[i].fields) \in Nat /\ written[i].fields # <<>>
        /\ DOMAIN written[i].fields = 1..Len(written[i].fields)
        /\ \A k \in 1..Len(written[i].fields) : written[i].fields[k].end \in Nat
    BY <1>3, OperationType
  <2>2. Len(written[i].fields) # 0
    <3>1. written[i] \in Operation
      BY FileFacts, ElementOfSeq
    <3>2. written[i].fields \in Seq([kind : FieldKinds, value : Seq(Int), end : Nat])
      BY <3>1 DEF Operation
    <3>3. QED
      BY <2>1, <3>2, EmptySeq
  <2>3. QED
    BY <2>1, <2>2 DEF End
<1>5. ASSUME NEW i \in 1..Len(written)
      PROVE  Begin(written, i) \in Nat /\ Begin(written, i) + 1 < End(written[i])
  <2>1. Begin(written, i) \in Nat
    <3>1. CASE i = 1
      BY <3>1 DEF Begin
    <3>2. CASE i # 1
      <4>1. i - 1 \in 1..Len(written) /\ Begin(written, i) = End(written[i - 1])
        BY <1>2, <3>2 DEF Begin
      <4>2. QED
        BY <1>4, <4>1
    <3>3. QED
      BY <3>1, <3>2
  <2>2. 1 \in 1..Len(written[i].fields) /\ 1 - 1 = 0
    BY <1>4
  <2>3. /\ Behind(written, i, 0) = Begin(written, i) + 1
        /\ Behind(written, i, 1) = written[i].fields[1].end
    BY DEF Behind
  <2>4. written[i].fields[1].end \in Nat
    BY <2>2, OperationType
  <2>5. /\ Behind(written, i, 0) < Behind(written, i, 1)
        /\ Behind(written, i, 1) <= End(written[i])
    <3>1. 1 \in DOMAIN written[i].fields
      BY <1>4, <2>2
    <3>2. QED
      BY <1>3, <2>2, <3>1
  <2>6. QED
    BY <1>4, <2>1, <2>3, <2>4, <2>5
<1>6. ASSUME NEW i \in 1..Len(written) PROVE 8 <= Begin(written, i)
  <2>1. CASE i = 1
    BY <2>1 DEF Begin
  <2>2. CASE i # 1
    <3>1. i - 1 \in 1..Len(written) /\ 1 \in 1..Len(written)
          /\ Begin(written, i) = End(written[i - 1]) /\ Begin(written, 1) = 8
      BY <1>2, <2>2 DEF Begin
    <3>2. 8 < End(written[1]) /\ End(written[1]) \in Nat /\ End(written[i - 1]) \in Nat
      BY <1>4, <1>5, <3>1
    <3>3. i - 1 # 1 => End(written[1]) < End(written[i - 1])
      BY <1>3, <3>1
    <3>4. QED
      BY <3>1, <3>2, <3>3
  <2>3. QED
    BY <2>1, <2>2
<1>7. QED
  BY <1>1, <1>3, <1>4, <1>5, <1>6

\* The operations that the file holds are its first ones.
LEMMA WholeOpsFacts ==
  ASSUME FileInv, opened
  PROVE  /\ WholeOps \subseteq 1..Len(written)
         /\ \A j \in WholeOps : \A i \in 1..j : i \in WholeOps
<1>1. Len(written) \in Nat /\ DOMAIN written = 1..Len(written) /\ Len(file) \in Nat
  BY FileFacts, LenProperties
<1>2. ASSUME NEW j \in WholeOps, NEW i \in 1..j PROVE i \in WholeOps
  <2>1. j \in 1..Len(written) /\ End(written[j]) <= Len(file) /\ i \in 1..Len(written)
    BY <1>1 DEF WholeOps
  <2>2. End(written[i]) \in Nat /\ End(written[j]) \in Nat
        /\ (i < j => End(written[i]) < End(written[j]))
    BY <2>1, OperationPlaces
  <2>3. End(written[i]) <= Len(file)
    BY <1>1, <2>1, <2>2
  <2>4. QED
    BY <1>1, <2>1, <2>3 DEF WholeOps
<1>3. QED
  BY <1>1, <1>2 DEF WholeOps

\* What is known of an operation: its opcode, and the bytes of its fields.
LEMMA OperationBytes ==
  ASSUME FileInv, opened, NEW i \in 1..Len(written)
  PROVE  /\ Begin(written, i) < Len(file) =>
              file[Begin(written, i) + 1] = written[i].opcode
         /\ written[i].opcode = OP_INVALID_BYTE => i = Len(written)
         /\ IF written[i].handled THEN IsHandled(written[i]) ELSE IsRefused(written[i])
         /\ \A k \in 1..Len(written[i].fields) :
              LET from == Behind(written, i, k - 1)
                  to   == Behind(written, i, k)
              IN  /\ from \in Nat /\ to \in Nat /\ from < to /\ to <= End(written[i])
                  /\ \E bytes \in Seq(Bytes) :
                       /\ Len(bytes) = to - from
                       /\ Encodes(written[i].fields[k].kind, written[i].fields[k].value, bytes)
                       /\ \A j \in 1..to - from :
                            from + j <= Len(file) => file[from + j] = bytes[j]
<1>1. PICK f \in Files : /\ written = f.written
                         /\ f.bytes \in Seq(Bytes) /\ Len(f.bytes) \in Nat
                         /\ Len(file) <= Len(f.bytes)
                         /\ \A j \in 1..Len(file) : file[j] = f.bytes[j]
  BY FileFacts
<1>2. Len(written) \in Nat /\ DOMAIN written = 1..Len(written) /\ Len(file) \in Nat
  BY FileFacts, LenProperties
<1>3. /\ Len(f.bytes) = Begin(written, Len(written) + 1)
      /\ f.bytes[Begin(written, i) + 1] = written[i].opcode
      /\ written[i].opcode = OP_INVALID_BYTE => i = Len(written)
      /\ IF written[i].handled THEN IsHandled(written[i]) ELSE IsRefused(written[i])
      /\ \A k \in DOMAIN written[i].fields :
           /\ Behind(written, i, k - 1) < Behind(written, i, k)
           /\ Behind(written, i, k) <= End(written[i])
           /\ Encodes(written[i].fields[k].kind, written[i].fields[k].value,
                      SubSeq(f.bytes, Behind(written, i, k - 1) + 1, Behind(written, i, k)))
  BY <1>1, <1>2, LogAssumption
<1>4. Begin(written, i) \in Nat /\ End(written[i]) \in Nat /\ Len(written) # 0
  BY <1>2, OperationPlaces
<1>5. End(written[i]) <= Len(f.bytes)
  <2>1. Len(f.bytes) = End(written[Len(written)])
    <3>1. Len(written) + 1 # 1 /\ (Len(written) + 1) - 1 = Len(written)
      BY <1>2, <1>4
    <3>2. QED
      BY <1>3, <3>1, Zenon DEF Begin
  <2>2. i < Len(written) => End(written[i]) < End(written[Len(written)])
    BY <1>2, OperationPlaces
  <2>3. QED
    BY <1>1, <1>2, <1>4, <2>1, <2>2
<1>6. Begin(written, i) < Len(file) => file[Begin(written, i) + 1] = written[i].opcode
  BY <1>1, <1>2, <1>3, <1>4
<1>7. ASSUME NEW k \in 1..Len(written[i].fields)
      PROVE  LET from == Behind(written, i, k - 1)
                 to   == Behind(written, i, k)
             IN  /\ from \in Nat /\ to \in Nat /\ from < to /\ to <= End(written[i])
                 /\ \E bytes \in Seq(Bytes) :
                      /\ Len(bytes) = to - from
                      /\ Encodes(written[i].fields[k].kind, written[i].fields[k].value, bytes)
                      /\ \A j \in 1..to - from :
                           from + j <= Len(file) => file[from + j] = bytes[j]
  <2> DEFINE from == Behind(written, i, k - 1)
             to   == Behind(written, i, k)
             bytes == SubSeq(f.bytes, from + 1, to)
  <2>1. Len(written[i].fields) \in Nat /\ DOMAIN written[i].fields = 1..Len(written[i].fields)
        /\ \A m \in 1..Len(written[i].fields) : written[i].fields[m].end \in Nat
    BY OperationType
  <2>2. to \in Nat
    BY <2>1 DEF Behind
  <2>3. from \in Nat
    <3>1. CASE k = 1
      BY <1>4, <3>1 DEF Behind
    <3>2. CASE k # 1
      <4>1. k - 1 \in 1..Len(written[i].fields)
        BY <2>1, <3>2
      <4>2. QED
        BY <2>1, <4>1 DEF Behind
    <3>3. QED
      BY <3>1, <3>2
  <2>4. from < to /\ to <= End(written[i])
        /\ Encodes(written[i].fields[k].kind, written[i].fields[k].value, bytes)
    BY <1>3, <2>1
  <2> HIDE DEF from, to
  <2>5. from <= to /\ to <= Len(f.bytes)
    BY <1>1, <1>4, <1>5, <2>2, <2>3, <2>4
  <2>6. /\ bytes \in Seq(Bytes) /\ Len(bytes) = to - from
        /\ \A j \in 1..to - from : bytes[j] = f.bytes[from + j]
    BY <1>1, <2>2, <2>3, <2>5, Piece
  <2> HIDE DEF bytes
  <2>7. \A j \in 1..to - from : from + j <= Len(file) => file[from + j] = bytes[j]
    BY <1>1, <1>2, <2>2, <2>3, <2>6
  <2>8. QED
    BY <2>2, <2>3, <2>4, <2>6, <2>7 DEF from, to
<1>8. QED
  BY <1>3, <1>6, <1>7

\* A field is read as it was written, or the end is met in it.
LEMMA FieldRead ==
  ASSUME FileInv, opened, NEW i \in 1..Len(written),
         NEW k \in 1..Len(written[i].fields),
         pos = Behind(written, i, k - 1), pos <= Len(file)
  PROVE  LET field == written[i].fields[k]
             to    == Behind(written, i, k)
             n     == Extent(field.kind, Rest)
         IN  /\ to \in Nat /\ to <= End(written[i])
             /\ n \in Nat
             /\ IF to <= Len(file)
                THEN /\ n <= Len(Rest) /\ pos + n = to
                     /\ Value(field.kind, SubSeq(Rest, 1, n)) = Stands(field)
                ELSE n > Len(Rest)
<1> DEFINE field == written[i].fields[k]
           to    == Behind(written, i, k)
           n     == Extent(field.kind, Rest)
<1>1. /\ pos \in Nat /\ to \in Nat /\ pos < to /\ to <= End(written[i])
      /\ \E bytes \in Seq(Bytes) :
           /\ Len(bytes) = to - pos
           /\ Encodes(field.kind, field.value, bytes)
           /\ \A j \in 1..to - pos : pos + j <= Len(file) => file[pos + j] = bytes[j]
  BY OperationBytes
<1>2. field.kind \in FieldKinds /\ field.value \in Seq(Int)
  BY OperationType
<1> HIDE DEF to, field
<1>3. PICK bytes \in Seq(Bytes) :
        /\ Len(bytes) = to - pos
        /\ Encodes(field.kind, field.value, bytes)
        /\ \A j \in 1..to - pos : pos + j <= Len(file) => file[pos + j] = bytes[j]
  BY <1>1
<1>4. Len(file) \in Nat /\ Rest \in Seq(Bytes) /\ Len(Rest) = Len(file) - pos
      /\ \A j \in 1..Len(Rest) : Rest[j] = file[pos + j]
  BY <1>1, FileFacts, RestFacts
<1>5. ASSUME NEW j \in 1..Len(bytes), j <= Len(Rest) PROVE Rest[j] = bytes[j]
  <2>1. j \in 1..to - pos /\ j \in 1..Len(Rest) /\ pos + j <= Len(file)
    BY <1>1, <1>3, <1>4, <1>5
  <2>2. Rest[j] = file[pos + j]
    BY <1>4, <2>1, Zenon
  <2>3. file[pos + j] = bytes[j]
    BY <1>3, <2>1, Zenon
  <2>4. QED
    BY <2>2, <2>3
<1>6. /\ Len(bytes) <= Len(Rest) => n = Len(bytes)
      /\ Len(Rest) < Len(bytes) => n > Len(Rest)
  BY <1>2, <1>3, <1>4, <1>5, ExtentOfEncoded
<1>7. n \in Nat
  BY <1>2, <1>4, ExtentType
<1>8. CASE to <= Len(file)
  <2>1. Len(bytes) <= Len(Rest) /\ Len(bytes) \in Nat
    BY <1>1, <1>3, <1>4, <1>8
  <2>2. n = Len(bytes) /\ n <= Len(Rest) /\ pos + n = to
    BY <1>1, <1>3, <1>6, <2>1
  <2>3. SubSeq(Rest, 1, n) = bytes
    <3> HIDE DEF n
    <3>1. /\ SubSeq(Rest, 1, n) \in Seq(Bytes) /\ Len(SubSeq(Rest, 1, n)) = n
          /\ \A j \in 1..n : SubSeq(Rest, 1, n)[j] = Rest[j]
      BY <1>4, <1>7, <2>2, FirstOf
    <3>2. \A j \in 1..n : SubSeq(Rest, 1, n)[j] = bytes[j]
      BY <1>4, <1>5, <1>7, <2>2, <3>1
    <3>3. QED
      BY <2>2, <3>1, <3>2, SeqEqual
  <2>4. Value(field.kind, bytes) = Stands(field)
    BY <1>2, <1>3, ValueOfEncoded
  <2>5. QED
    BY <1>1, <1>7, <1>8, <2>2, <2>3, <2>4 DEF to, field
<1>9. CASE ~(to <= Len(file))
  <2>1. n > Len(Rest)
    BY <1>1, <1>3, <1>4, <1>6, <1>9
  <2>2. QED
    BY <1>1, <1>7, <1>9, <2>1 DEF to, field
<1>10. QED
  BY <1>8, <1>9

-----------------------------------------------------------------------------
(***************************************************************************)
(* Types are kept                                                          *)
(***************************************************************************)

TypeInv == TypeOK /\ FileInv /\ OpcodeInv

LEMMA TypeInit == Init => TypeInv
<1> SUFFICES ASSUME Init PROVE TypeInv
  OBVIOUS
<1>1. FileInv
  BY DEF Init, FileInv
<1>2. Len(file) \in Nat
  BY <1>1, FileFacts
<1>3. TypeOK
  <2>1. todo \in Seq(Kinds) /\ values \in Seq(Seq(Int))
        /\ served \in Seq([opcode : Bytes, values : Seq(Seq(Int))])
    BY EmptySeq DEF Init
  <2>2. pos \in 0..Len(file) /\ eof = FALSE
    BY <1>2 DEF Init
  <2>3. QED
    BY <2>1, <2>2 DEF Init, TypeOK
<1>4. QED
  BY <1>1, <1>3 DEF Init, TypeInv, OpcodeInv

LEMMA LayoutType == TypeInv /\ ReadLayout => TypeInv'
<1> SUFFICES ASSUME TypeInv, ReadLayout PROVE TypeInv'
  OBVIOUS
<1>1. /\ pos' \in 0..Len(file') /\ eof' \in BOOLEAN
      /\ eof' => opened' /\ pos' = Len(file')
  BY AdvanceType DEF TypeInv, TypeOK, ReadLayout
<1>2. TypeOK'
  BY <1>1 DEF TypeInv, TypeOK, ReadLayout
<1>3. QED
  BY <1>2 DEF TypeInv, ReadLayout, FileInv, OpcodeInv, fileVars

LEMMA OpcodeType == TypeInv /\ ReadOpcode => TypeInv'
<1> SUFFICES ASSUME TypeInv, ReadOpcode PROVE TypeInv'
  OBVIOUS
<1>1. /\ pos' \in 0..Len(file') /\ eof' \in BOOLEAN
      /\ eof' => opened' /\ pos' = Len(file')
  BY AdvanceType DEF TypeInv, TypeOK, ReadOpcode
<1>2. opcode' \in Bytes
  <2>1. CASE Whole(1)
    <3>1. Rest[1] \in Bytes
      <4>1. Rest \in Seq(Bytes) /\ 1 \in 1..Len(Rest)
        BY <2>1, RestFacts, LenProperties DEF TypeInv, TypeOK, Whole
      <4>2. QED
        BY <4>1, ElementOfSeq
    <3>2. QED
      BY <2>1, <3>1 DEF ReadOpcode
  <2>2. CASE ~Whole(1)
    <3>1. opcode' \in IF opcode # NoOpcode THEN {opcode} ELSE AnyOpcode
      BY <2>2 DEF ReadOpcode
    <3>2. QED
      BY <3>1, FileAssumption DEF TypeInv, TypeOK
  <2>3. QED
    BY <2>1, <2>2
<1>3. todo' \in Seq(Kinds) /\ values' \in Seq(Seq(Int))
  BY TurnType, EmptySeq DEF ReadOpcode
<1>4. TypeOK'
  BY <1>1, <1>2, <1>3 DEF TypeInv, TypeOK, ReadOpcode
<1>5. QED
  BY <1>2, <1>4 DEF TypeInv, ReadOpcode, FileInv, OpcodeInv, fileVars

LEMMA FieldType == TypeInv /\ ReadField => TypeInv'
<1> SUFFICES ASSUME TypeInv, ReadField PROVE TypeInv'
  OBVIOUS
<1> DEFINE field == Head(todo)
           n == Extent(Encoding(field), Rest)
<1>1. field \in Kinds \ {"exit"} /\ Tail(todo) \in Seq(Kinds)
  BY HeadTailProperties DEF TypeInv, TypeOK, ReadField
<1>2. pos \in 0..Len(file) /\ Rest \in Seq(Bytes)
  BY RestFacts DEF TypeInv, TypeOK
<1>3. n \in Nat
  <2>1. n \in Nat \ {0}
    BY <1>1, <1>2, EncodingType, ExtentType
  <2>2. QED
    BY <2>1
<1>4. /\ pos' \in 0..Len(file') /\ eof' \in BOOLEAN
      /\ eof' => opened' /\ pos' = Len(file')
  <2>1. Advance(n) /\ UNCHANGED fileVars
    BY DEF ReadField
  <2> HIDE DEF n
  <2>2. QED
    BY <1>3, <2>1, AdvanceType DEF TypeInv, TypeOK
<1>5. PICK v \in Found(field) :
        /\ values' = Append(values, v)
        /\ IF Refused(field, v)
           THEN pc' = "exit" /\ todo' = <<>>
           ELSE todo' = More(field, v) \o Tail(todo) /\ UNCHANGED pc
  BY DEF ReadField
<1> HIDE DEF field, n
<1>6. v \in Seq(Int) /\ (field \in Deciding => v[1] \in Int)
  BY <1>1, <1>2, <1>5, FoundType DEF TypeInv
<1>7. values' \in Seq(Seq(Int))
  <2>1. values \in Seq(Seq(Int))
    BY DEF TypeInv, TypeOK
  <2>2. QED
    BY <1>5, <1>6, <2>1, AppendProperties
<1>8. todo' \in Seq(Kinds)
  <2>1. More(field, v) \in Seq(Kinds)
    BY <1>1, <1>6, MoreType
  <2>2. More(field, v) \o Tail(todo) \in Seq(Kinds)
    BY <1>1, <2>1, ConcatProperties
  <2>3. QED
    BY <1>5, <2>2, EmptySeq
<1>9. pc' \in {"exit", "fields"}
  BY <1>5 DEF ReadField
<1>10. TypeOK'
  BY <1>4, <1>7, <1>8, <1>9 DEF TypeInv, TypeOK, ReadField
<1>11. opcode' = opcode /\ opcode \in Bytes
  BY DEF ReadField, TypeInv, OpcodeInv
<1>12. QED
  BY <1>10, <1>11 DEF TypeInv, ReadField, FileInv, OpcodeInv, fileVars

LEMMA TurnEndType == TypeInv /\ EndOfTurn => TypeInv'
<1> SUFFICES ASSUME TypeInv, EndOfTurn PROVE TypeInv'
  OBVIOUS
<1> DEFINE Record == [opcode : Bytes, values : Seq(Seq(Int))]
           op == [opcode |-> opcode, values |-> values]
<1>1. op \in Record /\ served \in Seq(Record)
  BY DEF EndOfTurn, TypeInv, OpcodeInv, TypeOK
<1>2. served' \in {Append(served, op), served}
  BY DEF EndOfTurn
<1> HIDE DEF op
<1>3. served' \in Seq(Record)
  <2> HIDE DEF Record
  <2>1. QED
    BY <1>1, <1>2, AppendProperties
<1>4. pc' \in {"done", "opcode"}
  BY DEF EndOfTurn
<1>5. TypeOK'
  BY <1>3, <1>4 DEF TypeInv, TypeOK, EndOfTurn, fileVars
<1>6. QED
  BY <1>4, <1>5 DEF TypeInv, EndOfTurn, FileInv, OpcodeInv, fileVars

LEMMA TypeStep == TypeInv /\ [Next]_vars => TypeInv'
<1> SUFFICES ASSUME TypeInv, [Next]_vars PROVE TypeInv'
  OBVIOUS
<1>1. CASE EndOfFile
  BY <1>1 DEF EndOfFile, TypeInv, TypeOK, FileInv, OpcodeInv, fileVars
<1>2. CASE Exit
  BY <1>2, EmptySeq DEF Exit, TypeInv, TypeOK, FileInv, OpcodeInv, fileVars
<1>3. CASE UNCHANGED vars
  BY <1>3 DEF vars, TypeInv, TypeOK, FileInv, OpcodeInv, fileVars
<1>4. QED
  BY <1>1, <1>2, <1>3, LayoutType, OpcodeType, FieldType, TurnEndType DEF Next

\* Type correctness, for every file and every place it was cut at, and for a
\* file that is not there.
THEOREM TypeCorrect == Spec => []TypeOK
<1>1. TypeInv => TypeOK
  BY DEF TypeInv
<1>2. QED
  BY <1>1, TypeInit, TypeStep, PTL DEF Spec

-----------------------------------------------------------------------------
(***************************************************************************)
(* The reader on its way through an operation                              *)
(***************************************************************************)

\* While nothing ends it, the reader is at a field, and it is what it takes it
\* for.
LEMMA AtField ==
  ASSUME FileInv, opened, OnTrack, todo # <<>>, Head(todo) # "exit"
  PROVE  LET op == written[Current]
             k  == Len(values) + 1
         IN  k \in 1..Len(op.fields) /\ Expected(op, k)
<1> DEFINE op == written[Current]
           k  == Len(values)
           n  == Len(op.fields)
<1>1. Current \in 1..Len(written)
  BY FileFacts, LenProperties DEF OnTrack
<1>2. n \in Nat /\ DOMAIN op.fields = 1..n /\ op.handled \in BOOLEAN
  BY <1>1, OperationType
<1>3. IF op.handled THEN IsHandled(op) ELSE IsRefused(op)
  BY <1>1, OperationBytes
<1>4. /\ k \in 0..n /\ todo = Reads(op)[k]
      /\ \A j \in 1..k : Expected(op, j) /\ ~RefusedAt(op, j)
  BY DEF OnTrack
<1> HIDE DEF op, k, n
<1>5. CASE op.handled
  <2>1. Reads(op)[n] = <<>> /\ \A j \in 1..n : Expected(op, j)
    BY <1>2, <1>3, <1>5 DEF IsHandled, n
  <2>2. k # n
    BY <1>4, <2>1
  <2>3. k + 1 \in 1..n
    BY <1>2, <1>4, <2>2
  <2>4. QED
    BY <2>1, <2>3 DEF op, k, n
<1>6. CASE ~op.handled
  <2>1. PICK m \in 0..n :
          /\ \A j \in 1..m : Expected(op, j)
          /\ IF m > 0 /\ RefusedAt(op, m) THEN TRUE
             ELSE Reads(op)[m] # <<>> /\ Head(Reads(op)[m]) = "exit"
    BY <1>3, <1>6 DEF IsRefused, n
  <2>2. k < m
    <3>1. SUFFICES ASSUME m <= k PROVE FALSE
      BY <1>2, <1>4
    <3>2. ~(m > 0 /\ RefusedAt(op, m))
      BY <1>4, <3>1
    <3>3. Head(Reads(op)[m]) = "exit"
      BY <2>1, <3>2
    <3>4. m # k
      BY <1>4, <3>3
    <3>5. m + 1 \in 1..k /\ (m + 1) - 1 = m
      BY <1>2, <1>4, <3>1, <3>4
    <3>6. Expected(op, m + 1)
      BY <1>4, <3>5
    <3>7. QED
      BY <3>3, <3>5, <3>6 DEF Expected
  <2>3. k + 1 \in 1..m /\ k + 1 \in 1..n
    BY <1>2, <1>4, <2>2
  <2>4. QED
    BY <2>1, <2>3 DEF op, k, n
<1>7. QED
  BY <1>2, <1>5, <1>6

\* When it has nothing more to read, it is at the end of the operation.
LEMMA AtEnd ==
  ASSUME FileInv, opened, OnTrack, todo = <<>>
  PROVE  Len(values) = Len(written[Current].fields)
<1> DEFINE op == written[Current]
           k  == Len(values)
           n  == Len(op.fields)
<1>1. Current \in 1..Len(written)
  BY FileFacts, LenProperties DEF OnTrack
<1>2. n \in Nat /\ DOMAIN op.fields = 1..n /\ op.handled \in BOOLEAN
  BY <1>1, OperationType
<1>3. IF op.handled THEN IsHandled(op) ELSE IsRefused(op)
  BY <1>1, OperationBytes
<1>4. /\ k \in 0..n /\ Reads(op)[k] = <<>>
      /\ \A j \in 1..k : Expected(op, j) /\ ~RefusedAt(op, j)
  BY DEF OnTrack
<1> HIDE DEF op, k, n
<1>5. ASSUME k # n PROVE ~Expected(op, k + 1)
  <2>1. (k + 1) - 1 = k
    BY <1>4
  <2>2. QED
    BY <1>4, <2>1 DEF Expected
<1>6. CASE op.handled
  <2>1. \A j \in 1..n : Expected(op, j)
    BY <1>2, <1>3, <1>6 DEF IsHandled
  <2>2. k # n => k + 1 \in 1..n
    BY <1>2, <1>4
  <2>3. QED
    BY <1>5, <2>1, <2>2 DEF op, k, n
<1>7. CASE ~op.handled
  <2>1. PICK m \in 0..n :
          /\ \A j \in 1..m : Expected(op, j)
          /\ IF m > 0 /\ RefusedAt(op, m) THEN TRUE
             ELSE Reads(op)[m] # <<>> /\ Head(Reads(op)[m]) = "exit"
    BY <1>3, <1>7 DEF IsRefused, n
  <2>2. CASE k < m
    <3>1. k + 1 \in 1..m /\ k # n
      BY <1>2, <1>4, <2>2
    <3>2. QED
      BY <1>5, <2>1, <3>1
  <2>3. CASE ~(k < m)
    <3>1. ~(m > 0 /\ RefusedAt(op, m))
      BY <1>4, <2>3
    <3>2. Reads(op)[m] # <<>> /\ Head(Reads(op)[m]) = "exit"
      BY <2>1, <3>1
    <3>3. m + 1 \in 1..k /\ (m + 1) - 1 = m
      BY <1>2, <1>4, <2>3, <3>2
    <3>4. Expected(op, m + 1)
      BY <1>4, <3>3
    <3>5. QED
      BY <3>2, <3>3, <3>4 DEF Expected
  <2>4. QED
    BY <2>2, <2>3
<1>8. QED
  BY <1>2, <1>6, <1>7

\* Where it exits, the operation is one it does not handle.
LEMMA AtExit ==
  ASSUME FileInv, opened, OnTrack, todo # <<>>, Head(todo) = "exit"
  PROVE  ~written[Current].handled
<1> DEFINE op == written[Current]
           k  == Len(values)
           n  == Len(op.fields)
<1>1. Current \in 1..Len(written)
  BY FileFacts, LenProperties DEF OnTrack
<1>2. n \in Nat /\ DOMAIN op.fields = 1..n
  BY <1>1, OperationType
<1>3. op.handled => IsHandled(op)
  BY <1>1, OperationBytes
<1>4. k \in 0..n /\ todo = Reads(op)[k]
  BY DEF OnTrack
<1> HIDE DEF op, k, n
<1>5. ASSUME op.handled PROVE FALSE
  <2>1. Reads(op)[n] = <<>> /\ \A j \in 1..n : Expected(op, j)
    BY <1>2, <1>3, <1>5 DEF IsHandled, n
  <2>2. k + 1 \in 1..n /\ (k + 1) - 1 = k
    BY <1>2, <1>4, <2>1
  <2>3. Expected(op, k + 1)
    BY <2>1, <2>2
  <2>4. QED
    BY <1>4, <2>2, <2>3 DEF Expected
<1>6. QED
  BY <1>5 DEF op

\* Behind what the file holds, nothing more of it is to come.
LEMMA NoneBehind ==
  ASSUME FileInv, opened, Current \notin WholeOps, Len(served) \in Nat,
         DOMAIN served = 1..Len(served)
  PROVE  WholeOps \subseteq DOMAIN served
<1>1. SUFFICES ASSUME NEW j \in WholeOps, j \notin 1..Len(served) PROVE FALSE
  OBVIOUS
<1>2. j \in 1..Len(written) /\ Len(written) \in Nat
  BY WholeOpsFacts, FileFacts
<1>3. Current \in 1..j
  BY <1>1, <1>2 DEF Current
<1>4. QED
  BY <1>3, WholeOpsFacts

-----------------------------------------------------------------------------
(***************************************************************************)
(* The place in the file is kept                                           *)
(***************************************************************************)

ReaderInv == PlaceInv /\ ServedInv

LEMMA ServedDomain ==
  ASSUME TypeInv
  PROVE  /\ Len(served) \in Nat /\ DOMAIN served = 1..Len(served)
         /\ Len(file) \in Nat /\ pos \in 0..Len(file)
         /\ Len(written) \in Nat /\ DOMAIN written = 1..Len(written)
         /\ Len(Rest) = Len(file) - pos
  BY FileFacts, RestFacts, LenProperties DEF TypeInv, TypeOK

\* A read moves on by as many bytes as it asks for, or meets the end.
LEMMA AdvanceSteps ==
  ASSUME TypeInv, opened, ~eof, NEW n \in Nat, Advance(n)
  PROVE  IF pos + n <= Len(file)
         THEN Whole(n) /\ pos' = pos + n /\ eof' = FALSE
         ELSE ~Whole(n) /\ eof' = TRUE
<1>1. Whole(n) <=> n <= Len(Rest)
  BY DEF Whole
<1>2. n <= Len(Rest) <=> pos + n <= Len(file)
  BY ServedDomain
<1>3. /\ pos' = IF Whole(n) THEN pos + n ELSE IF opened THEN Len(file) ELSE pos
      /\ eof' = (eof \/ (opened /\ ~Whole(n)))
  BY DEF Advance
<1>4. eof = FALSE
  BY DEF TypeInv, TypeOK
<1>5. QED
  BY <1>1, <1>2, <1>3, <1>4

\* What was read before stays as it is.
LEMMA ServedKept ==
  ASSUME ServedInv, UNCHANGED <<fileVars, served>>
  PROVE  ServedInv'
BY DEF ServedInv, WholeOps, Written, fileVars

LEMMA AppendTo ==
  ASSUME NEW S, NEW s \in Seq(S), NEW e
  PROVE  Append(s, e) = [j \in 1..Len(s) + 1 |-> IF j = Len(s) + 1 THEN e ELSE s[j]]
<1> DEFINE T == S \cup {e}
           all == Append(s, e)
           n == Len(s)
<1>1. s \in [1..n -> S] /\ n \in Nat
  BY LenProperties
<1>2. s \in [1..n -> T]
  BY <1>1
<1>3. s \in Seq(T) /\ e \in T
  BY <1>1, <1>2, SeqDef
<1>4. /\ all \in Seq(T) /\ Len(all) = n + 1
      /\ \A j \in 1..n : all[j] = s[j]
      /\ all[n + 1] = e
  <2> HIDE DEF T
  <2>1. QED
    BY <1>3, AppendProperties
<1>5. all = [j \in 1..n + 1 |-> all[j]]
  BY <1>4, LenProperties
<1> HIDE DEF all, n
<1>6. \A j \in 1..n + 1 : all[j] = IF j = n + 1 THEN e ELSE s[j]
  BY <1>1, <1>4
<1>7. QED
  BY <1>5, <1>6 DEF all, n

LEMMA LayoutPlace ==
  ASSUME TypeInv, opened, ReaderInv, ReadLayout
  PROVE  ReaderInv'
<1>1. /\ pc = "layout" /\ pos = 0 /\ ~eof /\ served = <<>> /\ Len(served) = 0
      /\ DOMAIN served = {}
  BY DEF ReadLayout, ReaderInv, PlaceInv
<1>2. pc' = "opcode" /\ UNCHANGED <<fileVars, served>> /\ Advance(8)
  BY DEF ReadLayout
<1>3. /\ written' = written /\ served' = served /\ WholeOps' = WholeOps
      /\ Current = 1 /\ Current' = 1 /\ Begin(written, 1) = 8
  BY <1>1, <1>2 DEF fileVars, WholeOps, Current, Begin
<1>4. CASE 8 <= Len(file)
  <2>1. pos' = 8 /\ eof' = FALSE
    <3>1. 8 \in Nat /\ pos + 8 = 8 /\ pos + 8 <= Len(file)
      BY <1>1, <1>4
    <3>2. QED
      BY <1>1, <1>2, <3>1, AdvanceSteps
  <2>2. OnlyWhole'
    BY <1>1, <1>3 DEF OnlyWhole
  <2>3. PlaceInv'
    BY <1>2, <1>3, <2>1, <2>2 DEF PlaceInv
  <2>4. QED
    BY <1>2, <2>3, ServedKept DEF ReaderInv
<1>5. CASE ~(8 <= Len(file))
  <2>1. eof' = TRUE
    <3>1. 8 \in Nat /\ pos + 8 = 8 /\ ~(pos + 8 <= Len(file))
      BY <1>1, <1>5
    <3>2. QED
      BY <1>1, <1>2, <3>1, AdvanceSteps
  <2>2. WholeOps = {}
    <3>1. SUFFICES ASSUME NEW i \in WholeOps PROVE FALSE
      OBVIOUS
    <3>2. i \in 1..Len(written) /\ End(written[i]) <= Len(file)
      BY WholeOpsFacts DEF WholeOps, TypeInv
    <3>3. End(written[i]) \in Nat /\ 8 < End(written[i])
      BY <3>2, OperationPlaces DEF TypeInv
    <3>4. QED
      BY <1>5, <3>2, <3>3, ServedDomain
  <2>3. AllWhole'
    BY <1>1, <1>3, <2>2 DEF AllWhole
  <2>4. PlaceInv'
    BY <1>2, <2>1, <2>3 DEF PlaceInv
  <2>5. QED
    BY <1>2, <2>4, ServedKept DEF ReaderInv
<1>6. QED
  BY <1>4, <1>5

LEMMA EndPlace ==
  ASSUME TypeInv, opened, ReaderInv, EndOfFile
  PROVE  ReaderInv'
<1>1. UNCHANGED <<fileVars, served>> /\ pc' = "done" /\ AllWhole
  BY DEF EndOfFile, ReaderInv, PlaceInv
<1>2. AllWhole'
  BY <1>1 DEF AllWhole, WholeOps, fileVars
<1>3. QED
  BY <1>1, <1>2, ServedKept DEF ReaderInv, PlaceInv

LEMMA OpcodePlace ==
  ASSUME TypeInv, opened, ReaderInv, ReadOpcode
  PROVE  ReaderInv'
<1>1. pc = "opcode" /\ ~eof /\ OnlyWhole /\ pos = Begin(written, Current)
  BY DEF ReadOpcode, ReaderInv, PlaceInv
<1>2. /\ pc' = "fields" /\ Advance(1) /\ values' = <<>> /\ todo' = Turn(opcode')
      /\ UNCHANGED <<fileVars, served>>
  BY DEF ReadOpcode
<1>3. /\ written' = written /\ file' = file /\ served' = served
      /\ WholeOps' = WholeOps /\ Current' = Current
  BY <1>2 DEF fileVars, WholeOps, Current
<1>4. OnlyWhole'
  BY <1>1, <1>3 DEF OnlyWhole
<1>5. Current \in 1..Len(written) + 1
  <2>1. Len(served) # 0 => Len(served) \in WholeOps
    BY <1>1, ServedDomain DEF OnlyWhole
  <2>2. Len(served) # 0 => Len(served) \in 1..Len(written)
    BY <2>1, WholeOpsFacts DEF TypeInv
  <2>3. QED
    BY <2>2, ServedDomain DEF Current
<1>6. CASE pos < Len(file)
  <2>1. /\ Whole(1) /\ pos' = pos + 1 /\ eof' = FALSE
    <3>1. pos + 1 <= Len(file)
      BY <1>6, ServedDomain
    <3>2. QED
      BY <1>1, <1>2, <3>1, AdvanceSteps
  <2>2. Current \in 1..Len(written)
    <3>1. Len(file) <= Begin(written, Len(written) + 1)
      BY OperationPlaces DEF TypeInv
    <3>2. Current # Len(written) + 1
      BY <1>1, <1>6, <3>1, ServedDomain
    <3>3. QED
      BY <1>5, <3>2, ServedDomain
  <2>3. opcode' = written[Current].opcode
    <3>1. opcode' = Rest[1]
      BY <2>1 DEF ReadOpcode
    <3>2. 1 \in 1..Len(Rest)
      BY <1>6, ServedDomain
    <3>3. Rest[1] = file[pos + 1]
      BY <3>2, ServedDomain, RestFacts DEF TypeInv
    <3>4. file[pos + 1] = written[Current].opcode
      BY <1>1, <1>6, <2>2, OperationBytes DEF TypeInv
    <3>5. QED
      BY <3>1, <3>3, <3>4
  <2> DEFINE op == written[Current]
  <2>4. Len(op.fields) \in Nat
    BY <2>2, OperationType DEF TypeInv
  <2>5. Reads(op)[0] = Turn(op.opcode)
    <3> HIDE DEF op
    <3>1. QED
      BY <2>4, ReadsSteps
  <2>6. OnTrack'
    <3>1. Len(values') = 0 /\ values' = [j \in 1..0 |-> Stands(op.fields[j])]
      BY <1>2
    <3>2. 0 \in 0..Len(op.fields)
      BY <2>4
    <3>3. pos' = Behind(written, Current, 0)
      BY <1>1, <2>1 DEF Behind
    <3>4. todo' = Reads(op)[0] /\ opcode' = op.opcode
      BY <1>2, <2>3, <2>5
    <3>5. \A j \in 1..0 : Expected(op, j) /\ ~RefusedAt(op, j)
      OBVIOUS
    <3>6. Current \in DOMAIN written
      BY <2>2, ServedDomain
    <3>7. QED
      BY <1>3, <2>1, <3>1, <3>2, <3>3, <3>4, <3>5, <3>6 DEF OnTrack
  <2>7. PlaceInv'
    BY <1>2, <1>4, <2>6 DEF PlaceInv
  <2>8. QED
    BY <1>2, <2>7, ServedKept DEF ReaderInv
<1>7. CASE ~(pos < Len(file))
  <2>1. eof' = TRUE
    <3>1. ~(pos + 1 <= Len(file))
      BY <1>7, ServedDomain
    <3>2. QED
      BY <1>1, <1>2, <3>1, AdvanceSteps
  <2>2. Current \notin WholeOps
    <3>1. SUFFICES ASSUME Current \in WholeOps PROVE FALSE
      OBVIOUS
    <3>2. Current \in 1..Len(written) /\ End(written[Current]) <= Len(file)
      BY <3>1, WholeOpsFacts DEF WholeOps, TypeInv
    <3>3. /\ Begin(written, Current) \in Nat /\ End(written[Current]) \in Nat
          /\ Begin(written, Current) + 1 < End(written[Current])
      BY <3>2, OperationPlaces DEF TypeInv
    <3>4. QED
      BY <1>1, <1>7, <3>2, <3>3, ServedDomain
  <2>3. Astray'
    BY <1>3, <2>1, <2>2 DEF Astray
  <2>4. PlaceInv'
    BY <1>2, <1>4, <2>3 DEF PlaceInv
  <2>5. QED
    BY <1>2, <2>4, ServedKept DEF ReaderInv
<1>8. QED
  BY <1>6, <1>7

\* A field of which the file does not hold all, or behind its end.
LEMMA FieldLost ==
  ASSUME TypeInv, opened, ReaderInv, ReadField, Current \notin WholeOps,
         ~Whole(Extent(Encoding(Head(todo)), Rest))
  PROVE  ReaderInv'
<1>1. OnlyWhole
  BY DEF ReadField, ReaderInv, PlaceInv
<1>2. UNCHANGED <<fileVars, served>> /\ pc' \in {"fields", "exit"}
  BY DEF ReadField
<1>3. eof' = TRUE
  <2>1. Advance(Extent(Encoding(Head(todo)), Rest))
    BY DEF ReadField
  <2>2. QED
    BY <2>1 DEF Advance, TypeInv, TypeOK
<1>4. WholeOps' = WholeOps /\ Current' = Current /\ OnlyWhole'
  BY <1>1, <1>2 DEF fileVars, WholeOps, Current, OnlyWhole
<1>5. PlaceInv'
  BY <1>2, <1>3, <1>4 DEF PlaceInv, Astray
<1>6. QED
  BY <1>2, <1>5, ServedKept DEF ReaderInv

\* A field of which the file holds all.
LEMMA FieldPlace ==
  ASSUME TypeInv, opened, ReaderInv, ReadField
  PROVE  ReaderInv'
<1>1. OnlyWhole /\ (OnTrack \/ Astray) /\ todo # <<>> /\ Head(todo) # "exit" /\ pc = "fields"
  BY DEF ReadField, ReaderInv, PlaceInv
<1>2. CASE Astray
  BY <1>2, FieldLost DEF Astray, Whole
<1>3. CASE OnTrack
  <2> DEFINE op == written[Current]
             k  == Len(values) + 1
             field == op.fields[k]
             to == Behind(written, Current, k)
             n  == Extent(field.kind, Rest)
  <2>1. k \in 1..Len(op.fields) /\ Expected(op, k) /\ Len(values) \in Nat /\ k - 1 = Len(values)
    <3>1. Len(values) \in Nat
      BY LenProperties DEF TypeInv, TypeOK
    <3>2. QED
      BY <1>1, <1>3, <3>1, AtField DEF TypeInv
  <2>2. Current \in 1..Len(written) /\ Current \in DOMAIN written
    BY <1>3, ServedDomain DEF OnTrack
  <2>3. /\ ~eof /\ opcode = op.opcode /\ pos = Behind(written, Current, k - 1)
        /\ todo = Reads(op)[k - 1]
        /\ values = [j \in 1..k - 1 |-> Stands(op.fields[j])]
        /\ \A j \in 1..k - 1 : Expected(op, j) /\ ~RefusedAt(op, j)
    BY <1>3, <2>1 DEF OnTrack
  <2>4. Encoding(Head(todo)) = field.kind
    BY <2>1, <2>3 DEF Expected
  <2>5. /\ to \in Nat /\ to <= End(op) /\ n \in Nat
        /\ IF to <= Len(file)
           THEN /\ n <= Len(Rest) /\ pos + n = to
                /\ Value(field.kind, SubSeq(Rest, 1, n)) = Stands(field)
           ELSE n > Len(Rest)
    <3>1. pos <= Len(file)
      BY ServedDomain
    <3>2. QED
      BY <2>1, <2>2, <2>3, <3>1, FieldRead DEF TypeInv
  <2> HIDE DEF n, to, op, field
  <2>6. CASE ~(to <= Len(file))
    <3>1. ~Whole(n)
      BY <2>5, <2>6, ServedDomain DEF Whole
    <3>2. Current \notin WholeOps
      <4>1. End(op) \in Nat
        BY <2>2, OperationPlaces DEF TypeInv, op
      <4>2. ~(End(op) <= Len(file))
        BY <2>5, <2>6, <4>1, ServedDomain
      <4>3. QED
        BY <4>2 DEF WholeOps, op
    <3>3. QED
      BY <2>4, <3>1, <3>2, FieldLost DEF n
  <2>7. CASE to <= Len(file)
    <3>1. Whole(n) /\ pos + n = to
      BY <2>3, <2>5, <2>7 DEF Whole
    <3>2. Found(Head(todo)) = {Stands(field)}
      BY <2>4, <2>5, <2>7, <3>1 DEF Found, n
    <3>3. /\ values' = Append(values, Stands(field))
          /\ IF Refused(Head(todo), Stands(field))
             THEN pc' = "exit" /\ todo' = <<>>
             ELSE todo' = More(Head(todo), Stands(field)) \o Tail(todo) /\ pc' = pc
      BY <3>2 DEF ReadField
    <3>4. pos' = to /\ eof' = FALSE
      <4>1. Advance(n)
        BY <2>4 DEF ReadField, n
      <4>2. QED
        BY <2>3, <3>1, <4>1 DEF Advance
    <3>5. /\ UNCHANGED <<fileVars, served>> /\ written' = written /\ opcode' = opcode
          /\ WholeOps' = WholeOps /\ Current' = Current /\ OnlyWhole'
      BY <1>1 DEF ReadField, fileVars, WholeOps, Current, OnlyWhole
    <3>6. Refused(Head(todo), Stands(field)) <=> RefusedAt(op, k)
      BY <2>3 DEF RefusedAt, field
    <3>7. CASE RefusedAt(op, k)
      <4>1. ~op.handled
        <5>1. op.handled => IsHandled(op)
          BY <2>2, OperationBytes DEF TypeInv, op
        <5>2. k \in DOMAIN op.fields
          BY <2>1, <2>2, OperationType DEF TypeInv, op
        <5>3. QED
          BY <3>7, <5>1, <5>2 DEF IsHandled
      <4>2. pc' = "exit"
        BY <3>3, <3>6, <3>7
      <4>3. PlaceInv'
        BY <3>5, <4>1, <4>2 DEF PlaceInv, op
      <4>4. QED
        BY <3>5, <4>3, ServedKept DEF ReaderInv
    <3>8. CASE ~RefusedAt(op, k)
      <4>1. pc' = "fields" /\ todo' = More(Head(todo), Stands(field)) \o Tail(todo)
        BY <1>1, <3>3, <3>6, <3>8
      <4>2. todo' = Reads(op)[k]
        <5>1. Len(op.fields) \in Nat
          BY <2>2, OperationType DEF TypeInv, op
        <5>2. Reads(op)[k] = More(Head(Reads(op)[k - 1]), Stands(op.fields[k]))
                             \o Tail(Reads(op)[k - 1])
          BY <2>1, <5>1, ReadsSteps
        <5>3. QED
          BY <2>3, <4>1, <5>2 DEF field
      <4>3. Len(values') = k /\ values' = [j \in 1..k |-> Stands(op.fields[j])]
        <5> DEFINE all == [j \in 1..k |-> Stands(op.fields[j])]
        <5>1. values \in Seq(Seq(Int))
          BY DEF TypeInv, TypeOK
        <5>2. Append(values, Stands(field)) =
                [j \in 1..Len(values) + 1 |->
                   IF j = Len(values) + 1 THEN Stands(field) ELSE values[j]]
          BY <5>1, AppendTo, Zenon
        <5>3. ASSUME NEW j \in 1..k
              PROVE  (IF j = k THEN Stands(field) ELSE values[j]) = Stands(op.fields[j])
          <6>1. CASE j = k
            BY <6>1 DEF field
          <6>2. CASE j # k
            <7>1. j \in 1..k - 1
              BY <2>1, <6>2
            <7>2. QED
              BY <2>3, <6>2, <7>1
          <6>3. QED
            BY <6>1, <6>2
        <5>4. values' = all
          BY <3>3, <5>2, <5>3
        <5>5. Len(values') = k
          BY <2>1, <5>4
        <5>6. QED
          BY <5>4, <5>5
      <4>4. \A j \in 1..k : Expected(op, j) /\ ~RefusedAt(op, j)
        <5>1. \A j \in 1..k : j = k \/ j \in 1..k - 1
          BY <2>1
        <5>2. QED
          BY <2>1, <2>3, <3>8, <5>1
      <4>5. k \in 0..Len(op.fields)
        BY <2>1
      <4>6. OnTrack'
        <5> HIDE DEF k
        <5>1. QED
          BY <2>2, <2>3, <3>4, <3>5, <4>2, <4>3, <4>4, <4>5 DEF OnTrack, op, to
      <4>7. PlaceInv'
        BY <3>5, <4>1, <4>6 DEF PlaceInv
      <4>8. QED
        BY <3>5, <4>7, ServedKept DEF ReaderInv
    <3>9. QED
      BY <3>7, <3>8
  <2>8. QED
    BY <2>6, <2>7
<1>4. QED
  BY <1>1, <1>2, <1>3

LEMMA ExitPlace ==
  ASSUME TypeInv, opened, ReaderInv, Exit
  PROVE  ReaderInv'
<1>1. /\ OnlyWhole /\ (OnTrack \/ Astray) /\ todo # <<>> /\ Head(todo) = "exit"
      /\ pc' = "exit" /\ UNCHANGED <<fileVars, served>>
  BY DEF Exit, ReaderInv, PlaceInv
<1>2. Current \in WholeOps => ~written[Current].handled
  BY <1>1, AtExit DEF Astray, TypeInv
<1>3. PlaceInv'
  BY <1>1, <1>2 DEF PlaceInv, OnlyWhole, WholeOps, Current, fileVars
<1>4. QED
  BY <1>1, <1>3, ServedKept DEF ReaderInv

LEMMA TurnEndPlace ==
  ASSUME TypeInv, opened, ReaderInv, EndOfTurn
  PROVE  ReaderInv'
<1> DEFINE op == [opcode |-> opcode, values |-> values]
<1>1. OnlyWhole /\ (OnTrack \/ Astray) /\ todo = <<>>
  BY DEF EndOfTurn, ReaderInv, PlaceInv
<1>2. /\ pc' = IF opcode = OP_INVALID_BYTE THEN "done" ELSE "opcode"
      /\ UNCHANGED <<fileVars, pos, eof>> /\ written' = written /\ WholeOps' = WholeOps
  BY DEF EndOfTurn, fileVars, WholeOps
<1>3. Len(served) < MaxServed
  <2>1. Len(served) <= Len(written)
    <3>1. Len(served) # 0 => Len(served) \in 1..Len(written)
      BY <1>1, ServedDomain, WholeOpsFacts DEF OnlyWhole, TypeInv
    <3>2. QED
      BY <3>1, ServedDomain
  <2>2. Len(written) < MaxServed /\ MaxServed \in Nat
    BY OperationPlaces, FileAssumption DEF TypeInv
  <2>3. QED
    BY <2>1, <2>2, ServedDomain
<1>4. served' = Append(served, op)
  BY <1>3 DEF EndOfTurn
<1>5. /\ Len(served') = Len(served) + 1 /\ DOMAIN served' = 1..Len(served) + 1
      /\ served'[Len(served) + 1] = op
      /\ \A i \in 1..Len(served) : served'[i] = served[i]
  <2> DEFINE S == [opcode : Bytes, values : Seq(Seq(Int))]
  <2>1. served \in Seq(S) /\ op \in S
    BY DEF TypeInv, TypeOK, OpcodeInv, EndOfTurn
  <2> HIDE DEF S, op
  <2>2. /\ Append(served, op) \in Seq(S) /\ Len(Append(served, op)) = Len(served) + 1
        /\ Append(served, op)[Len(served) + 1] = op
        /\ \A i \in 1..Len(served) : Append(served, op)[i] = served[i]
    BY <2>1, AppendProperties
  <2>3. QED
    BY <1>4, <2>2, LenProperties
<1>6. Len(served) + 1 = Current
  BY DEF Current
<1>7. CASE Astray
  <2>1. eof' = TRUE /\ Current \notin WholeOps
    BY <1>2, <1>7 DEF Astray, TypeInv, TypeOK
  <2>2. WholeOps \subseteq DOMAIN served
    BY <2>1, NoneBehind, ServedDomain DEF TypeInv
  <2>3. AllWhole'
    <3>1. WholeOps \subseteq DOMAIN served'
      BY <1>5, <2>2, ServedDomain
    <3>2. DOMAIN served' \subseteq WholeOps \cup {Len(served')}
      BY <1>1, <1>5, ServedDomain DEF OnlyWhole
    <3>3. QED
      BY <1>2, <3>1, <3>2 DEF AllWhole
  <2>4. PlaceInv'
    BY <1>2, <2>1, <2>3 DEF PlaceInv
  <2>5. ServedInv'
    <3>1. SUFFICES ASSUME NEW i \in DOMAIN served', i \in WholeOps
                   PROVE  served'[i] = Written(i)
      BY <1>2 DEF ServedInv, Written
    <3>2. i \in DOMAIN served /\ i \in 1..Len(served)
      BY <2>2, <3>1, ServedDomain
    <3>3. QED
      BY <1>5, <3>1, <3>2 DEF ReaderInv, ServedInv
  <2>6. QED
    BY <2>4, <2>5 DEF ReaderInv
<1>8. CASE OnTrack
  <2> DEFINE wop == written[Current]
             n == Len(wop.fields)
  <2>1. Current \in 1..Len(written) /\ Len(values) = n
    BY <1>1, <1>8, AtEnd, ServedDomain DEF OnTrack, TypeInv
  <2>2. /\ n \in Nat /\ n # 0 /\ DOMAIN wop.fields = 1..n
        /\ End(wop) \in Nat
    BY <2>1, OperationType, OperationPlaces DEF TypeInv
  <2>3. pos = End(wop) /\ ~eof /\ opcode = wop.opcode
        /\ values = [j \in 1..n |-> Stands(wop.fields[j])]
    BY <1>8, <2>1, <2>2 DEF OnTrack, Behind, End
  <2>4. Current \in WholeOps
    BY <2>1, <2>3, ServedDomain DEF WholeOps
  <2>5. op = Written(Current)
    BY <2>2, <2>3 DEF Written
  <2>6. OnlyWhole'
    <3>1. DOMAIN served' \subseteq WholeOps
      <4>1. \A i \in DOMAIN served' : i = Current \/ i \in DOMAIN served
        BY <1>5, <1>6, ServedDomain
      <4>2. QED
        BY <1>1, <2>4, <4>1 DEF OnlyWhole
    <3>2. QED
      BY <1>2, <3>1 DEF OnlyWhole
  <2>7. ServedInv'
    <3>1. SUFFICES ASSUME NEW i \in DOMAIN served', i \in WholeOps
                   PROVE  served'[i] = Written(i)
      BY <1>2 DEF ServedInv, Written
    <3>2. CASE i = Current
      BY <1>5, <1>6, <2>5, <3>2
    <3>3. CASE i # Current
      <4>1. i \in DOMAIN served /\ i \in 1..Len(served)
        BY <1>5, <1>6, <3>3, ServedDomain
      <4>2. QED
        BY <1>5, <3>1, <4>1 DEF ReaderInv, ServedInv
    <3>4. QED
      BY <3>2, <3>3
  <2>8. CASE opcode = OP_INVALID_BYTE
    <3>1. Current = Len(written)
      BY <2>1, <2>3, <2>8, OperationBytes DEF TypeInv
    <3>2. WholeOps \subseteq DOMAIN served'
      <4>1. WholeOps \subseteq 1..Len(written)
        BY WholeOpsFacts DEF TypeInv
      <4>2. QED
        BY <1>5, <1>6, <3>1, <4>1
    <3>3. AllWhole'
      BY <1>2, <2>6, <3>2 DEF AllWhole, OnlyWhole
    <3>4. PlaceInv'
      BY <1>2, <2>8, <3>3 DEF PlaceInv
    <3>5. QED
      BY <2>7, <3>4 DEF ReaderInv
  <2>9. CASE opcode # OP_INVALID_BYTE
    <3>1. pos' = Begin(written, Current + 1)
      <4>1. Current + 1 # 1 /\ (Current + 1) - 1 = Current
        BY <2>1
      <4>2. Begin(written, Current + 1) = End(wop)
        BY <4>1 DEF Begin
      <4>3. QED
        BY <1>2, <2>3, <4>2
    <3>2. Current' = Current + 1
      BY <1>5, <1>6 DEF Current
    <3>3. PlaceInv'
      BY <1>2, <2>3, <2>6, <2>9, <3>1, <3>2 DEF PlaceInv
    <3>4. QED
      BY <2>7, <3>3 DEF ReaderInv
  <2>10. QED
    BY <2>8, <2>9
<1>9. QED
  BY <1>1, <1>7, <1>8

-----------------------------------------------------------------------------
(***************************************************************************)
(* The properties of the reader                                            *)
(***************************************************************************)

LEMMA InvIs == Inv <=> TypeInv /\ (opened => ReaderInv)
BY DEF Inv, TypeInv, ReaderInv

LEMMA InvInit == Init => Inv
<1> SUFFICES ASSUME Init PROVE Inv
  OBVIOUS
<1>1. TypeInv
  BY TypeInit
<1>2. ReaderInv
  BY DEF Init, ReaderInv, PlaceInv, ServedInv
<1>3. QED
  BY <1>1, <1>2, InvIs

LEMMA InvStep == Inv /\ [Next]_vars => Inv'
<1> SUFFICES ASSUME Inv, [Next]_vars PROVE Inv'
  OBVIOUS
<1>1. TypeInv /\ (opened => ReaderInv)
  BY InvIs
<1>2. TypeInv'
  BY <1>1, TypeStep
<1>3. opened' = opened
  BY DEF Next, ReadLayout, EndOfFile, ReadOpcode, ReadField, Exit, EndOfTurn, vars, fileVars
<1>4. ASSUME opened PROVE ReaderInv'
  <2>1. CASE UNCHANGED vars
    <3>1. ReaderInv
      BY <1>1, <1>4
    <3>2. UNCHANGED <<fileVars, served>>
      BY <2>1 DEF vars
    <3>3. PlaceInv'
      BY <2>1, <3>1 DEF ReaderInv, PlaceInv, vars, fileVars, OnlyWhole, AllWhole, OnTrack,
                        Astray, WholeOps, Current
    <3>4. QED
      BY <3>1, <3>2, <3>3, ServedKept DEF ReaderInv
  <2>2. QED
    BY <1>1, <1>4, <2>1, LayoutPlace, EndPlace, OpcodePlace, FieldPlace, ExitPlace, TurnEndPlace
    DEF Next
<1>5. QED
  BY <1>2, <1>3, <1>4 DEF Inv, TypeInv, ReaderInv

\* Every operation that the file holds is read as it was written, value by
\* value: for every edit log Hadoop may write, cut at any byte (the read
\* functions of editlog.cc and the codecs of SimpleReader).
THEOREM ReadAsWritten == Spec => []ServedAsWritten
<1>1. Inv => ServedAsWritten
  <2> SUFFICES ASSUME Inv, opened PROVE ServedAsWritten
    BY DEF ServedAsWritten
  <2>1. TypeInv /\ PlaceInv /\ ServedInv
    BY InvIs DEF ReaderInv
  <2>2. ASSUME pc = "fields", Current \in WholeOps
        PROVE  opcode = Written(Current).opcode /\ IsPrefix(values, Written(Current).values)
    <3> DEFINE op == written[Current]
               all == [k \in DOMAIN op.fields |-> Stands(op.fields[k])]
    <3>1. OnTrack
      BY <2>1, <2>2 DEF PlaceInv, Astray
    <3>2. Written(Current).opcode = op.opcode /\ Written(Current).values = all
      BY DEF Written
    <3>3. Current \in 1..Len(written)
      BY <2>1, <2>2, WholeOpsFacts DEF TypeInv
    <3>4. Len(op.fields) \in Nat /\ DOMAIN op.fields = 1..Len(op.fields)
      BY <2>1, <3>3, OperationType DEF TypeInv
    <3>5. /\ Len(values) \in 0..Len(op.fields)
          /\ values = [j \in 1..Len(values) |-> Stands(op.fields[j])]
          /\ opcode = op.opcode
      BY <3>1 DEF OnTrack
    <3> HIDE DEF op
    <3>6. Len(all) = Len(op.fields) /\ \A j \in 1..Len(op.fields) : all[j] = Stands(op.fields[j])
      BY <3>4
    <3> HIDE DEF all
    <3>7. /\ Len(values) <= Len(all)
          /\ \A j \in 1..Len(values) : values[j] = all[j]
      BY <3>4, <3>5, <3>6
    <3>8. IsPrefix(values, all)
      BY <3>7 DEF IsPrefix
    <3>9. QED
      BY <3>2, <3>5, <3>8
  <2>3. QED
    BY <2>1, <2>2 DEF ServedAsWritten, ServedInv, Current
<1>2. QED
  BY <1>1, InvInit, InvStep, PTL DEF Spec

\* However the file was cut, at most one operation is read that it does not
\* hold (the loop's condition and isEOF).
THEOREM OneBeyond == Spec => []OneTooMany
<1>1. Inv => OneTooMany
  <2> SUFFICES ASSUME Inv, opened PROVE Len(served) <= Cardinality(WholeOps) + 1
    BY DEF OneTooMany
  <2>1. TypeInv /\ PlaceInv
    BY InvIs DEF ReaderInv
  <2> DEFINE n == Len(served)
  <2>2. n \in Nat /\ DOMAIN served = 1..n /\ Len(written) \in Nat
    BY <2>1, ServedDomain
  <2>3. 1..n - 1 \subseteq WholeOps
    <3>1. CASE OnlyWhole
      BY <2>2, <3>1 DEF OnlyWhole
    <3>2. CASE AllWhole
      <4>1. \A i \in 1..n - 1 : i \in DOMAIN served /\ i # Len(served)
        <5>1. ASSUME NEW m \in Nat, NEW i \in 1..m - 1 PROVE i \in 1..m /\ i # m
          OBVIOUS
        <5>2. QED
          BY <2>2, <5>1, Zenon
      <4>2. QED
        BY <3>2, <4>1 DEF AllWhole
    <3>3. CASE served = <<>>
      BY <2>2, <3>3
    <3>4. pc \in {"layout", "opcode", "fields", "done", "exit"}
      BY <2>1 DEF TypeInv, TypeOK
    <3>5. QED
      BY <2>1, <3>1, <3>2, <3>3, <3>4 DEF PlaceInv
  <2>4. IsFiniteSet(WholeOps)
    <3>1. WholeOps \subseteq 1..Len(written)
      BY <2>1, WholeOpsFacts DEF TypeInv
    <3>2. IsFiniteSet(1..Len(written))
      BY <2>2, FS_Interval
    <3>3. QED
      BY <3>1, <3>2, FS_Subset
  <2> HIDE DEF n
  <2>5. Cardinality(WholeOps) \in Nat
    BY <2>4, FS_CardinalityType
  <2>6. CASE n = 0
    BY <2>5, <2>6 DEF n
  <2>7. CASE n # 0
    <3>1. Cardinality(1..n - 1) = n - 1
      <4>1. n - 1 \in Int /\ 1 \in Int
        <5>1. n \in Nat
          BY <2>2
        <5>2. QED
          BY <5>1
      <4>2. Cardinality(1..n - 1) = IF 1 > n - 1 THEN 0 ELSE (n - 1) - 1 + 1
        BY <4>1, FS_Interval
      <4>3. QED
        <5>1. n \in Nat
          BY <2>2
        <5>2. ASSUME NEW m \in Nat, m # 0
              PROVE  (IF 1 > m - 1 THEN 0 ELSE (m - 1) - 1 + 1) = m - 1
          BY <5>2
        <5>3. QED
          BY <2>7, <4>2, <5>1, <5>2
    <3>2. Cardinality(1..n - 1) <= Cardinality(WholeOps)
      BY <2>3, <2>4, FS_Subset
    <3>3. QED
      BY <2>2, <2>5, <3>1, <3>2 DEF n
  <2>8. QED
    BY <2>6, <2>7
<1>2. QED
  BY <1>1, InvInit, InvStep, PTL DEF Spec

\* main ends when all operations of the file were read, or at one that it does
\* not handle, or at the one the file was cut in (its exits and break).
THEOREM EndCause == Spec => []EndsForCause
<1>1. Inv => EndsForCause
  BY InvIs DEF EndsForCause, ReaderInv, PlaceInv, AllWhole, Current
<1>2. QED
  BY <1>1, InvInit, InvStep, PTL DEF Spec
=============================================================================
