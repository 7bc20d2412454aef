---------------------------- MODULE StreamReader ----------------------------
(***************************************************************************)
(* SimpleReader (simplerw.cc): how many bytes a read takes from what is    *)
(* left of a file, and what value it finds in them.  A value is a sequence *)
(* of numbers: one number, the characters of a string, or the bytes of a   *)
(* long, which nobody computes with.                                       *)
(***************************************************************************)
EXTENDS Integers, Sequences

\* sizeof of what is read in one piece.
Size == [byte |-> 1, bool |-> 1, short |-> 2, int |-> 4, long |-> 8]

\* The first byte of a long of variable length tells how many there are.
sbyte(b) == IF b >= 128 THEN b - 256 ELSE b

\* Mutant of decodeByteIntSize: without the first byte.
decodeByteIntSizeShort(b) ==
  CASE b >= -112 -> 1 [] b < -120 -> -120 - b [] OTHER -> -112 - b

decodeByteIntSize(b) ==
  CASE b >= -112 -> 1 [] b < -120 -> -119 - b [] OTHER -> -111 - b

\* The number that has these bytes behind the ones that were read before.
BigEndian(before, bytes) ==
  LET upTo[k \in 0..Len(bytes)] == IF k = 0 THEN before ELSE 256 * upTo[k - 1] + bytes[k]
  IN  upTo[Len(bytes)]

Unsigned(bytes) == BigEndian(0, bytes)
Signed(bytes) == BigEndian(sbyte(bytes[1]), Tail(bytes))

\* How many bytes a read asks for: strings come behind their length.
Extent(kind, rest) ==
  CASE kind \in DOMAIN Size -> Size[kind]
    [] kind = "text" -> IF Len(rest) < 2 THEN 2 ELSE 2 + Unsigned(SubSeq(rest, 1, 2))
    [] kind = "name" -> IF rest = <<>> THEN 1 ELSE 1 + rest[1]
    [] kind = "varlong" -> IF rest = <<>> THEN 1 ELSE decodeByteIntSize(sbyte(rest[1]))

\* readVarLong64.  It asks the size, and not the first byte, for the sign, so
\* that a long of several bytes is never negative.
VarLong(bytes) ==
  IF Len(bytes) = 1 THEN sbyte(bytes[1]) ELSE Unsigned(Tail(bytes))

\* What a read finds in the bytes it asked for.
Value(kind, bytes) ==
  CASE kind = "byte" -> bytes
    [] kind = "bool" -> <<IF bytes[1] = 0 THEN 0 ELSE 1>>
    [] kind = "short" -> <<Unsigned(bytes)>>
    [] kind = "int" -> <<Signed(bytes)>>
    [] kind = "long" -> bytes
    [] kind = "text" -> SubSeq(bytes, 3, Len(bytes))
    [] kind = "name" -> Tail(bytes)
    [] kind = "varlong" -> <<VarLong(bytes)>>
=============================================================================
