----------------------------- MODULE WrittenLog -----------------------------
(***************************************************************************)
(* The files the edit log reader is made for: what Hadoop's FSEditLogOp    *)
(* writes, field by field.  Only of such files something can be said.      *)
(***************************************************************************)
EXTENDS EditLog

\* The bytes of a field: numbers have their most significant byte first,
\* strings come behind their length.  A long of variable length that does not
\* fit in one byte comes behind the number of its bytes, and a negative one is
\* complemented (WritableUtils.writeVLong).
Encodes(kind, value, bytes) ==
  CASE kind = "byte" -> Len(bytes) = 1 /\ value = bytes
    [] kind = "bool" -> value \in {<<0>>, <<1>>} /\ value = bytes
    [] kind = "short" -> Len(bytes) = 2 /\ value = <<Unsigned(bytes)>>
    [] kind = "int" -> Len(bytes) = 4 /\ value = <<Signed(bytes)>>
    [] kind = "long" -> Len(bytes) = 8 /\ value = bytes
    [] kind = "text" -> /\ Len(bytes) = 2 + Len(value)
                        /\ Unsigned(SubSeq(bytes, 1, 2)) = Len(value)
                        /\ SubSeq(bytes, 3, Len(bytes)) = value
    [] kind = "name" -> /\ Len(bytes) = 1 + Len(value)
                        /\ bytes[1] = Len(value) /\ Tail(bytes) = value
    [] kind = "varlong" ->
         LET n    == value[1]
             size == Len(bytes) - 1
         IN  /\ Len(value) = 1
             /\ \/ n \in -112..127 /\ bytes = <<n % 256>>
                \/ /\ n \notin -112..127 /\ size \in 1..8
                   /\ bytes[1] = 256 - (IF n < 0 THEN 120 ELSE 112) - size
                   /\ Unsigned(Tail(bytes)) = IF n < 0 THEN -1 - n ELSE n

\* What the reader still has to read of an operation behind each of its fields.
Reads(op) ==
  LET behind[k \in 0..Len(op.fields)] ==
        IF k = 0 THEN Turn(op.opcode)
        ELSE LET reads == behind[k - 1]
             IN  More(Head(reads), Stands(op.fields[k])) \o Tail(reads)
  IN  behind

\* The k-th field is what the reader takes it for.
Expected(op, k) ==
  LET reads == Reads(op)[k - 1]
  IN  reads # <<>> /\ Head(reads) # "exit" /\ Encoding(Head(reads)) = op.fields[k].kind

RefusedAt(op, k) == Refused(Head(Reads(op)[k - 1]), Stands(op.fields[k]))

\* The reader goes through the operation field by field.
IsHandled(op) ==
  /\ \A k \in DOMAIN op.fields : Expected(op, k) /\ ~RefusedAt(op, k)
  /\ Reads(op)[Len(op.fields)] = <<>>

\* It goes through some fields, and then it knows the opcode is not for it, or
\* refuses the field.
IsRefused(op) ==
  \E k \in 0..Len(op.fields) :
    /\ \A j \in 1..k : Expected(op, j)
    /\ IF k > 0 /\ RefusedAt(op, k) THEN TRUE
       ELSE Reads(op)[k] # <<>> /\ Head(Reads(op)[k]) = "exit"

\* Where the i-th operation begins; behind its opcode and k fields.
Begin(ops, i) == IF i = 1 THEN 8 ELSE End(ops[i - 1])
Behind(ops, i, k) == IF k = 0 THEN Begin(ops, i) + 1 ELSE ops[i].fields[k].end

\* Behind the version and the flags there are the operations, one after the
\* other, and nothing else; only the last one can be the mark of the end.
ASSUME LogAssumption ==
  \A f \in Files :
    LET ops == f.written
    IN  /\ Len(ops) < MaxServed
        /\ Len(f.bytes) = Begin(ops, Len(ops) + 1)
        /\ \A i, j \in DOMAIN ops : i < j => End(ops[i]) < End(ops[j])
        /\ \A i \in DOMAIN ops :
             /\ ops[i].fields # <<>>
             /\ Begin(ops, i) < Len(f.bytes) /\ f.bytes[Begin(ops, i) + 1] = ops[i].opcode
             /\ ops[i].opcode = OP_INVALID_BYTE => i = Len(ops)
             /\ IF ops[i].handled THEN IsHandled(ops[i]) ELSE IsRefused(ops[i])
             /\ \A k \in DOMAIN ops[i].fields :
                  LET from == Behind(ops, i, k - 1)
                      to   == Behind(ops, i, k)
                  IN  /\ from < to /\ to <= End(ops[i])
                      /\ Encodes(ops[i].fields[k].kind, ops[i].fields[k].value,
                                 SubSeq(f.bytes, from + 1, to))
=============================================================================
