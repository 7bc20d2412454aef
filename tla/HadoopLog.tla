----------------------------- MODULE HadoopLog -----------------------------
(***************************************************************************)
(* Edit logs for TLC, written as Hadoop's FSEditLogOp writes them.         *)
(***************************************************************************)
EXTENDS EditLog

\* The writer's encodings.  A field is [kind, value].
Int32(n) == IF n < 0 THEN <<255, 255, 255, 256 + n>> ELSE <<0, 0, n \div 256, n % 256>>
Int16(n) == <<n \div 256, n % 256>>
VLong(n) ==
  CASE n \in -112..127 -> <<n % 256>> [] n \in 128..255 -> <<143, n>>
    [] n \in 256..65535 -> <<142, n \div 256, n % 256>>
    [] n \in -256..-113 -> <<135, -1 - n>>
    [] n \in -65536..-257 -> <<134, (-1 - n) \div 256, (-1 - n) % 256>>

Encoded(kind, value) ==
  CASE kind = "int" -> Int32(value[1])
    [] kind = "short" -> Int16(value[1])
    [] kind \in {"byte", "bool", "long"} -> value
    [] kind = "text" -> Int16(Len(value)) \o value
    [] kind = "name" -> <<Len(value)>> \o value
    [] kind = "varlong" -> VLong(value[1])

Field(kind, value) == [kind |-> kind, value |-> value]
I(n) == Field("int", <<n>>)
S(n) == Field("short", <<n>>)
B(n) == Field("byte", <<n>>)
V(n) == Field("varlong", <<n>>)
L(n) == Field("long", <<0, 0, 0, 0, 0, 0, 0, n>>)
Padding == Field("long", [i \in 1..8 |-> 255])
Path == Field("text", <<47, 97>>)
Empty == Field("text", <<>>)
Permission == <<Field("name", <<117>>), Field("name", <<103>>), S(493)>>
RpcIds == <<Field("text", <<7, 8>>), I(-2)>>

Op(op, fields, handled) ==
  [opcode |-> op, fields |-> <<I(300), L(1)>> \o fields \o <<I(9)>>, handled |-> handled]

File(blocks) == <<L(5), Path, S(3), L(1), L(1), L(9)>> \o blocks \o Permission
NoBlocks == <<I(0)>>
TwoBlocks == <<I(2), L(1), L(2), L(3), L(4), L(5), L(6)>>
AddRest(acl, xattr) ==
  <<I(acl), B(xattr), Path, Empty, Field("bool", <<1>>), B(7), B(0)>> \o RpcIds

Add(acl, xattr) ==
  Op(OP_ADD, File(NoBlocks) \o AddRest(acl, xattr), acl = 0 /\ xattr = 0)
Close == Op(OP_CLOSE, File(TwoBlocks), TRUE)
MkDir(xattr) ==
  Op(OP_MKDIR, <<L(6), Path, L(1), L(0)>> \o Permission \o <<I(0), B(xattr)>>, xattr = 0)
Rename == Op(OP_RENAME_OLD, <<Path, Path, L(1)>> \o RpcIds, TRUE)

\* The last block may be smaller than the one before.
AddBlock(more) ==
  Op(OP_ADD_BLOCK, <<Path, V(2), L(1), V(200), V(-5), L(2), V(more), V(0)>> \o RpcIds, TRUE)
Start == Op(OP_START_LOG_SEGMENT, <<>>, TRUE)
EndSegment == Op(OP_END_LOG_SEGMENT, <<>>, FALSE)
GenStamp == Op(OP_SET_GENSTAMP_V2, <<L(2)>>, TRUE)
Allocate == Op(OP_ALLOCATE_BLOCK_ID, <<L(2)>>, TRUE)
Delete == Op(2, <<Path, L(1)>>, FALSE)
Invalid == [opcode |-> OP_INVALID_BYTE, fields |-> <<I(-1), Padding, I(-1)>>, handled |-> TRUE]

OpBytes(op) ==
  <<op.opcode>> \o FlattenSeq([i \in DOMAIN op.fields |->
                                 Encoded(op.fields[i].kind, op.fields[i].value)])

\* Where the fields of an operation end that begins behind the n-th byte.
FieldEnds(op, n) ==
  LET upTo[k \in 0..Len(op.fields)] ==
        IF k = 0 THEN n + 1
        ELSE upTo[k - 1] + Len(Encoded(op.fields[k].kind, op.fields[k].value))
  IN  upTo

WrittenAt(op, n) ==
  LET ends == FieldEnds(op, n)
  IN  [opcode |-> op.opcode, handled |-> op.handled,
       fields |-> [k \in DOMAIN op.fields |->
         [kind |-> op.fields[k].kind, value |-> op.fields[k].value, end |-> ends[k]]]]

\* The log version -64 and the flags, and then the operations.
LogFile(ops) ==
  LET upTo[n \in 0..Len(ops)] ==
        IF n = 0 THEN Int32(-64) \o Int32(0) ELSE upTo[n - 1] \o OpBytes(ops[n])
  IN  [bytes |-> upTo[Len(ops)],
       written |-> [i \in DOMAIN ops |-> WrittenAt(ops[i], Len(upTo[i - 1]))]]
=============================================================================
