------------------------------ MODULE EditLog ------------------------------
(***************************************************************************)
(* The edit log reader (editlog.cc): a loop that reads an opcode, the      *)
(* fields of its operation and a checksum, until the file ends.            *)
(*                                                                         *)
(* SimpleReader learns of the end from a read that goes beyond it, one     *)
(* read late: the opcode is then the one before, and the operation is read *)
(* once more, from nothing.  Reads behind the end leave their variable as  *)
(* it was, which for most of them means: never set.                        *)
(***************************************************************************)
EXTENDS StreamReader, FiniteSets, SequencesExt

CONSTANTS
  Files,       \* files: their bytes, and the operations that were written
  AnyOpcode,   \* what the opcode holds before it is set
  MaxServed    \* the history keeps so many operations

Bytes == 0..255
FieldKinds == DOMAIN Size \cup {"text", "name", "varlong"}

\* An operation has an opcode and fields, each of a kind, with a value and the
\* place where it ends; it may hold what the reader does not handle.
ASSUME FileAssumption ==
  /\ \A f \in Files :
       /\ f.bytes \in Seq(Bytes)
       /\ f.written \in Seq([opcode : Bytes, handled : BOOLEAN,
                             fields : Seq([kind : FieldKinds, value : Seq(Int), end : Nat])])
  /\ AnyOpcode \subseteq Bytes
  /\ MaxServed \in Nat

NoOpcode == -1

OP_ADD == 0
OP_RENAME_OLD == 1
OP_MKDIR == 3
OP_CLOSE == 9
OP_END_LOG_SEGMENT == 23
OP_START_LOG_SEGMENT == 24
OP_SET_GENSTAMP_V2 == 31
OP_ALLOCATE_BLOCK_ID == 32
OP_ADD_BLOCK == 33
OP_INVALID_BYTE == 255

VARIABLES
  written,   \* the operations of the file when it was whole
  file,      \* the file, which may have been cut
  opened,    \* whether it could be opened
  pos,       \* how much of it was read
  eof,       \* the eofbit
  pc,        \* where main is
  opcode,
  todo,      \* the reads the operation has still to do
  values,    \* what those before them found (history)
  served     \* the operations that were read so far (history)

fileVars == <<written, file, opened>>
vars == <<fileVars, pos, eof, pc, opcode, todo, values, served>>

-----------------------------------------------------------------------------
(***************************************************************************)
(* The fields of each operation, in the order they are read                *)
(***************************************************************************)

readPermissionStatus == <<"name", "name", "short">>
readRpcIds == <<"text", "int">>

readAddClose ==
  <<"long", "text", "short", "long", "long", "long", "blocks">> \o readPermissionStatus

readAdd ==
  readAddClose \o <<"acl", "xattr", "text", "text", "bool", "byte", "byte">> \o readRpcIds

readAddBlock == <<"text", "compact">> \o readRpcIds

readRenameOld == <<"text", "text", "long">> \o readRpcIds

\* The size of the ACL is printed; its entries are not read.
readMkDir == <<"long", "text", "long", "long">> \o readPermissionStatus \o <<"aclsize", "xattr">>

\* The switch of main.  Nothing follows the end of a segment, or an opcode
\* that is not known.
Fields(op) ==
  CASE op = OP_ADD -> readAdd
    [] op = OP_RENAME_OLD -> readRenameOld
    [] op = OP_MKDIR -> readMkDir
    [] op = OP_CLOSE -> readAddClose
    [] op \in {OP_SET_GENSTAMP_V2, OP_ALLOCATE_BLOCK_ID} -> <<"long">>
    [] op = OP_ADD_BLOCK -> readAddBlock
    [] op \in {OP_START_LOG_SEGMENT, OP_INVALID_BYTE} -> <<>>
    [] OTHER -> <<"exit">>

\* The reads of one turn of the loop: length and txid, fields, checksum.
Turn(op) == <<"int", "long">> \o Fields(op) \o <<"int">>

\* How fields are encoded that are more than their kind of number.
Encoding(field) ==
  CASE field \in {"blocks", "acl", "aclsize"} -> "int" [] field = "compact" -> "varlong"
    [] field = "xattr" -> "byte" [] OTHER -> field

\* The loops of readBlocks and readBlocksCompactArray.
More(field, value) ==
  CASE field = "blocks" -> [i \in 1..3 * value[1] |-> "long"]
    [] field = "compact" -> [i \in 1..3 * value[1] |-> IF i % 3 = 1 THEN "long" ELSE "varlong"]
    [] OTHER -> <<>>

\* What readAdd and readMkDir end the process for: an ACL (readAdd only), an
\* attribute message, or a size of it that takes two bytes.
Refused(field, value) ==
  (field = "acl" /\ value[1] > 0) \/ (field = "xattr" /\ value[1] # 0)

-----------------------------------------------------------------------------
(***************************************************************************)
(* The stream                                                              *)
(***************************************************************************)

Rest == SubSeq(file, pos + 1, Len(file))

\* A read of n bytes finds them all.
Whole(n) == opened /\ ~eof /\ n <= Len(Rest)

\* Mutant of Advance: a read beyond the end is not noticed.
AdvanceSilently(n) ==
  /\ pos' = IF Whole(n) THEN pos + n ELSE IF opened THEN Len(file) ELSE pos
  /\ UNCHANGED eof

\* Mutant of Advance: the place moves on over the end.
AdvanceBeyond(n) ==
  /\ pos' = pos + n
  /\ eof' = (eof \/ (opened /\ ~Whole(n)))

\* The end is noticed by a read that goes beyond it.
Advance(n) ==
  /\ pos' = IF Whole(n) THEN pos + n ELSE IF opened THEN Len(file) ELSE pos
  /\ eof' = (eof \/ (opened /\ ~Whole(n)))

\* A count that was never set; the loops it would drive are cut at one turn.
AnyCount == {<<0>>, <<1>>}

\* Fields whose variable decides on what is read behind them.
Deciding == {"blocks", "compact", "acl", "xattr"}

\* Fields whose variable was set to 0, which a read behind the end leaves: the
\* size of an attribute message, and that of a directory's ACL, which shares
\* its variable with the length that readMkDir does not read.
SetToZero == {"aclsize", "xattr"}

\* What the variable of a field may hold after the read; <<>> where nothing
\* depends on what is left in it.
Found(field) ==
  LET n == Extent(Encoding(field), Rest)
  IN  CASE Whole(n) -> {Value(Encoding(field), SubSeq(Rest, 1, n))}
        [] ~Whole(n) /\ eof /\ field \in SetToZero -> {<<0>>}
        [] ~Whole(n) /\ ~(eof /\ field \in SetToZero) ->
             IF field \in Deciding THEN AnyCount ELSE {<<>>}

-----------------------------------------------------------------------------
(***************************************************************************)
(* main                                                                    *)
(***************************************************************************)

\* The file was left by a name node that may have stopped at any byte, or it
\* is not there.
Init ==
  /\ \/ /\ opened = TRUE
        /\ \E f \in Files : /\ written = f.written
                            /\ \E n \in 0..Len(f.bytes) : file = SubSeq(f.bytes, 1, n)
     \/ opened = FALSE /\ written = <<>> /\ file = <<>>
  /\ pos = 0
  /\ eof = FALSE
  /\ pc = "layout"
  /\ opcode = NoOpcode
  /\ todo = <<>>
  /\ values = <<>>
  /\ served = <<>>

\* The log version and the layout flags, which decide on nothing.
ReadLayout ==
  /\ pc = "layout"
  /\ Advance(8)
  /\ pc' = "opcode"
  /\ UNCHANGED <<fileVars, opcode, todo, values, served>>

\* Mutant of EndOfFile: the end is where nothing is left to read.
EndOfFileNever ==
  /\ pc = "opcode" /\ eof /\ file = <<>>
  /\ pc' = "done"
  /\ UNCHANGED <<fileVars, pos, eof, opcode, todo, values, served>>

\* The loop ends once an earlier read has met the end.
EndOfFile ==
  /\ pc = "opcode" /\ eof
  /\ pc' = "done"
  /\ UNCHANGED <<fileVars, pos, eof, opcode, todo, values, served>>

\* A byte that is not there leaves the opcode as it was.
ReadOpcode ==
  /\ pc = "opcode" /\ ~eof
  /\ Advance(1)
  /\ opcode' \in IF Whole(1) THEN {Rest[1]}
                 ELSE IF opcode # NoOpcode THEN {opcode} ELSE AnyOpcode
  /\ todo' = Turn(opcode')
  /\ values' = <<>>
  /\ pc' = "fields"
  /\ UNCHANGED <<fileVars, served>>

ReadField ==
  /\ pc = "fields" /\ todo # <<>> /\ Head(todo) # "exit"
  /\ Advance(Extent(Encoding(Head(todo)), Rest))
  /\ \E v \in Found(Head(todo)) :
       /\ values' = Append(values, v)
       /\ IF Refused(Head(todo), v)
          THEN pc' = "exit" /\ todo' = <<>>
          ELSE todo' = More(Head(todo), v) \o Tail(todo) /\ UNCHANGED pc
  /\ UNCHANGED <<fileVars, opcode, served>>

Exit ==
  /\ pc = "fields" /\ todo # <<>> /\ Head(todo) = "exit"
  /\ pc' = "exit"
  /\ todo' = <<>>
  /\ UNCHANGED <<fileVars, pos, eof, opcode, values, served>>

\* Mutant of EndOfTurn: the loop ends at the start of a segment.
EndOfTurnAtStart ==
  /\ pc = "fields" /\ todo = <<>>
  /\ served' = IF Len(served) < MaxServed
               THEN Append(served, [opcode |-> opcode, values |-> values]) ELSE served
  /\ pc' = IF opcode = OP_START_LOG_SEGMENT THEN "done" ELSE "opcode"
  /\ UNCHANGED <<fileVars, pos, eof, opcode, todo, values>>

\* The operation is over; OP_INVALID ends the loop.
EndOfTurn ==
  /\ pc = "fields" /\ todo = <<>>
  /\ served' = IF Len(served) < MaxServed
               THEN Append(served, [opcode |-> opcode, values |-> values]) ELSE served
  /\ pc' = IF opcode = OP_INVALID_BYTE THEN "done" ELSE "opcode"
  /\ UNCHANGED <<fileVars, pos, eof, opcode, todo, values>>

Next ==
  ReadLayout \/ EndOfFile \/ ReadOpcode \/ ReadField \/ Exit \/ EndOfTurn

Spec == Init /\ [][Next]_vars

\* A program of one thread that runs.
FairSpec == Spec /\ WF_vars(Next)

-----------------------------------------------------------------------------
(***************************************************************************)
(* Properties                                                              *)
(***************************************************************************)

Kinds == FieldKinds \cup {"blocks", "compact", "acl", "aclsize", "xattr", "exit"}

\* Type correctness; only a file that could be opened has an end.
TypeOK ==
  /\ pos \in 0..Len(file)
  /\ eof \in BOOLEAN /\ (eof => opened /\ pos = Len(file))
  /\ pc \in {"layout", "opcode", "fields", "done", "exit"}
  /\ opcode \in Bytes \cup {NoOpcode}
  /\ todo \in Seq(Kinds)
  /\ values \in Seq(Seq(Int))
  /\ served \in Seq([opcode : Bytes, values : Seq(Seq(Int))])

\* Where an operation ends.
End(op) == op.fields[Len(op.fields)].end

\* The operations of which the file still holds every byte.
WholeOps == {i \in DOMAIN written : End(written[i]) <= Len(file)}

\* What is to be read of a field: its value, but of a negative number of
\* several bytes the complement, which is how it is written.
Stands(field) ==
  IF field.kind = "varlong" /\ field.value[1] < -112
  THEN <<-1 - field.value[1]>> ELSE field.value

Written(i) ==
  LET op == written[i]
  IN  [opcode |-> op.opcode, values |-> [k \in DOMAIN op.fields |-> Stands(op.fields[k])]]

\* Every operation that the file holds is read as it was written, value by
\* value, and those of it that were read so far as well (the read functions
\* of editlog.cc and the codecs of SimpleReader).  Only the sign of a negative
\* number of several bytes is lost, and nothing else with it (readVarLong64).
ServedAsWritten ==
  opened =>
    /\ \A i \in DOMAIN served \cap WholeOps : served[i] = Written(i)
    /\ (pc = "fields" /\ Len(served) + 1 \in WholeOps) =>
         /\ opcode = Written(Len(served) + 1).opcode
         /\ IsPrefix(values, Written(Len(served) + 1).values)

\* However the file was cut, at most one operation is read that it does not
\* hold (the loop's condition and isEOF).
OneTooMany == opened => Len(served) <= Cardinality(WholeOps) + 1

\* main ends when all operations of the file were read, or at one that it
\* does not handle, or at the one the file was cut in (its exits and break).
EndsForCause ==
  LET next == Len(served) + 1
  IN  opened =>
        /\ (pc = "done") => WholeOps \subseteq DOMAIN served
        /\ (pc = "exit" /\ next \in WholeOps) => ~written[next].handled

\* A file that can be opened is read to an end.
Ends == opened ~> pc \in {"done", "exit"}
=============================================================================
