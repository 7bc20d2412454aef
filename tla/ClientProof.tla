---------------------------- MODULE ClientProof ----------------------------
(***************************************************************************)
(* Theorems about Client, for every value of its constants.                *)
(***************************************************************************)
EXTENDS Client, MessageProof

-----------------------------------------------------------------------------
(***************************************************************************)
(* The inductive invariant                                                 *)
(***************************************************************************)

\* What serialize makes, deserialize reads back.
Forwards(m) == Deserializes(serialize(m)) /\ deserialize(serialize(m)) = m

\* From Ask on a command is one of three and can be told from its text, and
\* what was sent to a chunk server is that text.
CommandInv ==
  /\ pc \notin {"start", "prompt", "gone"} =>
       command.mtype \in Forwarded /\ Forwards(command)
  /\ pc = "ask" => asked < MaxCommands
  /\ pc \in {"answer", "decode", "request", "blocks", "reply", "close"} => asked >= 1
  /\ pc \in {"blocks", "reply", "close"} => sent = serialize(command)

\* The master's stream has no NUL and ends with the answer before.
EndsWith(units, end) ==
  /\ Len(end) <= Len(units)
  /\ \A i \in 1..Len(end) : units[Len(units) - Len(end) + i] = end[i]

StreamInv ==
  /\ stream \in Seq(Part \cup Verb \cup {Sep})
  /\ answers # <<>> => EndsWith(stream, serialize(answers[Len(answers)]))

\* The buffer holds the last read, above it what reads before left, and above
\* those it is as new.  The string was made of it.
BufferInv ==
  /\ taken - from <= BufSize
  /\ \A i \in 1..taken - from : buffer[i] = stream[from + i]
  /\ \A i \in 1..BufSize : i > high /\ i > taken - from => buffer[i] = Nul
  /\ text \in CStrings(buffer)

\* The message is the one in the string.
AddressInv ==
  pc \in {"request", "blocks", "reply", "close"} =>
    Deserializes(text) /\ msg = deserialize(text)

Inv == TypeOK /\ CommandInv /\ StreamInv /\ BufferInv /\ AddressInv

-----------------------------------------------------------------------------
(***************************************************************************)
(* What the master sends and the client makes of its buffer                *)
(***************************************************************************)

LEMMA Bounds == /\ BufSize \in Nat \ {0} /\ Junk \in Unit /\ Nul \in Unit
                /\ Part \cup Verb \cup {Sep} \subseteq Unit
                /\ Nul \notin Part \cup Verb \cup {Sep}
  BY BoundAssumption DEF Unit

\* A typed command is made of pieces, and it survives being sent on.
LEMMA TypedCommand ==
  ASSUME NEW line \in Line, NEW m \in Deserialized(line)
  PROVE  m \in MessageOver(Unit) /\ Forwards(m)
<1>1. Deserializes(line) /\ m = deserialize(line)
  BY DEF Deserialized
<1>2. line \in Seq(Part \cup Verb \cup {Sep})
  BY LineAssumption
<1>3. line \in Seq(Unit)
  BY <1>2, Bounds, SeqMonotonic
<1>4. m \in MessageOver(Unit)
  BY <1>1, <1>3, DeserializeType
<1>5. Forwards(m)
  BY <1>1, <1>3, ForwardedAlike DEF Forwards
<1>6. QED
  BY <1>4, <1>5

\* An answer is a text without NUL, and what it carries is its address.
LEMMA AnswerText ==
  ASSUME NEW m \in Address
  PROVE  /\ serialize(m) \in Seq(Part \cup Verb \cup {Sep})
         /\ Len(serialize(m)) \in Nat \ {0}
         /\ Deserializes(serialize(m))
         /\ AddressIn(deserialize(serialize(m))) = AddressIn(m)
<1> DEFINE U == Part \cup Verb \cup {Sep}
<1>1. /\ m \in Message /\ m.mtype = "CSDISCOVER"
      /\ m.chunkServerHostName # <<>> /\ m.chunkServerPortNum # <<>>
  BY AddressAssumption
<1>2. m \in MessageOver(U)
  <2>1. Seq(Part) \subseteq Seq(U) /\ Seq(Part \cup {Sep}) \subseteq Seq(U)
    BY SeqMonotonic
  <2> HIDE DEF U
  <2>2. QED
    BY <1>1, <2>1 DEF Message, MessageOver
<1>3. \A a \in Seq(Part) : Free(a)
  BY ElementOfSeq, PieceAssumption DEF Free
<1>4. m.chunkServerHostName \in Seq(Part) /\ m.chunkServerPortNum \in Seq(Part)
  BY <1>1 DEF Message
<1>5. Legible(m)
  BY <1>1, <1>3, <1>4 DEF Legible, IsField
<1>6. Verb \subseteq U /\ Sep \in U
  OBVIOUS
<1> HIDE DEF U
<1>7. Deserializes(serialize(m)) /\ deserialize(serialize(m)) = Carried(m)
  BY <1>2, <1>5, <1>6, LegibleArrives
<1>8. /\ Carried(m).chunkServerHostName = m.chunkServerHostName
      /\ Carried(m).chunkServerPortNum = m.chunkServerPortNum
  BY <1>1 DEF Carried, EmptyMessage
<1>9. AddressIn(deserialize(serialize(m))) = AddressIn(m)
  BY <1>7, <1>8 DEF AddressIn
<1>10. serialize(m) \in Seq(U) /\ Len(serialize(m)) \in Nat \ {0}
  BY <1>2, <1>6, SerializeOver, LenProperties
<1>11. QED
  BY <1>7, <1>9, <1>10 DEF U

\* What is in a sequence after something was appended to it.
LEMMA Appended ==
  ASSUME NEW U, NEW s \in Seq(U), NEW t \in Seq(U)
  PROVE  /\ s \o t \in Seq(U) /\ Len(s \o t) = Len(s) + Len(t)
         /\ \A i \in 1..Len(s) : (s \o t)[i] = s[i]
         /\ EndsWith(s \o t, t)
<1> DEFINE st == s \o t
<1>1. Len(s) \in Nat /\ Len(t) \in Nat
  BY LenProperties
<1>2. /\ st \in Seq(U) /\ Len(st) = Len(s) + Len(t)
      /\ \A i \in 1..Len(s) + Len(t) :
           st[i] = IF i <= Len(s) THEN s[i] ELSE t[i - Len(s)]
  BY ConcatProperties
<1> HIDE DEF st
<1>3. \A i \in 1..Len(s) : st[i] = s[i]
  BY <1>1, <1>2
<1>4. ASSUME NEW i \in 1..Len(t) PROVE st[Len(st) - Len(t) + i] = t[i]
  <2>1. /\ Len(st) - Len(t) + i = Len(s) + i
        /\ Len(s) + i \in 1..Len(s) + Len(t)
        /\ ~(Len(s) + i <= Len(s)) /\ (Len(s) + i) - Len(s) = i
    BY <1>1, <1>2
  <2>2. QED
    BY <1>2, <2>1
<1>5. EndsWith(st, t)
  BY <1>1, <1>2, <1>4 DEF EndsWith
<1>6. QED
  BY <1>2, <1>3, <1>5 DEF st

-----------------------------------------------------------------------------
(***************************************************************************)
(* The invariant holds at first                                            *)
(***************************************************************************)
LEMMA InvInit == Init => Inv
<1> SUFFICES ASSUME Init PROVE Inv
  OBVIOUS
<1>1. TypeOK
  <2>1. NoMessage \in MessageOver(Unit)
    BY EmptySeq DEF NoMessage, EmptyMessage, MessageOver, MessageType
  <2>2. buffer \in [1..BufSize -> Unit]
    BY Bounds DEF Init, NewBuffer
  <2>3. Len(stream) = 0 /\ stream \in Seq(Unit) /\ answers \in Seq(Address)
        /\ text \in Seq(Unit) /\ sent \in Seq(Unit)
    BY EmptySeq DEF Init
  <2>4. high \in 0..BufSize /\ asked \in 0..MaxCommands /\ left \in 0..MaxBlocks
    BY Bounds, BoundAssumption DEF Init
  <2>5. QED
    <3>1. taken \in 0..Len(stream) /\ from \in 0..taken
      BY <2>3 DEF Init
    <3>2. /\ pc = "start" /\ master = "absent" /\ open = FALSE
          /\ command = NoMessage /\ msg = NoMessage
      BY DEF Init
    <3>3. QED
      BY <2>1, <2>2, <2>3, <2>4, <3>1, <3>2 DEF TypeOK
<1>2. CommandInv
  BY DEF Init, CommandInv
<1>3. StreamInv
  BY EmptySeq DEF Init, StreamInv
<1>4. BufferInv
  <2>1. \A i \in 1..BufSize : buffer[i] = Nul
    BY DEF Init, NewBuffer
  <2>2. buffer \in [1..BufSize -> Unit]
    BY <1>1 DEF TypeOK
  <2>3. Nuls(buffer) = 1..BufSize
    BY <2>1 DEF Nuls
  <2>4. Min(1..BufSize) = 1
    <3>1. 1..BufSize \in SUBSET Nat /\ 1 \in 1..BufSize
      BY Bounds
    <3>2. Min(1..BufSize) \in 1..BufSize /\ Min(1..BufSize) <= 1
      BY <3>1, MinOfNats
    <3>3. QED
      BY <3>2, Bounds
  <2>5. Leading(buffer, 0) = <<>>
    <3>1. Leading(buffer, 0) \in Seq(Unit) /\ Len(Leading(buffer, 0)) = 0
      <4>1. \A i \in 1..0 : buffer[i] \in Unit
        OBVIOUS
      <4>2. QED
        BY <4>1, IsASeq, LenProperties DEF Leading
    <3>2. QED
      BY <3>1, EmptySeq
  <2>6. CStrings(buffer) = {<<>>}
    <3>1. Nuls(buffer) # {} /\ Min(Nuls(buffer)) - 1 = 0
      BY <2>3, <2>4, Bounds
    <3>2. QED
      BY <2>5, <3>1 DEF CStrings
  <2>7. QED
    BY <2>1, <2>6, Bounds DEF Init, BufferInv
<1>5. AddressInv
  BY DEF Init, AddressInv
<1>6. QED
  BY <1>1, <1>2, <1>3, <1>4, <1>5 DEF Inv

-----------------------------------------------------------------------------
(***************************************************************************)
(* Type correctness                                                        *)
(***************************************************************************)

\* A read takes no more than has come and fits.
LEMMA ReadTypes ==
  ASSUME TypeOK, BufferInv, ReadAnswer
  PROVE  /\ taken' = taken + (taken' - from') /\ from' = taken
         /\ from \in Nat /\ taken \in Nat /\ Len(stream) \in Nat
         /\ taken' - from' \in 0..BufSize /\ taken' <= Len(stream)
         /\ buffer' = Overwritten(buffer, stream, taken, taken' - from')
         /\ buffer' \in [1..BufSize -> Unit]
         /\ text' \in CStrings(buffer')
         /\ high' = IF taken - from > high THEN taken - from ELSE high
<1>1. PICK n \in 0..BufSize :
        /\ n <= Unread
        /\ buffer' = Overwritten(buffer, stream, taken, n)
        /\ text' \in CStrings(Overwritten(buffer, stream, taken, n))
        /\ taken' = taken + n
        /\ from' = taken
        /\ high' = IF taken - from > high THEN taken - from ELSE high
  BY DEF ReadAnswer
<1>2. from \in Nat /\ taken \in Nat /\ Len(stream) \in Nat /\ n \in Nat
      /\ n <= Len(stream) - taken
  <2>1. Len(stream) \in Nat
    BY LenProperties DEF TypeOK
  <2>2. from \in Nat /\ taken \in Nat
    BY <2>1 DEF TypeOK
  <2>3. QED
    BY <1>1, <2>1, <2>2, Bounds DEF Unread
<1>3. taken' - from' = n
  BY <1>1, <1>2
<1>4. \A i \in 1..n : stream[taken + i] \in Unit
  <2>1. \A i \in 1..n : taken + i \in 1..Len(stream)
    BY <1>2
  <2>2. QED
    BY <2>1, ElementOfSeq DEF TypeOK
<1>5. Overwritten(buffer, stream, taken, n) \in [1..BufSize -> Unit]
  BY <1>4, <1>2, Bounds DEF Overwritten, TypeOK
<1>6. taken' <= Len(stream)
  BY <1>1, <1>2
<1>7. QED
  BY <1>1, <1>2, <1>3, <1>5, <1>6

LEMMA TypeStep == Inv /\ [Next]_vars => TypeOK'
<1> SUFFICES ASSUME Inv, [Next]_vars PROVE TypeOK'
  OBVIOUS
<1>0. TypeOK /\ BufferInv
  BY DEF Inv
<1>1. CASE \/ ConnectToMaster \/ TypeEnds \/ AskEnds \/ ReadAnswerFails \/ DecodeEnds
           \/ SendRequestEnds \/ FinishedUploading \/ ChunkServerLost \/ ReadReply
           \/ MasterCloses \/ UNCHANGED vars
  BY <1>0, <1>1 DEF TypeOK, ConnectToMaster, TypeEnds, AskEnds, ReadAnswerFails, DecodeEnds,
     SendRequestEnds, FinishedUploading, ChunkServerLost, ReadReply, MasterCloses, vars,
     masterVars, readVars, chunkVars
<1>2. CASE Type
  <2>1. PICK line \in Line : \E m \in Deserialized(line) : command' = m
    BY <1>2 DEF Type
  <2>2. command' \in MessageOver(Unit)
    BY <2>1, TypedCommand
  <2>3. pc' = "ask" \/ pc' = pc
    BY <1>2 DEF Type
  <2>4. pc = "prompt" /\ UNCHANGED <<masterVars, readVars, msg, chunkVars>>
    BY <1>2 DEF Type
  <2>5. QED
    BY <1>0, <2>2, <2>3, <2>4 DEF TypeOK, masterVars, readVars, chunkVars
<1>3. CASE Ask
  <2>1. asked < MaxCommands
    BY <1>3 DEF Ask, Inv, CommandInv
  <2>2. QED
    BY <1>0, <1>3, <2>1, BoundAssumption DEF TypeOK, Ask, readVars, chunkVars
<1>4. CASE ReadAnswer
  <2>1. /\ buffer' \in [1..BufSize -> Unit] /\ text' \in CStrings(buffer')
        /\ taken' \in 0..Len(stream) /\ from' \in 0..taken'
    BY <1>0, <1>4, Bounds, ReadTypes
  <2>2. text' \in Seq(Unit)
    BY <2>1, Bounds, CStringsType
  <2>3. high' \in 0..BufSize
    <3>1. taken - from <= BufSize /\ high \in 0..BufSize
      BY <1>0 DEF TypeOK, BufferInv
    <3>2. QED
      BY <1>0, <1>4, <3>1, Bounds, ReadTypes
  <2>4. pc' \in {"prompt", "decode"}
        /\ UNCHANGED <<masterVars, command, msg, chunkVars>>
    BY <1>4 DEF ReadAnswer
  <2>5. QED
    BY <1>0, <2>1, <2>2, <2>3, <2>4 DEF TypeOK, masterVars, chunkVars
<1>5. CASE ConnectToChunkServer
  <2>1. PICK m \in Deserialized(text) : Usable(m) /\ msg' = m
    BY <1>5 DEF ConnectToChunkServer
  <2>2. msg' \in MessageOver(Unit) /\ Usable(msg')
    BY <1>0, <2>1, DeserializeType DEF Deserialized, TypeOK
  <2>3. left' \in 0..MaxBlocks
    BY <1>5, BoundAssumption DEF ConnectToChunkServer
  <2>4. open' \in BOOLEAN /\ pc' = "request"
        /\ UNCHANGED <<masterVars, readVars, command, sent>>
    BY <1>5 DEF ConnectToChunkServer
  <2>5. QED
    BY <1>0, <2>2, <2>3, <2>4 DEF TypeOK, masterVars, readVars
<1>6. CASE SendRequest
  <2>1. serialize(command) \in Seq(Unit)
    <3>1. Verb \subseteq Unit /\ Sep \in Unit
      BY Bounds
    <3>2. QED
      BY <1>0, <3>1, SerializeOver DEF TypeOK
  <2>2. sent' \in Seq(Unit)
    BY <1>6, <2>1 DEF SendRequest, Request
  <2>3. pc = "request" /\ pc' \in {"blocks", "reply", "close"}
    <3>1. command.mtype \in Forwarded
      BY <1>6 DEF Inv, CommandInv, SendRequest
    <3>2. QED
      BY <1>6, <3>1 DEF SendRequest, Forwarded
  <2>4. UNCHANGED <<masterVars, readVars, command, msg, open, left>>
    BY <1>6 DEF SendRequest
  <2>5. QED
    BY <1>0, <2>2, <2>3, <2>4 DEF TypeOK, masterVars, readVars
<1>7. CASE SendBlock
  BY <1>0, <1>7, BoundAssumption DEF TypeOK, SendBlock, masterVars, readVars
<1>8. CASE CloseConnection
  <2>1. NoMessage \in MessageOver(Unit) /\ <<>> \in Seq(Unit)
    BY EmptySeq DEF NoMessage, EmptyMessage, MessageOver, MessageType
  <2>2. QED
    BY <1>0, <1>8, <2>1 DEF TypeOK, CloseConnection, masterVars, readVars
<1>9. CASE MasterAnswers
  <2>1. PICK m \in Address : /\ answers' = Append(answers, m)
                             /\ stream' = stream \o serialize(m)
    BY <1>9 DEF MasterAnswers
  <2>2. serialize(m) \in Seq(Unit) /\ Len(serialize(m)) \in Nat
    BY AnswerText, Bounds, SeqMonotonic
  <2>3. stream' \in Seq(Unit) /\ Len(stream') = Len(stream) + Len(serialize(m))
    BY <1>0, <2>1, <2>2, Appended DEF TypeOK
  <2>4. answers' \in Seq(Address)
    BY <1>0, <2>1, AppendProperties DEF TypeOK
  <2>5. UNCHANGED <<pc, master, asked, readVars, command, msg, chunkVars>>
    BY <1>9 DEF MasterAnswers
  <2>6. taken' \in 0..Len(stream')
    <3>1. Len(stream) \in Nat /\ taken \in 0..Len(stream)
      BY <1>0, LenProperties DEF TypeOK
    <3>2. QED
      BY <2>2, <2>3, <2>5, <3>1 DEF readVars
  <2>7. QED
    BY <1>0, <2>3, <2>4, <2>5, <2>6 DEF TypeOK, readVars, chunkVars
<1>10. QED
  BY <1>1, <1>2, <1>3, <1>4, <1>5, <1>6, <1>7, <1>8, <1>9 DEF Next, Runs

-----------------------------------------------------------------------------
(***************************************************************************)
(* The command, the stream, the buffer and the address                     *)
(***************************************************************************)
LEMMA CommandStep == Inv /\ [Next]_vars => CommandInv'
<1> SUFFICES ASSUME Inv, [Next]_vars PROVE CommandInv'
  OBVIOUS
<1>0. TypeOK /\ CommandInv
  BY DEF Inv
<1>1. CASE Type
  <2>1. PICK line \in Line : \E m \in Deserialized(line) : command' = m
    BY <1>1 DEF Type
  <2>2. Forwards(command')
    BY <2>1, TypedCommand
  <2>3. CASE command'.mtype \in Forwarded
    <3>1. asked < MaxCommands /\ pc' = "ask" /\ asked' = asked
      BY <1>1, <2>3 DEF Type, masterVars
    <3>2. QED
      BY <2>2, <2>3, <3>1 DEF CommandInv
  <2>4. CASE command'.mtype \notin Forwarded
    <3>1. pc' = "prompt"
      BY <1>1, <2>4 DEF Type
    <3>2. QED
      BY <3>1 DEF CommandInv
  <2>5. QED
    BY <2>3, <2>4
<1>2. CASE Ask
  <2>1. asked \in Nat /\ asked' = asked + 1 /\ pc = "ask" /\ pc' = "answer"
        /\ command' = command
    BY <1>0, <1>2, BoundAssumption DEF TypeOK, Ask
  <2>2. QED
    BY <1>0, <2>1 DEF CommandInv
<1>3. CASE SendRequest
  <2>1. pc = "request" /\ sent' = serialize(command) /\ UNCHANGED <<command, asked>>
    BY <1>3 DEF SendRequest, Request, masterVars
  <2>2. pc' \in {"blocks", "reply", "close"}
    BY <1>0, <1>3, <2>1 DEF CommandInv, SendRequest, Forwarded
  <2>3. QED
    BY <1>0, <2>1, <2>2 DEF CommandInv
<1>4. CASE \/ ConnectToMaster \/ TypeEnds \/ AskEnds \/ ReadAnswer \/ ReadAnswerFails
           \/ DecodeEnds \/ ConnectToChunkServer \/ SendRequestEnds \/ SendBlock
           \/ FinishedUploading \/ ChunkServerLost \/ ReadReply \/ CloseConnection
           \/ MasterAnswers \/ MasterCloses \/ UNCHANGED vars
  <2>1. UNCHANGED <<command, asked>>
    BY <1>4 DEF ConnectToMaster, TypeEnds, AskEnds, ReadAnswer, ReadAnswerFails, DecodeEnds,
       ConnectToChunkServer, SendRequestEnds, SendBlock, FinishedUploading, ChunkServerLost,
       ReadReply, CloseConnection, MasterAnswers, MasterCloses, vars, masterVars
  <2>2. \/ pc' \in {"prompt", "gone"}
        \/ pc = "answer" /\ pc' = "decode"
        \/ pc = "decode" /\ pc' = "request"
        \/ pc \in {"blocks", "reply"} /\ pc' = "close" /\ sent' = sent
        \/ pc' = pc /\ sent' = sent
    BY <1>4 DEF ConnectToMaster, TypeEnds, AskEnds, ReadAnswer, ReadAnswerFails, DecodeEnds,
       ConnectToChunkServer, SendRequestEnds, SendBlock, FinishedUploading, ChunkServerLost,
       ReadReply, CloseConnection, MasterAnswers, MasterCloses, vars, chunkVars
  <2>3. QED
    BY <1>0, <2>1, <2>2 DEF CommandInv
<1>5. QED
  BY <1>1, <1>2, <1>3, <1>4 DEF Next, Runs

LEMMA StreamStep == Inv /\ [Next]_vars => StreamInv'
<1> SUFFICES ASSUME Inv, [Next]_vars PROVE StreamInv'
  OBVIOUS
<1>0. TypeOK /\ StreamInv
  BY DEF Inv
<1>1. CASE MasterAnswers
  <2>1. PICK m \in Address : /\ answers' = Append(answers, m)
                             /\ stream' = stream \o serialize(m)
    BY <1>1 DEF MasterAnswers
  <2>2. serialize(m) \in Seq(Part \cup Verb \cup {Sep})
    BY AnswerText
  <2>3. stream' \in Seq(Part \cup Verb \cup {Sep}) /\ EndsWith(stream', serialize(m))
    BY <1>0, <2>1, <2>2, Appended DEF StreamInv
  <2>4. answers'[Len(answers')] = m
    BY <1>0, <2>1, AppendProperties, LenProperties DEF TypeOK
  <2>5. QED
    BY <2>3, <2>4 DEF StreamInv
<1>2. CASE ~MasterAnswers
  <2>1. UNCHANGED <<answers, stream>>
    BY <1>2 DEF Next, Runs, ConnectToMaster, Type, TypeEnds, Ask, AskEnds, ReadAnswer,
       ReadAnswerFails, DecodeEnds, ConnectToChunkServer, SendRequestEnds, SendRequest,
       SendBlock, FinishedUploading, ChunkServerLost, ReadReply, CloseConnection,
       MasterCloses, vars, masterVars
  <2>2. QED
    BY <1>0, <2>1 DEF StreamInv
<1>3. QED
  BY <1>1, <1>2

LEMMA BufferStep == Inv /\ [Next]_vars => BufferInv'
<1> SUFFICES ASSUME Inv, [Next]_vars PROVE BufferInv'
  OBVIOUS
<1>0. TypeOK /\ BufferInv /\ StreamInv
  BY DEF Inv
<1>1. CASE ReadAnswer
  <2> DEFINE n == taken' - from'
  <2>1. /\ taken' = taken + n /\ from' = taken
        /\ from \in Nat /\ taken \in Nat /\ Len(stream) \in Nat
        /\ n \in 0..BufSize /\ taken' <= Len(stream)
        /\ buffer' = Overwritten(buffer, stream, taken, n)
        /\ text' \in CStrings(buffer')
        /\ high' = IF taken - from > high THEN taken - from ELSE high
    BY <1>0, <1>1, ReadTypes
  <2>2. stream' = stream
    BY <1>1 DEF ReadAnswer, masterVars
  <2> HIDE DEF n
  <2>3. \A i \in 1..BufSize :
          buffer'[i] = IF i <= n THEN stream[taken + i] ELSE buffer[i]
    BY <2>1 DEF Overwritten
  <2>4. \A i \in 1..n : buffer'[i] = stream'[from' + i]
    BY <2>1, <2>2, <2>3, Bounds
  <2>5. \A i \in 1..BufSize : i > high' /\ i > n => buffer'[i] = Nul
    <3>1. ASSUME NEW i \in 1..BufSize, i > high', i > n PROVE buffer'[i] = Nul
      <4>1. i > high /\ i > taken - from
        BY <1>0, <2>1, <3>1, Bounds DEF TypeOK
      <4>2. buffer[i] = Nul
        BY <1>0, <4>1 DEF BufferInv
      <4>3. QED
        BY <2>1, <2>3, <3>1, <4>2, Bounds
    <3>2. QED
      BY <3>1
  <2>6. n <= BufSize
    BY <2>1, Bounds
  <2>7. QED
    BY <2>1, <2>4, <2>5, <2>6 DEF BufferInv, n
<1>2. CASE MasterAnswers
  <2>1. PICK m \in Address : stream' = stream \o serialize(m)
    BY <1>2 DEF MasterAnswers
  <2>2. UNCHANGED readVars
    BY <1>2 DEF MasterAnswers
  <2>3. \A i \in 1..Len(stream) : stream'[i] = stream[i]
    <3>1. serialize(m) \in Seq(Part \cup Verb \cup {Sep})
      BY AnswerText
    <3>2. QED
      BY <1>0, <2>1, <3>1, Appended DEF StreamInv
  <2>4. \A i \in 1..taken - from : from + i \in 1..Len(stream)
    BY <1>0, LenProperties DEF TypeOK
  <2>5. \A i \in 1..taken - from : buffer[i] = stream'[from + i]
    BY <1>0, <2>3, <2>4 DEF BufferInv
  <2>6. QED
    BY <1>0, <2>2, <2>5 DEF BufferInv, readVars
<1>3. CASE ~ReadAnswer /\ ~MasterAnswers
  <2>1. UNCHANGED <<stream, readVars>>
    BY <1>3 DEF Next, Runs, ConnectToMaster, Type, TypeEnds, Ask, AskEnds,
       ReadAnswerFails, DecodeEnds, ConnectToChunkServer, SendRequestEnds, SendRequest,
       SendBlock, FinishedUploading, ChunkServerLost, ReadReply, CloseConnection,
       MasterCloses, vars, masterVars
  <2>2. QED
    BY <1>0, <2>1 DEF BufferInv, readVars
<1>4. QED
  BY <1>1, <1>2, <1>3

LEMMA AddressStep == Inv /\ [Next]_vars => AddressInv'
<1> SUFFICES ASSUME Inv, [Next]_vars PROVE AddressInv'
  OBVIOUS
<1>0. AddressInv
  BY DEF Inv
<1>1. CASE ConnectToChunkServer
  <2>1. PICK m \in Deserialized(text) : msg' = m
    BY <1>1 DEF ConnectToChunkServer
  <2>2. Deserializes(text) /\ msg' = deserialize(text)
    BY <2>1 DEF Deserialized
  <2>3. UNCHANGED readVars
    BY <1>1 DEF ConnectToChunkServer
  <2>4. QED
    BY <2>2, <2>3 DEF AddressInv, readVars
<1>2. CASE \/ SendRequest \/ SendBlock \/ FinishedUploading \/ ReadReply
           \/ MasterAnswers \/ MasterCloses \/ UNCHANGED vars
  <2>1. UNCHANGED <<readVars, msg>>
    BY <1>2 DEF SendRequest, SendBlock, FinishedUploading, ReadReply, MasterAnswers,
       MasterCloses, vars
  <2>2. \/ pc \in {"request", "blocks", "reply", "close"}
        \/ pc' = pc
    BY <1>2 DEF SendRequest, SendBlock, FinishedUploading, ReadReply, MasterAnswers,
       MasterCloses, vars
  <2>3. QED
    BY <1>0, <2>1, <2>2 DEF AddressInv, readVars
<1>3. CASE \/ ConnectToMaster \/ Type \/ TypeEnds \/ Ask \/ AskEnds \/ ReadAnswer
           \/ ReadAnswerFails \/ DecodeEnds \/ SendRequestEnds \/ ChunkServerLost
           \/ CloseConnection
  <2>1. pc' \in {"prompt", "ask", "answer", "decode", "gone"}
    BY <1>3 DEF ConnectToMaster, Type, TypeEnds, Ask, AskEnds, ReadAnswer,
       ReadAnswerFails, DecodeEnds, SendRequestEnds, ChunkServerLost, CloseConnection
  <2>2. QED
    BY <2>1 DEF AddressInv
<1>4. QED
  BY <1>1, <1>2, <1>3 DEF Next, Runs

LEMMA InvKept == Spec => []Inv
<1>1. Inv /\ [Next]_vars => Inv'
  BY TypeStep, CommandStep, StreamStep, BufferStep, AddressStep DEF Inv
<1>2. QED
  BY <1>1, InvInit, PTL DEF Spec

-----------------------------------------------------------------------------
(***************************************************************************)
(* Theorems                                                                *)
(***************************************************************************)

\* Type correctness: the client's variables keep their types whatever is
\* typed, however the master's answers are cut into reads and whoever goes
\* away; no more is read than was sent (simplehdfsclient.cc).
THEOREM TypeCorrect == Spec => []TypeOK
<1>1. Inv => TypeOK
  BY DEF Inv
<1>2. QED
  BY <1>1, InvKept, PTL

\* A command goes to the chunk server that the master named for it whenever
\* the read returned that answer whole and alone and no read before reached
\* further into the buffer (readMessage and the three handlers), for all
\* commands, answers, buffer sizes and read lengths.
THEOREM RightServer == Spec => []AnswerIsForCommand
<1>1. Inv => AnswerIsForCommand
  <2> DEFINE r == serialize(answers[asked])
             n == taken - from
  <2> SUFFICES ASSUME Inv, pc \in {"request", "blocks", "reply", "close"},
                      Len(answers) = asked, taken = Len(stream), n = Len(r),
                      high <= n, n < BufSize
               PROVE  AddressIn(msg) = AddressIn(answers[asked])
    BY DEF AnswerIsForCommand
  <2>1. asked >= 1
    BY DEF Inv, CommandInv
  <2>2. answers[asked] \in Address /\ answers # <<>>
    <3>1. asked \in 1..Len(answers)
      BY <2>1, LenProperties DEF Inv, TypeOK
    <3>2. QED
      BY <3>1, ElementOfSeq, EmptySeq DEF Inv, TypeOK
  <2>3. /\ r \in Seq(Part \cup Verb \cup {Sep}) /\ Len(r) \in Nat \ {0}
        /\ AddressIn(deserialize(r)) = AddressIn(answers[asked])
    BY <2>2, AnswerText
  <2>4. EndsWith(stream, r)
    BY <2>2 DEF Inv, StreamInv
  <2> HIDE DEF r
  <2>5. /\ taken \in Nat /\ from \in Nat /\ n \in Nat /\ Len(stream) \in Nat
        /\ Len(stream) - Len(r) = from
    <3>1. Len(stream) \in Nat /\ taken \in 0..Len(stream) /\ from \in 0..taken
      BY LenProperties DEF Inv, TypeOK
    <3>2. taken = Len(stream) /\ taken - from = Len(r)
      OBVIOUS
    <3>3. QED
      BY <2>3, <3>1, <3>2
  <2>6. \A i \in 1..n : buffer[i] = r[i] /\ buffer[i] # Nul
    <3>1. \A i \in 1..n : buffer[i] = stream[from + i]
      BY DEF Inv, BufferInv
    <3>2. \A i \in 1..n : stream[from + i] = r[i]
      BY <2>4, <2>5 DEF EndsWith
    <3>3. \A i \in 1..n : r[i] # Nul
      BY <2>3, Bounds, ElementOfSeq
    <3>4. QED
      BY <3>1, <3>2, <3>3
  <2>7. buffer[n + 1] = Nul
    <3>1. n + 1 \in 1..BufSize /\ n + 1 > n /\ n + 1 > high
      BY <2>5, Bounds DEF Inv, TypeOK
    <3>2. QED
      BY <3>1 DEF Inv, BufferInv
  <2>8. /\ text \in Seq(Unit) /\ Len(text) = n
        /\ \A i \in 1..n : text[i] = buffer[i]
    <3>1. buffer \in [1..BufSize -> Unit] /\ text \in CStrings(buffer)
      BY DEF Inv, TypeOK, BufferInv
    <3>2. n \in 0..BufSize /\ n < BufSize /\ BufSize \in Nat /\ Junk \in Unit
      BY <2>5, Bounds
    <3>3. \A i \in 1..n : buffer[i] # Nul
      BY <2>6
    <3> HIDE DEF n
    <3>4. /\ text \in Seq(Unit) /\ \A i \in 1..n : text[i] = buffer[i]
          /\ n < BufSize /\ buffer[n + 1] = Nul => Len(text) = n
      BY <3>1, <3>2, <3>3, CStringsOf
    <3>5. QED
      BY <2>7, <3>2, <3>4
  <2>9. text = r
    <3>1. r \in Seq(Unit)
      BY <2>3, Bounds, SeqMonotonic
    <3>2. QED
      BY <2>6, <2>8, <3>1, SeqEqual
  <2>10. msg = deserialize(r)
    BY <2>9 DEF Inv, AddressInv
  <2>11. QED
    BY <2>3, <2>10
<1>2. QED
  BY <1>1, InvKept, PTL

\* What a chunk server is sent is read there as the command that was typed
\* (createReadMessage, createUploadMessage, createDownloadMessage and
\* deserialize), for all lines and pieces.
THEOREM CommandArrives == Spec => []CommandArrivesAsTyped
<1>1. Inv => CommandArrivesAsTyped
  BY DEF Inv, CommandInv, Forwards, CommandArrivesAsTyped
<1>2. QED
  BY <1>1, InvKept, PTL
=============================================================================
