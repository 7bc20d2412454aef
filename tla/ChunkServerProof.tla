------------------------- MODULE ChunkServerProof -------------------------
(***************************************************************************)
(* Theorems about ChunkServer, for every value of its constants; the last  *)
(* of them is that it implements ChunkStore.                               *)
(***************************************************************************)
EXTENDS ChunkServer, MessageProof

USE DEF Rounds

-----------------------------------------------------------------------------
(***************************************************************************)
(* What clients send and the server builds                                 *)
(***************************************************************************)

\* A client's request is a text.
LEMMA RequestType ==
  ASSUME TypeOK, NEW c \in Conns
  PROVE  /\ Request(c) \in Seq(Unit)
         /\ Len(Request(c)) \in Nat \ {0}
         /\ \A i \in 1..Len(Request(c)) : Request(c)[i] # Nul
<1> DEFINE m == job[c].req
           U == Part \cup Verb \cup {Sep}
<1>1. m \in Message /\ m.mtype \in {"READ", "UPLOAD", "DOWNLOAD"}
  BY JobAssumption DEF TypeOK
<1>2. serialize(m) \in Seq(U) /\ Len(serialize(m)) >= 2
  <2> HIDE DEF m
  <2>1. QED
    BY <1>1, SerializeType
<1>3. U \subseteq Unit /\ Nul \notin U
  BY UnitAssumption DEF Unit
<1> HIDE DEF U
<1>4. Request(c) \in Seq(U) /\ Len(Request(c)) >= 2
  BY <1>2 DEF Request
<1>5. QED
  BY <1>3, <1>4, SeqMonotonic, LenProperties, ElementOfSeq

\* The reply to a READ is a text, whatever the name is made of.
LEMMA ReplyType ==
  ASSUME NEW name \in Seq(Unit)
  PROVE  serialize(ReadMessageReply(name)) \in Seq(Unit)
<1> DEFINE m == ReadMessageReply(name)
           words == <<Called, Sep>>
<1>1. m.mtype = "STATUS" /\ m.statusString = words \o name
  BY DEF ReadMessageReply, EmptyMessage
<1>2. Sep \in Unit /\ Called \in Unit /\ messageTypeString["STATUS"] \in Unit
  BY UnitAssumption DEF Unit, Verb, MessageType
<1>3. words \in Seq(Unit)
  BY <1>2
<1>4. words \o name \in Seq(Unit)
  <2> HIDE DEF words
  <2>1. QED
    BY <1>3, ConcatProperties
<1>5. <<messageTypeString["STATUS"]>> \in Seq(Unit) /\ <<Sep>> \in Seq(Unit)
  BY <1>2
<1>6. serialize(m) = <<messageTypeString["STATUS"]>> \o (<<Sep>> \o m.statusString)
  <2> HIDE DEF m
  <2>1. QED
    BY <1>1 DEF serialize
<1>7. QED
  <2> HIDE DEF m, words
  <2>1. <<Sep>> \o m.statusString \in Seq(Unit)
    BY <1>1, <1>4, <1>5, ConcatProperties
  <2>2. serialize(m) \in Seq(Unit)
    BY <1>5, <1>6, <2>1, ConcatProperties
  <2>3. QED
    BY <2>2 DEF m

-----------------------------------------------------------------------------
(***************************************************************************)
(* Type correctness.  What makes it inductive: a client that sends content *)
(* has sent its request, the third read ends the loop of uploadFile, and   *)
(* an upload whose ofstream is good has its file.                          *)
(***************************************************************************)
SendingInv ==
  \A c \in Conns : phase[c] = "sending" => Len(stream[c]) >= Len(Request(c))

RoundInv == pc = "receive" => round < Rounds

OpenInv == pc \in {"receive", "finish"} /\ ~bad
             => clientMessage.remoteFileName \in DOMAIN disk

TypeInv == TypeOK /\ SendingInv /\ RoundInv /\ OpenInv

LEMMA TypeInit == Init => TypeInv
<1> SUFFICES ASSUME Init PROVE TypeInv
  OBVIOUS
<1> USE DEF Init
<1>1. <<>> \in Seq(Unit) /\ <<>> \in Seq(Conns)
  BY EmptySeq
<1>2. clientMessage \in MessageOver(Unit)
  BY <1>1 DEF NoMessage, EmptyMessage, MessageOver, MessageType
<1>3. buffer \in [1..BufSize -> Unit] /\ high \in 0..BufSize
  BY SizeAssumption DEF NewBuffer, Unit
<1>4. seen \in [Conns -> SeenType]
  BY <1>1, SizeAssumption DEF SeenType, NotRead
<1>5. /\ phase \in [Conns -> {"idle", "connected", "sending", "awaiting", "gone"}]
      /\ stream \in [Conns -> Seq(Unit)] /\ reply \in [Conns -> Seq(Unit)]
      /\ taken \in [Conns -> Nat] /\ round \in 0..Rounds
  BY <1>1
<1>6. closed \in [Conns -> BOOLEAN]
  OBVIOUS
<1>7. alive \in BOOLEAN /\ listening \in BOOLEAN /\ bad \in BOOLEAN
  OBVIOUS
<1>8. DOMAIN disk = {}
  OBVIOUS
<1>9. TypeOK
  BY <1>1, <1>2, <1>3, <1>4, <1>5, <1>6, <1>7, <1>8 DEF TypeOK
<1>10. QED
  BY <1>9 DEF TypeInv, SendingInv, RoundInv, OpenInv

\* What the end of the process leaves is well typed.
LEMMA TypeDie == TypeInv /\ Die => TypeInv'
<1> SUFFICES ASSUME TypeInv, Die PROVE TypeInv'
  OBVIOUS
<1> USE DEF TypeInv, Die
<1>1. <<>> \in Seq(Unit) /\ <<>> \in Seq(Conns)
  BY EmptySeq
<1>2. clientMessage' \in MessageOver(Unit)
  BY <1>1 DEF NoMessage, EmptyMessage, MessageOver, MessageType
<1>3. buffer' \in [1..BufSize -> Unit] /\ high' \in 0..BufSize
  BY SizeAssumption DEF NewBuffer, Unit
<1>4. closed' \in [Conns -> BOOLEAN]
  OBVIOUS
<1>5. alive' \in BOOLEAN /\ listening' \in BOOLEAN /\ bad' \in BOOLEAN
  OBVIOUS
<1>6. TypeOK'
  BY <1>1, <1>2, <1>3, <1>4, <1>5 DEF TypeOK, clientVars
<1>7. SendingInv'
  BY DEF SendingInv, Request, clientVars
<1>8. QED
  BY <1>6, <1>7 DEF RoundInv, OpenInv

\* A flush keeps the types and the names of the files, if the ofstream has
\* its file, and leaves a good ofstream good or marks it failed.
LEMMA TypeFlush ==
  ASSUME TypeInv, pc \in {"receive", "finish"}, fout' \in Seq(Unit),
         NEW atLeast, Flush(atLeast)
  PROVE  /\ bad' \in BOOLEAN
         /\ DOMAIN disk' = DOMAIN disk
         /\ \A name \in DOMAIN disk' : name \in Seq(Unit) /\ disk'[name] \in FileType
         /\ bad => bad'
<1> DEFINE name == clientMessage.remoteFileName
<1>1. CASE bad
  BY <1>1 DEF Flush, TypeInv, TypeOK
<1>2. CASE ~bad
  <2>1. name \in DOMAIN disk /\ disk[name] \in FileType
    BY <1>2 DEF TypeInv, OpenInv, TypeOK
  <2>2. PICK k \in Len(disk[name].data)..Len(fout') :
          /\ disk' = [disk EXCEPT ![name].data = SubSeq(fout', 1, k)]
          /\ bad' \in BOOLEAN
    BY <1>2 DEF Flush
  <2>3. Len(disk[name].data) \in Nat /\ Len(fout') \in Nat
    BY <2>1, LenProperties DEF FileType
  <2>4. k \in Nat /\ k <= Len(fout')
    BY <2>3
  <2>5. SubSeq(fout', 1, k) \in Seq(Unit)
    <3>1. \A i \in 1..k : fout'[i] \in Unit
      BY <2>3, <2>4, ElementOfSeq
    <3>2. QED
      BY <2>4, <3>1, SubSeqProperties
  <2>6. DOMAIN disk' = DOMAIN disk
    BY <2>2
  <2>7. disk'[name] \in FileType
    BY <2>1, <2>2, <2>5 DEF FileType
  <2>8. \A n \in DOMAIN disk \ {name} : disk'[n] = disk[n]
    BY <2>2
  <2>9. QED
    BY <1>2, <2>2, <2>6, <2>7, <2>8 DEF TypeInv, TypeOK
<1>3. QED
  BY <1>1, <1>2 DEF TypeInv, TypeOK

\* What a client sends is typed, and the request comes first.
LEMMA TypeClient ==
  ASSUME TypeInv, NEW c \in Conns,
         \/ ClientConnect(c) \/ ClientRefused(c) \/ ClientStep(c) \/ ClientAbort(c)
  PROVE  TypeInv'
<1> USE DEF TypeInv, serverVars, requestVars, uploadVars, memoryVars
<1>1. /\ phase' \in [Conns -> {"idle", "connected", "sending", "awaiting", "gone"}]
      /\ backlog' \in Seq(Conns)
  <2>1. ASSUME ClientConnect(c)
        PROVE  backlog' \in Seq(Conns) /\ phase' = [phase EXCEPT ![c] = "connected"]
    BY <2>1, AppendProperties DEF ClientConnect, TypeOK
  <2>2. ASSUME ~ClientConnect(c)
        PROVE  /\ backlog' = backlog
               /\ \/ phase' = phase
                  \/ \E p \in {"sending", "awaiting", "gone"} :
                       phase' = [phase EXCEPT ![c] = p]
    BY <2>2 DEF ClientRefused, ClientStep, ClientSendRequest, ClientSendBlock,
                ClientClose, ClientReadReply, ClientCut, ClientAbort
  <2>3. QED
    BY <2>1, <2>2 DEF TypeOK
<1> DEFINE Grows == /\ stream' \in [Conns -> Seq(Unit)]
                    /\ \A d \in Conns : Len(stream'[d]) >= Len(stream[d])
<1>2. Grows
  <2>1. ASSUME ClientSendRequest(c)
        PROVE  /\ stream' = [stream EXCEPT ![c] = stream[c] \o Request(c)]
               /\ Request(c) \in Seq(Unit)
    BY <2>1, RequestType DEF ClientSendRequest
  <2>2. ASSUME ClientSendBlock(c)
        PROVE  \E block \in Seq(Unit) :
                 stream' = [stream EXCEPT ![c] = stream[c] \o block]
    <3> DEFINE content == job[c].content
               end == IF Sent(c) + BlockSize < Len(content)
                      THEN Sent(c) + BlockSize ELSE Len(content)
               block == SubSeq(content, Sent(c) + 1, end)
    <3>1. content \in Seq(Data) /\ Data \subseteq Unit
      BY JobAssumption DEF TypeOK, Unit
    <3>2. content \in Seq(Unit) /\ Len(content) \in Nat
      BY <3>1, SeqMonotonic, LenProperties
    <3>3. Sent(c) \in Nat
      BY <2>2, RequestType, LenProperties
        DEF Sent, ClientSendBlock, SendingInv, TypeOK
    <3>4. end \in Nat /\ end <= Len(content)
      BY <3>2, <3>3, SizeAssumption
    <3>5. block \in Seq(Unit)
      <4>1. \A i \in Sent(c) + 1..end : content[i] \in Unit
        BY <3>2, <3>3, <3>4, ElementOfSeq
      <4>2. QED
        BY <3>3, <3>4, <4>1, SubSeqProperties
    <3>6. QED
      BY <2>2, <3>5 DEF ClientSendBlock
  <2>3. ASSUME NEW more \in Seq(Unit), stream' = [stream EXCEPT ![c] = stream[c] \o more]
        PROVE  Grows
    BY <2>3, ConcatProperties, LenProperties DEF TypeOK
  <2>4. ASSUME ~ClientSendRequest(c), ~ClientSendBlock(c)
        PROVE  stream' = stream
    BY <2>4 DEF ClientConnect, ClientRefused, ClientStep, ClientClose,
                ClientReadReply, ClientCut, ClientAbort
  <2>5. ASSUME stream' = stream PROVE Grows
    BY <2>5, LenProperties DEF TypeOK
  <2>6. QED
    BY <2>1, <2>2, <2>3, <2>4, <2>5
<1>3. UNCHANGED <<job, serverVars, closed>>
  BY DEF ClientConnect, ClientRefused, ClientStep, ClientSendRequest,
         ClientSendBlock, ClientClose, ClientReadReply, ClientCut, ClientAbort
<1>4. TypeOK'
  BY <1>1, <1>2, <1>3 DEF TypeOK
<1>5. SendingInv'
  <2>1. ASSUME ClientSendRequest(c) PROVE Len(stream'[c]) >= Len(Request(c))
    BY <2>1, RequestType, ConcatProperties, LenProperties
      DEF ClientSendRequest, TypeOK
  <2>2. ASSUME NEW d \in Conns, phase'[d] = "sending"
        PROVE  phase[d] = "sending" \/ (d = c /\ ClientSendRequest(c))
    <3>1. CASE ClientSendRequest(c)
      <4>1. d # c => phase'[d] = phase[d]
        BY <3>1 DEF ClientSendRequest, TypeOK
      <4>2. QED
        BY <2>2, <3>1, <4>1
    <3>2. CASE ~ClientSendRequest(c)
      <4>1. \/ phase' = phase
            \/ \E p \in {"connected", "gone"} : phase' = [phase EXCEPT ![c] = p]
        BY <3>2 DEF ClientConnect, ClientRefused, ClientStep, ClientSendBlock,
             ClientClose, ClientReadReply, ClientCut, ClientAbort
      <4>2. phase \in [Conns -> {"idle", "connected", "sending", "awaiting", "gone"}]
        BY DEF TypeOK
      <4>3. phase[d] = "sending"
        BY <2>2, <4>1, <4>2
      <4>4. QED
        BY <4>3
    <3>3. QED
      BY <3>1, <3>2
  <2>3. \A d \in Conns : Request(d)' = Request(d)
    BY <1>3 DEF Request
  <2>4. \A d \in Conns : /\ Len(Request(d)) \in Nat
                         /\ Len(stream[d]) \in Nat /\ Len(stream'[d]) \in Nat
    BY <1>2, RequestType, LenProperties DEF TypeOK
  <2>5. QED
    BY <1>2, <2>1, <2>2, <2>3, <2>4 DEF SendingInv
<1>6. QED
  BY <1>3, <1>4, <1>5 DEF RoundInv, OpenInv

\* Every step keeps the types.
LEMMA TypeStep == TypeInv /\ [Next]_vars => TypeInv'
<1> SUFFICES ASSUME TypeInv, [Next]_vars PROVE TypeInv'
  OBVIOUS
<1> USE DEF TypeInv, clientVars, kernelVars, requestVars, uploadVars, memoryVars
<1>1. CASE Listen
  BY <1>1 DEF Listen, TypeOK, SendingInv, Request, RoundInv, OpenInv
<1>2. CASE AcceptClientConnection
  <2>1. Head(backlog) \in Conns /\ Tail(backlog) \in Seq(Conns)
    BY <1>2, HeadTailProperties DEF AcceptClientConnection, TypeOK
  <2>2. QED
    BY <1>2, <2>1, ConnAssumption
      DEF AcceptClientConnection, TypeOK, SendingInv, Request, RoundInv, OpenInv
<1>3. CASE GetMessage
  <2>1. conn \in Conns
    BY <1>3 DEF GetMessage, TypeOK
  <2>2. PICK n \in Arrivals(conn, BufSize) :
          /\ buffer' = [i \in 1..BufSize |->
                          IF i <= n THEN stream[conn][taken[conn] + i] ELSE buffer[i]]
          /\ taken' = [taken EXCEPT ![conn] = @ + n]
          /\ high' = IF n > high THEN n ELSE high
          /\ \E text \in CStrings(buffer') :
               seen' = [seen EXCEPT ![conn] =
                          [text |-> text, cut |-> taken[conn] + n, high |-> high]]
    BY <1>3 DEF GetMessage, Overwritten
  <2>3. /\ n \in 1..BufSize /\ taken[conn] \in Nat
        /\ taken[conn] + n <= Len(stream[conn]) /\ stream[conn] \in Seq(Unit)
    BY <2>1, <2>2, SizeAssumption DEF Arrivals, TypeOK
  <2>4. buffer' \in [1..BufSize -> Unit]
    <3>1. \A i \in 1..n : stream[conn][taken[conn] + i] \in Unit
      BY <2>3, LenProperties, ElementOfSeq
    <3>2. QED
      BY <2>2, <2>3, <3>1 DEF TypeOK
  <2>5. taken' \in [Conns -> Nat] /\ high' \in 0..BufSize
    BY <2>1, <2>2, <2>3, SizeAssumption DEF TypeOK
  <2>6. seen' \in [Conns -> SeenType]
    <3>1. PICK text \in CStrings(buffer') :
            seen' = [seen EXCEPT ![conn] =
                       [text |-> text, cut |-> taken[conn] + n, high |-> high]]
      BY <2>2
    <3>2. text \in Seq(Unit)
      <4>1. BufSize \in Nat /\ Junk \in Unit
        BY SizeAssumption DEF Unit
      <4>2. QED
        BY <2>4, <4>1, CStringsType
    <3>3. [text |-> text, cut |-> taken[conn] + n, high |-> high] \in SeenType
      BY <2>3, <3>2 DEF TypeOK, SeenType
    <3>4. seen \in [Conns -> SeenType]
      BY DEF TypeOK
    <3>5. QED
      BY <2>1, <3>1, <3>3, <3>4
  <2>7. QED
    BY <1>3, <2>4, <2>5, <2>6
      DEF GetMessage, TypeOK, SendingInv, Request, RoundInv, OpenInv
<1>4. CASE GetMessageEmpty
  <2>1. conn \in Conns /\ <<>> \in Seq(Unit)
    BY <1>4, EmptySeq DEF GetMessageEmpty, TypeOK
  <2>2. seen' \in [Conns -> SeenType]
    BY <1>4, <2>1 DEF GetMessageEmpty, TypeOK, SeenType
  <2>3. QED
    BY <1>4, <2>2
      DEF GetMessageEmpty, TypeOK, SendingInv, Request, RoundInv, OpenInv
<1>5. CASE DecodeEnds
  BY <1>5, TypeDie DEF DecodeEnds
<1>6. CASE Decode
  <2>1. clientMessage' \in MessageOver(Unit)
    <3>1. seen[conn].text \in Seq(Unit)
      BY <1>6 DEF Decode, TypeOK, SeenType
    <3>2. QED
      BY <1>6, <3>1, DeserializeType DEF Decode
  <2>2. QED
    BY <1>6, <2>1 DEF Decode, TypeOK, SendingInv, Request, RoundInv, OpenInv
<1>7. CASE ReadFile
  <2>1. serialize(ReadMessageReply(clientMessage.remoteFileName)) \in Seq(Unit)
    BY ReplyType DEF TypeOK, MessageOver
  <2>2. QED
    BY <1>7, <2>1
      DEF ReadFile, Serves, TypeOK, SendingInv, Request, RoundInv, OpenInv
<1>8. CASE ServeOther
  BY <1>8 DEF ServeOther, Serves, TypeOK, SendingInv, Request, RoundInv, OpenInv
<1>9. CASE FolderFails
  BY <1>9, TypeDie DEF FolderFails
<1>10. CASE UploadFileOpen
  <2> DEFINE name == clientMessage.remoteFileName
  <2>1. conn \in Conns /\ name \in Seq(Unit) /\ <<>> \in Seq(Unit)
    BY <1>10, EmptySeq DEF UploadFileOpen, Serves, TypeOK, MessageOver
  <2> DEFINE Typed == /\ \A n \in DOMAIN disk' : n \in Seq(Unit) /\ disk'[n] \in FileType
                      /\ bad' \in BOOLEAN
                      /\ ~bad' => name \in DOMAIN disk'
  <2>2. Typed
    <3>1. CASE disk' = Opened(name, conn) /\ bad' = FALSE
      <4>1. DOMAIN disk' = DOMAIN disk \cup {name}
        BY <3>1 DEF Opened
      <4>2. disk'[name] \in FileType
        BY <2>1, <3>1 DEF Opened, FileType
      <4>3. \A n \in DOMAIN disk \ {name} : disk'[n] = disk[n]
        BY <3>1 DEF Opened
      <4>4. QED
        BY <2>1, <3>1, <4>1, <4>2, <4>3 DEF TypeOK
    <3>2. CASE disk' = disk /\ bad' = TRUE
      BY <3>2 DEF TypeOK
    <3>3. QED
      BY <1>10, <3>1, <3>2 DEF UploadFileOpen
  <2>3. QED
    BY <1>10, <2>1, <2>2
      DEF UploadFileOpen, Serves, TypeOK, SendingInv, Request, RoundInv, OpenInv
<1>11. CASE GetData
  <2>1. PICK n \in Arrivals(conn, BlockSize) :
          /\ fout' = fout \o SubSeq(stream[conn], taken[conn] + 1, taken[conn] + n)
          /\ taken' = [taken EXCEPT ![conn] = @ + n]
    BY <1>11 DEF GetData
  <2>2. /\ conn \in Conns /\ n \in Nat \ {0} /\ taken[conn] \in Nat
        /\ taken[conn] + n <= Len(stream[conn]) /\ stream[conn] \in Seq(Unit)
    BY <1>11, <2>1, SizeAssumption DEF GetData, Arrivals, TypeOK
  <2>3. SubSeq(stream[conn], taken[conn] + 1, taken[conn] + n) \in Seq(Unit)
    <3>1. \A i \in taken[conn] + 1..taken[conn] + n : stream[conn][i] \in Unit
      BY <2>2, LenProperties, ElementOfSeq
    <3>2. QED
      BY <2>2, <3>1, SubSeqProperties
  <2>4. fout' \in Seq(Unit) /\ taken' \in [Conns -> Nat]
    <3>1. fout' \in Seq(Unit)
      BY <2>1, <2>3, ConcatProperties DEF TypeOK
    <3>2. taken \in [Conns -> Nat] /\ taken[conn] + n \in Nat
      BY <2>2 DEF TypeOK
    <3>3. taken' \in [Conns -> Nat]
      BY <2>1, <2>2, <3>2
    <3>4. QED
      BY <3>1, <3>3
  <2>5. Flush(0) /\ pc = "receive"
    BY <1>11 DEF GetData
  <2>6. /\ bad' \in BOOLEAN /\ (bad => bad') /\ DOMAIN disk' = DOMAIN disk
        /\ \A name \in DOMAIN disk' : name \in Seq(Unit) /\ disk'[name] \in FileType
    BY <2>4, <2>5, TypeFlush
  <2>7. round' = round + 1 /\ round < Rounds /\ round \in 0..Rounds
    BY <1>11 DEF GetData, RoundInv, TypeOK
  <2>8. TypeOK'
    <3>1. pc' \in {"receive", "finish"} /\ round' \in 0..Rounds
      BY <1>11, <2>7, SizeAssumption DEF GetData
    <3>2. /\ UNCHANGED <<job, phase, stream, backlog, closed, reply, alive, listening>>
          /\ UNCHANGED <<conn, clientMessage, buffer, high, seen>>
      BY <1>11 DEF GetData, clientVars, memoryVars
    <3>3. conn # NoConn
      BY <2>5 DEF TypeOK
    <3>4. conn' = NoConn <=> pc' \in {"listen", "accept"}
      BY <3>1, <3>2, <3>3
    <3>5. QED
      BY <2>4, <2>6, <3>1, <3>2, <3>4 DEF TypeOK
  <2>9. QED
    BY <1>11, <2>6, <2>7, <2>8 DEF GetData, SendingInv, Request, RoundInv, OpenInv
<1>12. CASE UploadFileBreak
  BY <1>12 DEF UploadFileBreak, TypeOK, SendingInv, Request, RoundInv, OpenInv
<1>13. CASE UploadFileClose
  <2>1. fout' \in Seq(Unit) /\ Flush(Len(fout)) /\ pc = "finish"
    BY <1>13 DEF UploadFileClose, TypeOK
  <2>2. /\ bad' \in BOOLEAN
        /\ \A name \in DOMAIN disk' : name \in Seq(Unit) /\ disk'[name] \in FileType
    BY <2>1, TypeFlush
  <2>3. QED
    BY <1>13, <2>2
      DEF UploadFileClose, TypeOK, SendingInv, Request, RoundInv, OpenInv
<1>14. CASE CloseClientConnection
  <2>1. <<>> \in Seq(Unit)
    BY EmptySeq
  <2>2. clientMessage' \in MessageOver(Unit)
    BY <1>14, <2>1
      DEF CloseClientConnection, NoMessage, EmptyMessage, MessageOver, MessageType
  <2>3. closed' \in [Conns -> BOOLEAN] /\ bad' \in BOOLEAN
    BY <1>14 DEF CloseClientConnection, TypeOK
  <2>4. QED
    BY <1>14, <2>1, <2>2, <2>3
      DEF CloseClientConnection, TypeOK, SendingInv, Request, RoundInv, OpenInv
<1>15. CASE SocketFails \/ ExitElsewhere
  BY <1>15, TypeDie DEF SocketFails, ExitElsewhere
<1>16. CASE Restart
  BY <1>16 DEF Restart, TypeOK, SendingInv, Request, RoundInv, OpenInv
<1>17. CASE \E c \in Conns : \/ ClientConnect(c) \/ ClientRefused(c)
                             \/ ClientStep(c) \/ ClientAbort(c)
  BY <1>17, TypeClient
<1>18. CASE UNCHANGED vars
  BY <1>18 DEF vars, TypeOK, SendingInv, Request, RoundInv, OpenInv
<1>19. QED
  BY <1>1, <1>2, <1>3, <1>4, <1>5, <1>6, <1>7, <1>8, <1>9, <1>10, <1>11, <1>12,
     <1>13, <1>14, <1>15, <1>16, <1>17, <1>18 DEF Next, ServerStep

\* Type correctness: in every reachable state each variable has its type, and
\* the thread holds a connection exactly from accept to close.
THEOREM TypeCorrect == Spec => []TypeOK
<1>1. Init => TypeInv
  BY TypeInit
<1>2. TypeInv /\ [Next]_vars => TypeInv'
  BY TypeStep
<1>3. TypeInv => TypeOK
  BY DEF TypeInv
<1>4. QED
  BY <1>1, <1>2, <1>3, PTL DEF Spec

-----------------------------------------------------------------------------
(***************************************************************************)
(* No connection is lost.  The addition that makes it inductive: a         *)
(* connection that no client has made yet is not closed and carries        *)
(* nothing.                                                                *)
(***************************************************************************)
IdleInv == \A c \in Conns : phase[c] = "idle" => ~closed[c] /\ stream[c] = <<>>

ConnInv == NoConnectionLost /\ IdleInv

\* The steps of the server that neither accept nor close.
Quiet ==
  \/ Listen \/ GetMessage \/ GetMessageEmpty \/ Decode \/ ReadFile
  \/ ServeOther \/ UploadFileOpen \/ GetData \/ UploadFileBreak
  \/ UploadFileClose \/ Restart \/ UNCHANGED vars

\* The steps by which the process ends.
Ends == DecodeEnds \/ FolderFails \/ SocketFails \/ ExitElsewhere

\* A step is quiet, ends the process, accepts, closes, or is a client's.
LEMMA StepKinds ==
  [Next]_vars => \/ Quiet \/ Ends \/ AcceptClientConnection
                 \/ CloseClientConnection
                 \/ \E c \in Conns : \/ ClientConnect(c) \/ ClientRefused(c)
                                     \/ ClientStep(c) \/ ClientAbort(c)
BY DEF Next, ServerStep, Quiet, Ends

\* Quiet steps move no connection.
LEMMA QuietConns == Quiet => UNCHANGED <<backlog, conn, closed, phase, stream, job>>
BY DEF Quiet, Listen, GetMessage, GetMessageEmpty, Decode, ReadFile, ServeOther,
       UploadFileOpen, GetData, UploadFileBreak, UploadFileClose, Restart, vars,
       clientVars, kernelVars

LEMMA ConnStep == TypeOK /\ ConnInv /\ [Next]_vars => ConnInv'
<1> SUFFICES ASSUME TypeOK, ConnInv, [Next]_vars PROVE ConnInv'
  OBVIOUS
<1> USE DEF ConnInv
<1>1. CASE Quiet
  BY <1>1, QuietConns DEF NoConnectionLost, Waiting, IdleInv
<1>2. CASE Ends
  <2>1. Die
    BY <1>2 DEF Ends, DecodeEnds, FolderFails, SocketFails, ExitElsewhere
  <2>2. \A c \in Conns : Waiting(c)' = {}
    BY <2>1 DEF Die, Waiting
  <2>3. conn' \notin Conns
    BY <2>1, ConnAssumption DEF Die
  <2>4. \A c \in Conns : ~closed'[c] => ~closed[c] /\ c # conn /\ Waiting(c) = {}
    BY <2>1 DEF Die, Waiting
  <2>5. UNCHANGED <<phase, stream>>
    BY <2>1 DEF Die, clientVars
  <2>6. NoConnectionLost'
    BY <2>2, <2>3, <2>4, <2>5 DEF NoConnectionLost
  <2>7. IdleInv'
    <3>1. \A c \in Conns : phase[c] = "idle" => c # conn /\ Waiting(c) = {}
      BY DEF NoConnectionLost
    <3>2. \A c \in Conns : closed'[c] => closed[c] \/ c = conn \/ Waiting(c) # {}
      BY <2>1 DEF Die, Waiting
    <3>3. QED
      BY <2>5, <3>1, <3>2 DEF IdleInv
  <2>8. QED
    BY <2>6, <2>7
<1>3. CASE AcceptClientConnection
  <2>1. /\ backlog # <<>> /\ backlog \in Seq(Conns)
        /\ conn' = Head(backlog) /\ backlog' = Tail(backlog)
        /\ UNCHANGED <<phase, stream, closed>> /\ conn = NoConn
    BY <1>3 DEF AcceptClientConnection, clientVars, TypeOK
  <2>2. /\ Len(backlog) \in Nat \ {0} /\ DOMAIN backlog = 1..Len(backlog)
        /\ conn' = backlog[1] /\ conn' \in Conns
        /\ DOMAIN backlog' = 1..Len(backlog) - 1
        /\ \A i \in DOMAIN backlog' : backlog'[i] = backlog[i + 1]
    <3>1. Len(backlog) \in Nat \ {0} /\ DOMAIN backlog = 1..Len(backlog)
      BY <2>1, EmptySeq, LenProperties
    <3>2. QED
      BY <2>1, <3>1, HeadTailProperties, LenProperties
  <2>12. PICK h \in Conns : h = conn'
    BY <2>2
  <2>3. \A c \in Conns : \A i \in Waiting(c)' : i + 1 \in Waiting(c) /\ i >= 1
    BY <2>2 DEF Waiting
  <2>4. 1 \in Waiting(h)
    BY <2>2, <2>12 DEF Waiting
  <2>5. \A c \in Conns : c # h => \A i \in Waiting(c) : i - 1 \in Waiting(c)'
    BY <2>2, <2>12 DEF Waiting
  <2>6. Waiting(h)' = {}
    <3>1. \A i, k \in Waiting(h) : i = k
      BY DEF NoConnectionLost
    <3>2. \A i \in Waiting(h)' : i \in Nat \ {0} /\ i + 1 \in Waiting(h)
      BY <2>2 DEF Waiting
    <3>3. QED
      BY <2>4, <3>1, <3>2
  <2>7. ASSUME NEW c \in Conns
        PROVE  /\ \A i, k \in Waiting(c)' : i = k
               /\ Waiting(c)' # {} => c # h
               /\ Waiting(c)' # {} \/ c = h => ~closed[c] /\ phase[c] # "idle"
               /\ ~closed[c] /\ (phase[c] \notin {"idle", "gone"} \/ stream[c] # <<>>)
                    => c = h \/ Waiting(c)' # {}
    <3>1. \A i \in Waiting(c)' : i \in Nat
      BY <2>2 DEF Waiting
    <3>2. \A i, k \in Waiting(c)' : i = k
      BY <2>3, <3>1 DEF NoConnectionLost
    <3>3. Waiting(c)' # {} => c # h
      BY <2>6
    <3>4. Waiting(c)' # {} \/ c = h => Waiting(c) # {}
      BY <2>3, <2>4
    <3>5. Waiting(c) # {} => c = h \/ Waiting(c)' # {}
      BY <2>5
    <3>6. QED
      BY <2>1, <3>2, <3>3, <3>4, <3>5, ConnAssumption DEF NoConnectionLost
  <2>8. NoConnectionLost'
    BY <2>1, <2>7, <2>12 DEF NoConnectionLost
  <2>9. QED
    BY <2>1, <2>8 DEF IdleInv
<1>4. CASE CloseClientConnection
  <2>1. /\ conn \in Conns /\ closed' = [closed EXCEPT ![conn] = TRUE]
        /\ conn' \notin Conns /\ UNCHANGED <<backlog, phase, stream>>
    BY <1>4, ConnAssumption DEF CloseClientConnection, clientVars, TypeOK
  <2>2. \A c \in Conns : c # conn => closed'[c] = closed[c]
    BY <2>1 DEF TypeOK
  <2>3. closed'[conn]
    BY <2>1 DEF TypeOK
  <2>4. phase[conn] # "idle" /\ Waiting(conn) = {}
    BY <2>1 DEF NoConnectionLost
  <2>5. \A c \in Conns : Waiting(c)' = Waiting(c)
    BY <2>1 DEF Waiting
  <2>6. NoConnectionLost'
    BY <2>1, <2>2, <2>3, <2>4, <2>5 DEF NoConnectionLost
  <2>7. QED
    BY <2>1, <2>2, <2>4, <2>6 DEF IdleInv
<1>5. CASE \E c \in Conns : \/ ClientConnect(c) \/ ClientRefused(c)
                            \/ ClientStep(c) \/ ClientAbort(c)
  <2>1. PICK c \in Conns : \/ ClientConnect(c) \/ ClientRefused(c)
                           \/ ClientStep(c) \/ ClientAbort(c)
    BY <1>5
  <2>2. UNCHANGED <<conn, closed>>
    BY <2>1 DEF ClientConnect, ClientRefused, ClientStep, ClientSendRequest,
         ClientSendBlock, ClientClose, ClientReadReply, ClientCut, ClientAbort,
         serverVars
  <2>3. CASE ClientConnect(c)
    <3>1. /\ backlog' = Append(backlog, c) /\ stream' = stream
          /\ phase[c] = "idle" /\ phase' = [phase EXCEPT ![c] = "connected"]
      BY <2>3 DEF ClientConnect
    <3>2. /\ Len(backlog) \in Nat /\ DOMAIN backlog = 1..Len(backlog)
          /\ DOMAIN backlog' = 1..Len(backlog) + 1
          /\ \A i \in 1..Len(backlog) : backlog'[i] = backlog[i]
          /\ backlog'[Len(backlog) + 1] = c
      BY <3>1, AppendProperties, LenProperties DEF TypeOK
    <3>3. Waiting(c) = {} /\ c # conn /\ ~closed[c] /\ stream[c] = <<>>
      BY <3>1 DEF NoConnectionLost, IdleInv
    <3>4. Waiting(c)' = {Len(backlog) + 1}
      BY <3>2, <3>3 DEF Waiting
    <3>5. \A d \in Conns : d # c => Waiting(d)' = Waiting(d)
      BY <3>2 DEF Waiting
    <3>6. \A d \in Conns : phase'[d] = IF d = c THEN "connected" ELSE phase[d]
      BY <3>1 DEF TypeOK
    <3>7. NoConnectionLost'
      <4>1. ASSUME NEW d \in Conns, d # c
            PROVE  /\ Waiting(d)' = Waiting(d) /\ phase'[d] = phase[d]
                   /\ closed'[d] = closed[d] /\ stream'[d] = stream[d]
        BY <2>2, <3>1, <3>5, <3>6, <4>1
      <4>2. /\ Waiting(c)' = {Len(backlog) + 1} /\ phase'[c] = "connected"
            /\ ~closed'[c] /\ stream'[c] = <<>> /\ c # conn'
        BY <2>2, <3>1, <3>3, <3>4, <3>6
      <4>3. QED
        BY <2>2, <4>1, <4>2 DEF NoConnectionLost
    <3>8. QED
      BY <2>2, <3>1, <3>6, <3>7 DEF IdleInv
  <2>4. CASE ClientRefused(c)
    <3>1. /\ UNCHANGED <<backlog, stream>> /\ stream[c] = <<>> /\ phase[c] = "idle"
          /\ \A d \in Conns : phase'[d] = IF d = c THEN "gone" ELSE phase[d]
      BY <2>4 DEF ClientRefused, IdleInv, TypeOK
    <3>2. \A d \in Conns : Waiting(d)' = Waiting(d)
      BY <3>1 DEF Waiting
    <3>3. NoConnectionLost'
      BY <2>2, <3>1, <3>2 DEF NoConnectionLost
    <3>4. QED
      BY <2>2, <3>1, <3>3 DEF IdleInv
  <2>5. CASE ClientStep(c) \/ ClientAbort(c)
    <3>1. /\ backlog' = backlog
          /\ phase[c] \notin {"idle", "gone"}
          /\ \A d \in Conns : d # c => stream'[d] = stream[d] /\ phase'[d] = phase[d]
          /\ phase'[c] # "idle"
      BY <2>5 DEF ClientStep, ClientSendRequest, ClientSendBlock, ClientClose,
           ClientReadReply, ClientCut, ClientAbort, TypeOK
    <3>2. \A d \in Conns : Waiting(d)' = Waiting(d)
      BY <3>1 DEF Waiting
    <3>3. NoConnectionLost'
      BY <2>2, <3>1, <3>2 DEF NoConnectionLost
    <3>4. QED
      BY <2>2, <3>1, <3>3 DEF IdleInv
  <2>6. QED
    BY <2>1, <2>3, <2>4, <2>5
<1>6. QED
  BY <1>1, <1>2, <1>3, <1>4, <1>5, StepKinds

\* No connection is lost or served twice, whatever the order of connects,
\* accepts, closes and ends of the process.
THEOREM ConnectionsKept == Spec => []NoConnectionLost
<1>1. Init => ConnInv
  BY ConnAssumption DEF Init, ConnInv, NoConnectionLost, IdleInv, Waiting
<1>2. TypeOK /\ ConnInv /\ [Next]_vars => ConnInv'
  BY ConnStep
<1>3. ConnInv => NoConnectionLost
  BY DEF ConnInv
<1>4. QED
  BY <1>1, <1>2, <1>3, TypeCorrect, PTL DEF Spec

-----------------------------------------------------------------------------
(***************************************************************************)
(* What uploads leave on disk: a file holds one unbroken piece of what its *)
(* uploader sent, and all of it when the end of the stream was seen and    *)
(* the disk worked.                                                        *)
(***************************************************************************)
-----------------------------------------------------------------------------
(***************************************************************************)
(* The inductive invariant.  A file names the connection it came from; the *)
(* piece it holds begins where getMessage stopped reading that connection, *)
(* so no file may name a connection that getMessage has yet to read.       *)
(***************************************************************************)

\* A connection that getMessage has not read.
Unread(c) == \/ phase[c] = "idle"
             \/ Waiting(c) # {}
             \/ c = conn /\ pc = "message"

\* text is what c sent from where getMessage stopped, and was read.
Received(c, text) ==
  /\ seen[c].cut + Len(text) <= taken[c]
  /\ \A i \in 1..Len(text) : text[i] = stream[c][seen[c].cut + i]

UnreadInv == \A c \in Conns : Unread(c) => \A name \in DOMAIN disk : disk[name].by # c

TakenInv == \A c \in Conns : taken[c] <= Len(stream[c])

CutInv == pc \in {"decode", "serve"} => seen[conn].cut = taken[conn]

\* The ofstream was given all that was read after getMessage.
FoutInv == pc \in {"receive", "finish"}
             => Received(conn, fout) /\ seen[conn].cut + Len(fout) = taken[conn]

OwnInv == pc \in {"receive", "finish"} /\ ~bad
            => disk[clientMessage.remoteFileName].by = conn

FilesInv == \A name \in DOMAIN disk : Received(disk[name].by, disk[name].data)

EndInv == pc = "finish" /\ round < Rounds => EndOfStream(conn)

StoreInv == UnreadInv /\ TakenInv /\ CutInv /\ FoutInv /\ OwnInv /\ FilesInv /\ EndInv

\* What the steps of this invariant may rely on.
Known == TypeInv /\ NoConnectionLost

\* The lengths and types the steps calculate with.
LEMMA KnownTypes ==
  ASSUME Known
  PROVE  /\ \A c \in Conns : /\ stream[c] \in Seq(Unit) /\ Len(stream[c]) \in Nat
                             /\ taken[c] \in Nat /\ seen[c].cut \in Nat
         /\ fout \in Seq(Unit) /\ Len(fout) \in Nat
         /\ \A name \in DOMAIN disk :
              /\ disk[name].by \in Conns
              /\ disk[name].data \in Seq(Unit) /\ Len(disk[name].data) \in Nat
BY LenProperties DEF Known, TypeInv, TypeOK, SeenType, FileType

\* The n elements of s that come after the first k.
LEMMA PieceOf ==
  ASSUME NEW S, NEW s \in Seq(S), NEW k \in Nat, NEW n \in Nat, k + n <= Len(s)
  PROVE  /\ SubSeq(s, k + 1, k + n) \in Seq(S)
         /\ Len(SubSeq(s, k + 1, k + n)) = n
         /\ \A i \in 1..n : SubSeq(s, k + 1, k + n)[i] = s[k + i]
<1> DEFINE piece == SubSeq(s, k + 1, k + n)
<1>1. \A i \in k + 1..k + n : s[i] \in S
  BY ElementOfSeq, LenProperties
<1>2. k + 1 \in Int /\ k + n \in Int
  OBVIOUS
<1>3. /\ piece \in Seq(S)
      /\ Len(piece) = IF k + 1 <= k + n THEN (k + n) - (k + 1) + 1 ELSE 0
      /\ \A i \in 1..(k + n) - (k + 1) + 1 : piece[i] = s[(k + 1) + i - 1]
  BY <1>1, <1>2, SubSeqProperties
<1>4. /\ (k + n) - (k + 1) + 1 = n
      /\ k + 1 <= k + n <=> n # 0
      /\ \A i \in 1..n : (k + 1) + i - 1 = k + i
  OBVIOUS
<1> HIDE DEF piece
<1>5. piece \in Seq(S) /\ Len(piece) = n
  BY <1>3, <1>4
<1>6. \A i \in 1..n : piece[i] = s[k + i]
  BY <1>3, <1>4
<1>7. QED
  BY <1>5, <1>6 DEF piece

-----------------------------------------------------------------------------
(***************************************************************************)
(* Streams only grow                                                       *)
(***************************************************************************)
Grows(c) == /\ Len(stream[c]) <= Len(stream'[c])
            /\ \A i \in 1..Len(stream[c]) : stream'[c][i] = stream[c][i]

\* What a client sends comes behind what it sent before.
LEMMA ClientGrows ==
  ASSUME Known, NEW c \in Conns,
         \/ ClientConnect(c) \/ ClientRefused(c) \/ ClientStep(c) \/ ClientAbort(c)
  PROVE  \A d \in Conns : Grows(d)
<1>1. ASSUME NEW more \in Seq(Unit), stream' = [stream EXCEPT ![c] = stream[c] \o more]
      PROVE  \A d \in Conns : Grows(d)
  <2>1. stream \in [Conns -> Seq(Unit)]
    BY DEF Known, TypeInv, TypeOK
  <2>2. Grows(c)
    BY <1>1, <2>1, ConcatProperties, LenProperties DEF Grows
  <2>3. \A d \in Conns : d # c => Grows(d)
    BY <1>1, <2>1, LenProperties DEF Grows
  <2>4. QED
    BY <2>2, <2>3
<1>2. ASSUME stream' = stream
      PROVE  \A d \in Conns : Grows(d)
  BY <1>2, KnownTypes DEF Grows
<1>3. CASE ClientSendRequest(c)
  BY <1>1, <1>3, RequestType DEF ClientSendRequest, Known, TypeInv
<1>4. CASE ClientSendBlock(c)
  <2> DEFINE content == job[c].content
             end == IF Sent(c) + BlockSize < Len(content)
                    THEN Sent(c) + BlockSize ELSE Len(content)
             block == SubSeq(content, Sent(c) + 1, end)
  <2>1. content \in Seq(Unit) /\ Len(content) \in Nat
    <3>1. content \in Seq(Data) /\ Data \subseteq Unit
      BY JobAssumption DEF Known, TypeInv, TypeOK, Unit
    <3>2. QED
      BY <3>1, SeqMonotonic, LenProperties
  <2>2. Sent(c) \in Nat
    BY <1>4, RequestType, LenProperties
      DEF Sent, ClientSendBlock, Known, TypeInv, SendingInv, TypeOK
  <2>3. end \in Nat /\ end <= Len(content)
    BY <2>1, <2>2, SizeAssumption
  <2>4. block \in Seq(Unit)
    <3>1. \A i \in Sent(c) + 1..end : content[i] \in Unit
      BY <2>1, <2>2, <2>3, ElementOfSeq
    <3>2. QED
      BY <2>2, <2>3, <3>1, SubSeqProperties
  <2>5. stream' = [stream EXCEPT ![c] = stream[c] \o block]
    BY <1>4 DEF ClientSendBlock
  <2>6. QED
    BY <1>1, <2>4, <2>5
<1>5. CASE ~ClientSendRequest(c) /\ ~ClientSendBlock(c)
  BY <1>2, <1>5 DEF ClientConnect, ClientRefused, ClientStep, ClientClose,
                    ClientReadReply, ClientCut, ClientAbort
<1>6. QED
  BY <1>3, <1>4, <1>5

\* What was received stays received, however the stream grows.
LEMMA ReceivedStays ==
  ASSUME Known, TakenInv, NEW c \in Conns, NEW text \in Seq(Unit), Received(c, text),
         Grows(c), seen'[c] = seen[c], taken'[c] \in Nat, taken[c] <= taken'[c]
  PROVE  Received(c, text)'
<1>1. Len(text) \in Nat
  BY LenProperties
<1>2. /\ taken[c] \in Nat /\ seen[c].cut \in Nat /\ Len(stream[c]) \in Nat
      /\ taken[c] <= Len(stream[c]) /\ seen[c].cut + Len(text) <= taken[c]
  BY KnownTypes DEF Received, TakenInv
<1>3. seen'[c].cut + Len(text) <= taken'[c]
  <2>1. ASSUME NEW a \in Nat, NEW b \in Nat, NEW k \in Nat, NEW n \in Nat,
               a + n <= k, k <= b
        PROVE  a + n <= b
    BY <2>1
  <2>2. seen'[c].cut = seen[c].cut /\ taken'[c] \in Nat /\ taken[c] <= taken'[c]
    OBVIOUS
  <2>3. QED
    BY <1>1, <1>2, <2>1, <2>2
<1>4. ASSUME NEW i \in 1..Len(text)
      PROVE  text[i] = stream'[c][seen'[c].cut + i]
  <2>1. seen[c].cut + i \in 1..Len(stream[c])
    <3>1. i \in Nat /\ 1 <= i /\ i <= Len(text)
      BY <1>1
    <3>2. seen[c].cut + i <= taken[c]
      BY <1>1, <1>2, <3>1
    <3>3. QED
      BY <1>2, <3>1, <3>2
  <2>2. text[i] = stream[c][seen[c].cut + i]
    BY DEF Received
  <2>3. QED
    BY <2>1, <2>2 DEF Grows
<1>5. QED
  BY <1>3, <1>4 DEF Received

\* A step that neither reads a socket nor writes a file keeps what is known
\* of the files and of the ofstream.
LEMMA StillFiles ==
  ASSUME Known, StoreInv, UNCHANGED <<taken, seen, disk>>,
         \A c \in Conns : Grows(c), \A c \in Conns : Len(stream'[c]) \in Nat
  PROVE  TakenInv' /\ FilesInv'
<1>1. TakenInv'
  BY KnownTypes DEF StoreInv, TakenInv, Grows
<1>2. ASSUME NEW name \in DOMAIN disk
      PROVE  Received(disk[name].by, disk[name].data)'
  <2>1. PICK c \in Conns, text \in Seq(Unit) :
          c = disk[name].by /\ text = disk[name].data
    BY KnownTypes
  <2>2. Received(c, text)
    BY <2>1 DEF StoreInv, FilesInv
  <2>3. Received(c, text)'
    BY <2>2, ReceivedStays, KnownTypes DEF StoreInv
  <2>4. QED
    BY <2>1, <2>3 DEF Received
<1>3. FilesInv'
  BY <1>2 DEF FilesInv
<1>4. QED
  BY <1>1, <1>3

\* The same of the whole invariant, when the thread neither begins an upload
\* nor ends one, and no connection becomes unread.
LEMMA StillStep ==
  ASSUME Known, StoreInv, UNCHANGED <<taken, seen, disk>>,
         \A c \in Conns : Grows(c), \A c \in Conns : Len(stream'[c]) \in Nat,
         \A c \in Conns : Unread(c)' => Unread(c),
         pc' \in {"decode", "serve"} => conn' = conn /\ pc \in {"decode", "serve"},
         pc' \notin {"receive", "finish"}
  PROVE  StoreInv'
<1>1. TakenInv' /\ FilesInv'
  BY StillFiles
<1>2. UnreadInv'
  BY DEF StoreInv, UnreadInv
<1>3. CutInv'
  BY DEF StoreInv, CutInv
<1>4. FoutInv' /\ OwnInv' /\ EndInv'
  BY DEF FoutInv, OwnInv, EndInv
<1>5. QED
  BY <1>1, <1>2, <1>3, <1>4 DEF StoreInv

-----------------------------------------------------------------------------
(***************************************************************************)
(* The steps of the thread outside the upload                              *)
(***************************************************************************)

\* The steps that move the thread move no data, and leave no connection to
\* read that was not there before.
LEMMA ThreadKeeps ==
  ASSUME Known, StoreInv,
         \/ Listen \/ AcceptClientConnection \/ Decode \/ ReadFile \/ ServeOther
         \/ CloseClientConnection \/ Ends
  PROVE  /\ UNCHANGED <<taken, seen, disk, stream, phase>>
         /\ pc' \notin {"receive", "finish"}
         /\ pc' \in {"decode", "serve"} => conn' = conn /\ pc \in {"decode", "serve"}
         /\ \A c \in Conns : Unread(c)' => Unread(c)
<1>1. UNCHANGED <<taken, seen, disk, stream, phase>>
  BY DEF Listen, AcceptClientConnection, Decode, ReadFile, ServeOther,
         CloseClientConnection, Ends, DecodeEnds, FolderFails, SocketFails, ExitElsewhere, Die,
         clientVars, kernelVars
<1>2. pc' \notin {"receive", "finish"}
  BY DEF Listen, AcceptClientConnection, Decode, ReadFile, ServeOther,
         CloseClientConnection, Ends, DecodeEnds, FolderFails, SocketFails, ExitElsewhere, Die
<1>3. pc' \in {"decode", "serve"} => conn' = conn /\ pc \in {"decode", "serve"}
  BY DEF Listen, AcceptClientConnection, Decode, ReadFile, ServeOther,
         CloseClientConnection, Ends, DecodeEnds, FolderFails, SocketFails, ExitElsewhere, Die
<1>4. \A c \in Conns : Unread(c)' => Unread(c)
  <2>1. CASE AcceptClientConnection
    <3>1. /\ backlog # <<>> /\ backlog \in Seq(Conns)
          /\ conn' = Head(backlog) /\ backlog' = Tail(backlog)
      BY <2>1 DEF AcceptClientConnection, Known, TypeInv, TypeOK
    <3>2. Len(backlog) \in Nat \ {0} /\ DOMAIN backlog = 1..Len(backlog)
      BY <3>1, EmptySeq, LenProperties
    <3>3. /\ conn' = backlog[1]
          /\ DOMAIN backlog' = 1..Len(backlog) - 1
          /\ \A i \in DOMAIN backlog' : backlog'[i] = backlog[i + 1]
      BY <3>1, <3>2, HeadTailProperties, LenProperties
    <3>4. \A c \in Conns : \A i \in Waiting(c)' : i + 1 \in Waiting(c)
      BY <3>2, <3>3 DEF Waiting
    <3>5. \A c \in Conns : c = conn' => 1 \in Waiting(c)
      BY <3>2, <3>3 DEF Waiting
    <3>6. QED
      BY <1>1, <3>4, <3>5 DEF Unread
  <2>2. CASE Ends
    BY <1>1, <2>2
      DEF Ends, DecodeEnds, FolderFails, SocketFails, ExitElsewhere, Die, Unread, Waiting
  <2>3. CASE \/ Listen \/ Decode \/ ReadFile \/ ServeOther \/ CloseClientConnection
    <3>1. backlog' = backlog /\ pc' # "message"
      BY <2>3 DEF Listen, Decode, ReadFile, ServeOther, CloseClientConnection,
           kernelVars
    <3>2. QED
      BY <1>1, <3>1 DEF Unread, Waiting
  <2>4. QED
    BY <2>1, <2>2, <2>3
<1>5. QED
  BY <1>1, <1>2, <1>3, <1>4

LEMMA ThreadStep ==
  ASSUME Known, StoreInv,
         \/ Listen \/ AcceptClientConnection \/ Decode \/ ReadFile \/ ServeOther
         \/ CloseClientConnection \/ Ends
  PROVE  StoreInv'
<1>1. /\ UNCHANGED <<taken, seen, disk, stream, phase>>
      /\ pc' \notin {"receive", "finish"}
      /\ pc' \in {"decode", "serve"} => conn' = conn /\ pc \in {"decode", "serve"}
      /\ \A c \in Conns : Unread(c)' => Unread(c)
  BY ThreadKeeps
<1>2. \A c \in Conns : Grows(c) /\ Len(stream'[c]) \in Nat
  BY <1>1, KnownTypes DEF Grows
<1>3. QED
  BY <1>1, <1>2, StillStep

\* What getMessage takes is taken before any file names the connection.
LEMMA MessageReads ==
  ASSUME Known, StoreInv, GetMessage \/ GetMessageEmpty
  PROVE  /\ conn \in Conns /\ pc = "message" /\ pc' = "decode" /\ conn' = conn
         /\ UNCHANGED <<disk, stream, phase, backlog>>
         /\ \A name \in DOMAIN disk : disk[name].by # conn
         /\ \A c \in Conns : c # conn => taken'[c] = taken[c] /\ seen'[c] = seen[c]
         /\ taken'[conn] \in Nat /\ taken'[conn] <= Len(stream[conn])
         /\ seen'[conn].cut = taken'[conn]
<1>1. /\ conn \in Conns /\ pc = "message" /\ pc' = "decode" /\ conn' = conn
      /\ UNCHANGED <<disk, stream, phase, backlog>>
      /\ \A name \in DOMAIN disk : disk[name].by # conn
  <2>1. /\ pc = "message" /\ pc' = "decode" /\ conn' = conn
        /\ UNCHANGED <<disk, stream, phase, backlog>>
    BY DEF GetMessage, GetMessageEmpty, clientVars, kernelVars
  <2>2. conn \in Conns
    BY <2>1 DEF Known, TypeInv, TypeOK
  <2>3. QED
    BY <2>1, <2>2 DEF StoreInv, UnreadInv, Unread
<1>2. /\ \A c \in Conns : c # conn => taken'[c] = taken[c] /\ seen'[c] = seen[c]
      /\ taken'[conn] \in Nat /\ taken'[conn] <= Len(stream[conn])
      /\ seen'[conn].cut = taken'[conn]
  <2>1. CASE GetMessage
    <3>1. PICK n \in Arrivals(conn, BufSize) :
            /\ taken' = [taken EXCEPT ![conn] = taken[conn] + n]
            /\ \E text \in CStrings(buffer') :
                 seen' = [seen EXCEPT ![conn] =
                            [text |-> text, cut |-> taken[conn] + n, high |-> high]]
      BY <2>1 DEF GetMessage
    <3>2. n \in Nat /\ taken[conn] + n <= Len(stream[conn])
      BY SizeAssumption DEF Arrivals
    <3>3. /\ taken \in [Conns -> Nat] /\ seen \in [Conns -> SeenType]
      BY DEF Known, TypeInv, TypeOK
    <3>4. QED
      BY <1>1, <3>1, <3>2, <3>3
  <2>2. CASE GetMessageEmpty
    <3>1. /\ taken' = taken
          /\ seen' = [seen EXCEPT ![conn] =
                        [text |-> <<>>, cut |-> taken[conn], high |-> high]]
      BY <2>2 DEF GetMessageEmpty, kernelVars
    <3>2. /\ taken \in [Conns -> Nat] /\ seen \in [Conns -> SeenType]
      BY DEF Known, TypeInv, TypeOK
    <3>3. QED
      BY <1>1, <3>1, <3>2 DEF StoreInv, TakenInv
  <2>3. QED
    BY <2>1, <2>2
<1>3. QED
  BY <1>1, <1>2

LEMMA MessageStep ==
  ASSUME Known, StoreInv, GetMessage \/ GetMessageEmpty
  PROVE  StoreInv'
<1>1. /\ conn \in Conns /\ pc = "message" /\ pc' = "decode" /\ conn' = conn
      /\ UNCHANGED <<disk, stream, phase, backlog>>
      /\ \A name \in DOMAIN disk : disk[name].by # conn
  BY MessageReads
<1>2. /\ \A c \in Conns : c # conn => taken'[c] = taken[c] /\ seen'[c] = seen[c]
      /\ taken'[conn] \in Nat /\ taken'[conn] <= Len(stream[conn])
      /\ seen'[conn].cut = taken'[conn]
  BY MessageReads
<1>3. TakenInv'
  BY <1>1, <1>2 DEF StoreInv, TakenInv
<1>4. FilesInv'
  <2>1. \A name \in DOMAIN disk : disk[name].by \in Conns \ {conn}
    BY <1>1, KnownTypes
  <2>2. QED
    BY <1>1, <1>2, <2>1 DEF StoreInv, FilesInv, Received
<1>5. UnreadInv'
  BY <1>1 DEF StoreInv, UnreadInv, Unread, Waiting
<1>6. CutInv' /\ FoutInv' /\ OwnInv' /\ EndInv'
  BY <1>1, <1>2 DEF CutInv, FoutInv, OwnInv, EndInv
<1>7. QED
  BY <1>3, <1>4, <1>5, <1>6 DEF StoreInv

-----------------------------------------------------------------------------
(***************************************************************************)
(* The steps of the upload                                                 *)
(***************************************************************************)

\* The open empties the file and gives it to the connection being served,
\* which getMessage has read.
LEMMA OpenStep == Known /\ StoreInv /\ UploadFileOpen => StoreInv'
<1> SUFFICES ASSUME Known, StoreInv, UploadFileOpen PROVE StoreInv'
  OBVIOUS
<1> DEFINE file == clientMessage.remoteFileName
<1>1. /\ conn \in Conns /\ pc = "serve" /\ pc' = "receive" /\ conn' = conn
      /\ UNCHANGED <<stream, phase, backlog, taken, seen, clientMessage>>
      /\ fout' = <<>>
      /\ seen[conn].cut = taken[conn]
  <2>1. pc = "serve" /\ pc' = "receive" /\ conn' = conn /\ fout' = <<>>
    BY DEF UploadFileOpen, Serves
  <2>2. UNCHANGED <<stream, phase, backlog, taken, seen, clientMessage>>
    BY DEF UploadFileOpen, clientVars, kernelVars
  <2>3. conn \in Conns
    BY <2>1 DEF Known, TypeInv, TypeOK
  <2>4. QED
    BY <2>1, <2>2, <2>3 DEF StoreInv, CutInv
<1>2. ~Unread(conn)'
  <2>1. conn \in Conns /\ Waiting(conn) = {} /\ phase[conn] # "idle"
    BY <1>1 DEF Known, NoConnectionLost
  <2>2. QED
    BY <1>1, <2>1 DEF Unread, Waiting
<1>3. TakenInv' /\ CutInv' /\ EndInv'
  BY <1>1 DEF StoreInv, TakenInv, CutInv, EndInv
<1>4. FoutInv'
  <2>1. Len(<<>>) = 0
    OBVIOUS
  <2>2. QED
    BY <1>1, <2>1, KnownTypes DEF FoutInv, Received
<1>5. CASE disk' = Opened(file, conn) /\ bad' = FALSE
  <2>1. /\ DOMAIN disk' = DOMAIN disk \cup {file}
        /\ disk'[file] = [data |-> <<>>, by |-> conn]
        /\ \A name \in DOMAIN disk \ {file} : disk'[name] = disk[name]
    BY <1>5 DEF Opened
  <2>2. UnreadInv'
    <3>1. \A c \in Conns : Unread(c)' => c # conn /\ Unread(c)
      BY <1>1, <1>2 DEF Unread, Waiting
    <3>2. QED
      BY <2>1, <3>1 DEF StoreInv, UnreadInv
  <2>3. FilesInv'
    <3>1. \A name \in DOMAIN disk' : name = file => Received(disk[name].by, disk[name].data)'
      BY <1>1, <2>1, KnownTypes DEF Received
    <3>2. ASSUME NEW name \in DOMAIN disk \ {file}
          PROVE  Received(disk[name].by, disk[name].data)'
      BY <1>1, <2>1 DEF StoreInv, FilesInv, Received
    <3>3. QED
      BY <2>1, <3>1, <3>2 DEF FilesInv, Received
  <2>4. OwnInv'
    BY <1>1, <2>1 DEF OwnInv
  <2>5. QED
    BY <1>3, <1>4, <2>2, <2>3, <2>4 DEF StoreInv
<1>6. CASE disk' = disk /\ bad' = TRUE
  <2>1. UnreadInv' /\ OwnInv'
    BY <1>1, <1>6 DEF StoreInv, UnreadInv, OwnInv, Unread, Waiting
  <2>2. FilesInv'
    BY <1>1, <1>6 DEF StoreInv, FilesInv, Received
  <2>3. QED
    BY <1>3, <1>4, <2>1, <2>2 DEF StoreInv
<1>7. QED
  BY <1>5, <1>6 DEF UploadFileOpen

\* What the ofstream passes on is a piece of what was received.
LEMMA FlushFiles ==
  ASSUME Known, StoreInv, pc \in {"receive", "finish"}, NEW atLeast, Flush(atLeast),
         fout' \in Seq(Unit), Received(conn, fout)',
         UNCHANGED <<stream, phase, backlog, seen, conn, clientMessage>>,
         \A c \in Conns : taken'[c] \in Nat /\ taken[c] <= taken'[c],
         pc' # "message"
  PROVE  FilesInv' /\ UnreadInv' /\ (~bad' => disk'[clientMessage.remoteFileName].by = conn)
<1> DEFINE file == clientMessage.remoteFileName
<1>1. conn \in Conns
  BY DEF Known, TypeInv, TypeOK
<1>2. \A c \in Conns, text \in Seq(Unit) : Received(c, text) => Received(c, text)'
  <2>1. \A c \in Conns : Grows(c)
    BY KnownTypes DEF Grows
  <2>2. QED
    BY <2>1, ReceivedStays DEF StoreInv
<1>3. \A c \in Conns : Unread(c)' => Unread(c)
  BY DEF Unread, Waiting
<1>4. ASSUME NEW name \in DOMAIN disk, disk'[name] = disk[name]
      PROVE  Received(disk[name].by, disk[name].data)'
  <2>1. PICK c \in Conns, text \in Seq(Unit) :
          c = disk[name].by /\ text = disk[name].data
    BY KnownTypes
  <2>2. Received(c, text)'
    BY <1>2, <2>1 DEF StoreInv, FilesInv
  <2>3. QED
    BY <1>4, <2>1, <2>2 DEF Received
<1>5. CASE bad
  <2>1. disk' = disk /\ bad'
    BY <1>5 DEF Flush
  <2>2. FilesInv'
    BY <1>4, <2>1 DEF FilesInv
  <2>3. QED
    BY <1>3, <2>1, <2>2 DEF StoreInv, UnreadInv
<1>6. CASE ~bad
  <2>1. file \in DOMAIN disk /\ disk[file].by = conn
    BY <1>6 DEF Known, TypeInv, OpenInv, StoreInv, OwnInv
  <2>2. PICK k \in Len(disk[file].data)..Len(fout') :
          disk' = [disk EXCEPT ![file].data = SubSeq(fout', 1, k)]
    BY <1>6 DEF Flush
  <2>3. k \in Nat /\ Len(fout') \in Nat /\ k <= Len(fout')
    BY <2>1, <2>2, KnownTypes, LenProperties
  <2>4. /\ Len(SubSeq(fout', 1, k)) = k
        /\ \A i \in 1..k : SubSeq(fout', 1, k)[i] = fout'[i]
    <3>1. \A i \in 1..k : fout'[i] \in Unit
      BY <2>3, ElementOfSeq
    <3>2. QED
      BY <2>3, <3>1, SubSeqProperties
  <2>5. /\ DOMAIN disk' = DOMAIN disk
        /\ disk'[file].by = conn /\ disk'[file].data = SubSeq(fout', 1, k)
        /\ \A name \in DOMAIN disk : name # file => disk'[name] = disk[name]
        /\ \A name \in DOMAIN disk : disk'[name].by = disk[name].by
    <3>1. disk[file] \in FileType
      BY <2>1 DEF Known, TypeInv, TypeOK
    <3>2. QED
      BY <2>1, <2>2, <3>1 DEF FileType
  <2>6. \A name \in DOMAIN disk' : name = file => Received(disk[name].by, disk[name].data)'
    <3>1. /\ seen[conn].cut + Len(fout') <= taken'[conn]
          /\ \A i \in 1..Len(fout') : fout'[i] = stream[conn][seen[conn].cut + i]
      BY DEF Received
    <3>2. seen[conn].cut \in Nat /\ taken'[conn] \in Nat
      BY <1>1, KnownTypes
    <3>3. seen[conn].cut + k <= taken'[conn]
      BY <2>3, <3>1, <3>2
    <3>4. \A i \in 1..k : SubSeq(fout', 1, k)[i] = stream[conn][seen[conn].cut + i]
      BY <2>3, <2>4, <3>1
    <3>5. QED
      <4> DEFINE piece == SubSeq(fout', 1, k)
      <4>1. Len(piece) = k /\ \A i \in 1..k : piece[i] = stream[conn][seen[conn].cut + i]
        BY <2>4, <3>4
      <4>2. disk'[file].by = conn /\ disk'[file].data = piece
        BY <2>5
      <4> HIDE DEF piece
      <4>3. QED
        BY <3>3, <4>1, <4>2 DEF Received
  <2>7. FilesInv'
    BY <1>4, <2>5, <2>6 DEF FilesInv
  <2>8. UnreadInv'
    BY <1>3, <2>5 DEF StoreInv, UnreadInv
  <2>9. QED
    BY <2>5, <2>7, <2>8
<1>7. QED
  BY <1>5, <1>6

\* A read of the upload goes to the ofstream whole, behind the one before.
LEMMA GetDataStep == Known /\ StoreInv /\ GetData => StoreInv'
<1> SUFFICES ASSUME Known, StoreInv, GetData PROVE StoreInv'
  OBVIOUS
<1>1. /\ conn \in Conns /\ pc = "receive" /\ pc' \in {"receive", "finish"}
      /\ UNCHANGED <<stream, phase, backlog, seen, conn, clientMessage>>
      /\ Flush(0)
      /\ pc' = "finish" => round' = Rounds
    BY DEF GetData, clientVars, Known, TypeInv, TypeOK
<1>2. PICK n \in Arrivals(conn, BlockSize) :
        /\ fout' = fout \o SubSeq(stream[conn], taken[conn] + 1, taken[conn] + n)
        /\ taken' = [taken EXCEPT ![conn] = taken[conn] + n]
  BY DEF GetData
<1> DEFINE more == SubSeq(stream[conn], taken[conn] + 1, taken[conn] + n)
<1>3. /\ n \in Nat /\ taken[conn] \in Nat /\ taken[conn] + n <= Len(stream[conn])
      /\ stream[conn] \in Seq(Unit) /\ fout \in Seq(Unit) /\ Len(fout) \in Nat
      /\ seen[conn].cut \in Nat /\ Len(stream[conn]) \in Nat
  BY <1>1, KnownTypes, SizeAssumption DEF Arrivals
<1>4. /\ more \in Seq(Unit) /\ Len(more) = n
      /\ \A i \in 1..n : more[i] = stream[conn][taken[conn] + i]
  <2>1. ASSUME NEW s \in Seq(Unit), NEW k \in Nat, k + n <= Len(s)
        PROVE  /\ SubSeq(s, k + 1, k + n) \in Seq(Unit)
               /\ Len(SubSeq(s, k + 1, k + n)) = n
               /\ \A i \in 1..n : SubSeq(s, k + 1, k + n)[i] = s[k + i]
    BY <1>3, <2>1, PieceOf
  <2>2. QED
    BY <1>3, <2>1, Zenon
<1>5. /\ fout' \in Seq(Unit) /\ Len(fout') = Len(fout) + n
      /\ \A i \in 1..Len(fout) : fout'[i] = fout[i]
      /\ \A i \in Len(fout) + 1..Len(fout) + n : fout'[i] = more[i - Len(fout)]
  <2> HIDE DEF more
  <2>1. fout' = fout \o more
    BY <1>2 DEF more
  <2>2. Len(more) = n
    BY <1>4
  <2>3. QED
    BY <1>3, <1>4, <2>1, <2>2, ConcatProperties
<1>6. /\ \A c \in Conns : taken'[c] \in Nat /\ taken[c] <= taken'[c]
      /\ \A c \in Conns : c # conn => taken'[c] = taken[c]
      /\ taken'[conn] = taken[conn] + n
  <2>1. taken \in [Conns -> Nat]
    BY DEF Known, TypeInv, TypeOK
  <2>2. /\ taken'[conn] = taken[conn] + n
        /\ \A c \in Conns : c # conn => taken'[c] = taken[c]
    BY <1>1, <1>2, <2>1
  <2>3. taken'[conn] \in Nat /\ taken[conn] <= taken'[conn]
    BY <1>3, <2>2
  <2>4. ASSUME NEW c \in Conns PROVE taken'[c] \in Nat /\ taken[c] <= taken'[c]
    <3>1. CASE c = conn
      BY <2>3, <3>1
    <3>2. CASE c # conn
      BY <2>1, <2>2, <3>2
    <3>3. QED
      BY <3>1, <3>2
  <2>5. QED
    BY <2>2, <2>4
<1>7. /\ seen[conn].cut + Len(fout) = taken[conn]
      /\ \A i \in 1..Len(fout) : fout[i] = stream[conn][seen[conn].cut + i]
  BY <1>1 DEF StoreInv, FoutInv, Received
<1>8. \A i \in 1..Len(fout') : fout'[i] = stream[conn][seen[conn].cut + i]
  <2> HIDE DEF more
  <2> SUFFICES ASSUME NEW i \in 1..Len(fout')
               PROVE  fout'[i] = stream[conn][seen[conn].cut + i]
    OBVIOUS
  <2>1. CASE i <= Len(fout)
    <3>1. i \in 1..Len(fout)
      BY <1>3, <1>5, <2>1
    <3>2. fout'[i] = fout[i]
      BY <1>3, <1>5, <3>1
    <3>3. QED
      BY <1>7, <3>1, <3>2
  <2>2. CASE i > Len(fout)
    <3>1. i - Len(fout) \in 1..n /\ i \in Len(fout) + 1..Len(fout) + n
      BY <1>3, <1>5, <2>2
    <3>2. fout'[i] = stream[conn][taken[conn] + (i - Len(fout))]
      BY <1>4, <1>5, <3>1
    <3>3. taken[conn] + (i - Len(fout)) = seen[conn].cut + i
      <4>1. i \in Nat /\ Len(fout) \in Nat /\ seen[conn].cut \in Nat
        BY <1>3, <1>5
      <4>2. QED
        BY <1>7, <4>1
    <3>4. QED
      BY <3>2, <3>3
  <2>3. QED
    BY <1>3, <1>5, <2>1, <2>2
<1>9. Received(conn, fout)' /\ seen'[conn'].cut + Len(fout') = taken'[conn']
  BY <1>1, <1>3, <1>5, <1>6, <1>7, <1>8 DEF Received
<1>10. /\ FilesInv' /\ UnreadInv'
       /\ ~bad' => disk'[clientMessage.remoteFileName].by = conn
  BY <1>1, <1>5, <1>6, <1>9, FlushFiles
<1>11. TakenInv'
  BY <1>1, <1>3, <1>6 DEF StoreInv, TakenInv
<1>12. CutInv' /\ EndInv'
  BY <1>1 DEF CutInv, EndInv, Rounds
<1>13. FoutInv'
  BY <1>9 DEF FoutInv
<1>14. OwnInv'
  BY <1>1, <1>10 DEF OwnInv
<1>15. QED
  BY <1>10, <1>11, <1>12, <1>13, <1>14 DEF StoreInv

\* A read that finds the end of the stream ends the loop.
LEMMA BreakStep == Known /\ StoreInv /\ UploadFileBreak => StoreInv'
<1> SUFFICES ASSUME Known, StoreInv, UploadFileBreak PROVE StoreInv'
  OBVIOUS
<1>1. /\ pc = "receive" /\ pc' = "finish" /\ EndOfStream(conn)
      /\ UNCHANGED <<stream, phase, backlog, seen, conn, clientMessage, fout, bad,
                     disk, taken>>
  BY DEF UploadFileBreak, clientVars, kernelVars, requestVars, uploadVars
<1>2. TakenInv' /\ FilesInv'
  BY <1>1 DEF StoreInv, TakenInv, FilesInv, Received
<1>3. UnreadInv'
  BY <1>1 DEF StoreInv, UnreadInv, Unread, Waiting
<1>4. FoutInv' /\ CutInv' /\ OwnInv' /\ EndInv'
  BY <1>1 DEF StoreInv, FoutInv, CutInv, OwnInv, EndInv, Received, EndOfStream
<1>5. QED
  BY <1>2, <1>3, <1>4 DEF StoreInv

\* The close passes on the rest, or fails.
LEMMA CloseStep == Known /\ StoreInv /\ UploadFileClose => StoreInv'
<1> SUFFICES ASSUME Known, StoreInv, UploadFileClose PROVE StoreInv'
  OBVIOUS
<1>1. /\ pc = "finish" /\ pc' = "close" /\ Flush(Len(fout))
      /\ UNCHANGED <<stream, phase, backlog, seen, conn, clientMessage, fout, taken>>
  BY DEF UploadFileClose, clientVars, kernelVars
<1>2. Received(conn, fout)'
  BY <1>1 DEF StoreInv, FoutInv, Received
<1>3. fout' \in Seq(Unit) /\ \A c \in Conns : taken'[c] \in Nat /\ taken[c] <= taken'[c]
  BY <1>1, KnownTypes
<1>4. FilesInv' /\ UnreadInv'
  BY <1>1, <1>2, <1>3, FlushFiles
<1>5. TakenInv' /\ CutInv' /\ FoutInv' /\ OwnInv' /\ EndInv'
  BY <1>1 DEF StoreInv, TakenInv, CutInv, FoutInv, OwnInv, EndInv
<1>6. QED
  BY <1>4, <1>5 DEF StoreInv

-----------------------------------------------------------------------------
(***************************************************************************)
(* The steps of the clients                                                *)
(***************************************************************************)

\* Clients leave what the server holds alone, and one that has left sends
\* no more.
LEMMA ClientKeeps ==
  ASSUME Known, NEW c \in Conns,
         \/ ClientConnect(c) \/ ClientRefused(c) \/ ClientStep(c) \/ ClientAbort(c)
  PROVE  /\ UNCHANGED <<taken, seen, disk, pc, conn, fout, bad, round, clientMessage>>
         /\ \A d \in Conns : Unread(d)' => Unread(d)
         /\ \A d \in Conns : phase[d] = "gone" =>
                               phase'[d] = "gone" /\ stream'[d] = stream[d]
<1>1. UNCHANGED <<taken, seen, disk, pc, conn, fout, bad, round, clientMessage>>
  BY DEF ClientConnect, ClientRefused, ClientStep, ClientSendRequest,
         ClientSendBlock, ClientClose, ClientReadReply, ClientCut, ClientAbort,
         serverVars, requestVars, uploadVars
<1>2. phase \in [Conns -> {"idle", "connected", "sending", "awaiting", "gone"}]
  BY DEF Known, TypeInv, TypeOK
<1>3. \A d \in Conns : phase[d] = "gone" =>
                         phase'[d] = "gone" /\ stream'[d] = stream[d]
  BY <1>2 DEF ClientConnect, ClientRefused, ClientStep, ClientSendRequest,
       ClientSendBlock, ClientClose, ClientReadReply, ClientCut, ClientAbort,
       Known, TypeInv, TypeOK
<1>4. \A d \in Conns : phase'[d] = "idle" => phase[d] = "idle"
  BY <1>2 DEF ClientConnect, ClientRefused, ClientStep, ClientSendRequest,
       ClientSendBlock, ClientClose, ClientReadReply, ClientCut, ClientAbort
<1>5. \A d \in Conns : Unread(d)' => Unread(d)
  <2>1. CASE ClientConnect(c)
    <3>1. /\ backlog' = Append(backlog, c) /\ phase[c] = "idle"
          /\ backlog \in Seq(Conns)
      BY <2>1 DEF ClientConnect, Known, TypeInv, TypeOK
    <3>2. /\ Len(backlog) \in Nat /\ DOMAIN backlog = 1..Len(backlog)
          /\ DOMAIN backlog' = 1..Len(backlog) + 1
          /\ \A i \in 1..Len(backlog) : backlog'[i] = backlog[i]
          /\ backlog'[Len(backlog) + 1] = c
      BY <3>1, AppendProperties, LenProperties
    <3>3. \A d \in Conns : d # c => Waiting(d)' = Waiting(d)
      BY <3>2 DEF Waiting
    <3>4. QED
      BY <1>1, <1>4, <3>1, <3>3 DEF Unread
  <2>2. CASE ~ClientConnect(c)
    <3>1. backlog' = backlog
      BY <2>2 DEF ClientRefused, ClientStep, ClientSendRequest, ClientSendBlock,
           ClientClose, ClientReadReply, ClientCut, ClientAbort
    <3>2. QED
      BY <1>1, <1>4, <3>1 DEF Unread, Waiting
  <2>3. QED
    BY <2>1, <2>2
<1>6. QED
  BY <1>1, <1>3, <1>5

LEMMA ClientStoreStep ==
  ASSUME Known, StoreInv, NEW c \in Conns,
         \/ ClientConnect(c) \/ ClientRefused(c) \/ ClientStep(c) \/ ClientAbort(c),
         \A d \in Conns : Len(stream'[d]) \in Nat
  PROVE  StoreInv'
<1>1. /\ UNCHANGED <<taken, seen, disk, pc, conn, fout, bad, round, clientMessage>>
      /\ \A d \in Conns : Unread(d)' => Unread(d)
      /\ \A d \in Conns : phase[d] = "gone" =>
                            phase'[d] = "gone" /\ stream'[d] = stream[d]
      /\ \A d \in Conns : Grows(d)
  BY ClientKeeps, ClientGrows
<1>2. TakenInv' /\ FilesInv'
  BY <1>1, StillFiles
<1>3. UnreadInv'
  BY <1>1 DEF StoreInv, UnreadInv
<1>4. FoutInv'
  <2>1. pc \in {"receive", "finish"} => conn \in Conns
    BY DEF Known, TypeInv, TypeOK
  <2>2. ASSUME pc \in {"receive", "finish"} PROVE Received(conn, fout)'
    <3>1. PICK d \in Conns, text \in Seq(Unit) : d = conn /\ text = fout
      BY <2>1, <2>2, KnownTypes
    <3>2. Received(d, text)
      BY <2>2, <3>1 DEF StoreInv, FoutInv
    <3>3. Received(d, text)'
      BY <1>1, <3>2, ReceivedStays, KnownTypes DEF StoreInv
    <3>4. QED
      BY <1>1, <3>1, <3>3 DEF Received
  <2>3. QED
    BY <1>1, <2>2 DEF StoreInv, FoutInv
<1>5. EndInv'
  BY <1>1 DEF StoreInv, EndInv, EndOfStream, Known, TypeInv, TypeOK
<1>6. CutInv' /\ OwnInv'
  BY <1>1 DEF StoreInv, CutInv, OwnInv
<1>7. QED
  BY <1>2, <1>3, <1>4, <1>5, <1>6 DEF StoreInv

-----------------------------------------------------------------------------
(***************************************************************************)
(* The theorems                                                            *)
(***************************************************************************)

\* At the start there is no file and nothing was sent.
LEMMA StoreInit == Init => StoreInv
<1> SUFFICES ASSUME Init PROVE StoreInv
  OBVIOUS
<1>1. DOMAIN disk = {} /\ pc = "listen"
  BY DEF Init
<1>2. TakenInv
  <2>1. Len(<<>>) = 0
    OBVIOUS
  <2>2. QED
    BY <2>1 DEF Init, TakenInv
<1>3. QED
  BY <1>1, <1>2 DEF StoreInv, UnreadInv, CutInv, FoutInv, OwnInv, FilesInv, EndInv

\* Every step keeps what is known of the files.
LEMMA StoreStep == Known /\ StoreInv /\ [Next]_vars /\ TypeInv' => StoreInv'
<1> SUFFICES ASSUME Known, StoreInv, [Next]_vars, TypeInv' PROVE StoreInv'
  OBVIOUS
<1>1. CASE \/ Listen \/ AcceptClientConnection \/ Decode \/ ReadFile \/ ServeOther
           \/ CloseClientConnection \/ Ends
  BY <1>1, ThreadStep
<1>2. CASE GetMessage \/ GetMessageEmpty
  BY <1>2, MessageStep
<1>3. CASE UploadFileOpen
  BY <1>3, OpenStep
<1>4. CASE GetData
  BY <1>4, GetDataStep
<1>5. CASE UploadFileBreak
  BY <1>5, BreakStep
<1>6. CASE UploadFileClose
  BY <1>6, CloseStep
<1>7. CASE \E c \in Conns : \/ ClientConnect(c) \/ ClientRefused(c)
                            \/ ClientStep(c) \/ ClientAbort(c)
  <2>1. \A d \in Conns : Len(stream'[d]) \in Nat
    BY LenProperties DEF TypeInv, TypeOK
  <2>2. QED
    BY <1>7, <2>1, ClientStoreStep
<1>8. CASE Restart \/ UNCHANGED vars
  <2>1. UNCHANGED <<phase, stream, backlog, taken, seen, disk, pc, conn, fout, bad,
                    round, clientMessage>>
    BY <1>8 DEF Restart, vars, clientVars, kernelVars, requestVars, uploadVars
  <2>2. UnreadInv' /\ TakenInv' /\ CutInv'
    BY <2>1 DEF StoreInv, UnreadInv, Unread, Waiting, TakenInv, CutInv
  <2>3. FoutInv' /\ OwnInv' /\ FilesInv' /\ EndInv'
    BY <2>1 DEF StoreInv, FoutInv, OwnInv, FilesInv, EndInv, Received, EndOfStream
  <2>4. QED
    BY <2>2, <2>3 DEF StoreInv
<1>9. QED
  BY <1>1, <1>2, <1>3, <1>4, <1>5, <1>6, <1>7, <1>8, StepKinds DEF Quiet

\* A sequence that agrees with a piece of another, element by element, is it.
LEMMA PieceIs ==
  ASSUME NEW S, NEW s \in Seq(S), NEW text \in Seq(S), NEW k \in Nat,
         k + Len(text) <= Len(s), \A i \in 1..Len(text) : text[i] = s[k + i]
  PROVE  text = SubSeq(s, k + 1, k + Len(text))
<1> DEFINE piece == SubSeq(s, k + 1, k + Len(text))
<1>1. Len(text) \in Nat
  BY LenProperties
<1>2. /\ piece \in Seq(S) /\ Len(piece) = Len(text)
      /\ \A i \in 1..Len(text) : piece[i] = s[k + i]
  BY <1>1, PieceOf
<1> HIDE DEF piece
<1>3. text = piece
  BY <1>2, SeqEqual
<1>4. QED
  BY <1>3 DEF piece

\* The invariant is enough for the property that TLC checks.
LEMMA StoredEnough == Known /\ StoreInv => StoredIsClientData
<1> SUFFICES ASSUME Known, StoreInv, NEW name \in DOMAIN disk
             PROVE  LET file == disk[name]
                        from == seen[file.by].cut
                    IN  /\ from + Len(file.data) <= taken[file.by]
                        /\ file.data =
                             SubSeq(stream[file.by], from + 1, from + Len(file.data))
  BY DEF StoredIsClientData
<1>1. PICK c \in Conns, text \in Seq(Unit) :
        c = disk[name].by /\ text = disk[name].data
  BY KnownTypes
<1>2. Received(c, text) /\ taken[c] <= Len(stream[c])
  BY <1>1 DEF StoreInv, FilesInv, TakenInv
<1>3. /\ seen[c].cut \in Nat /\ taken[c] \in Nat
      /\ stream[c] \in Seq(Unit) /\ Len(stream[c]) \in Nat /\ Len(text) \in Nat
  BY KnownTypes, LenProperties
<1>4. /\ seen[c].cut + Len(text) <= taken[c]
      /\ \A i \in 1..Len(text) : text[i] = stream[c][seen[c].cut + i]
  BY <1>2 DEF Received
<1>5. seen[c].cut + Len(text) <= Len(stream[c])
  BY <1>2, <1>3, <1>4
<1>6. text = SubSeq(stream[c], seen[c].cut + 1, seen[c].cut + Len(text))
  BY <1>3, <1>4, <1>5, PieceIs
<1>7. QED
  BY <1>1, <1>4, <1>6

\* What is on disk is what its uploader sent, in one piece, whatever the order
\* of the steps, the sizes of the reads, and the ends of the process.
THEOREM StoredCorrect == Spec => []StoredIsClientData
<1>1. Init => StoreInv
  BY StoreInit
<1>2. Known /\ StoreInv /\ [Next]_vars /\ TypeInv' => StoreInv'
  BY StoreStep
<1>3. Known /\ StoreInv => StoredIsClientData
  BY StoredEnough
<1>4. Init => TypeInv
  BY TypeInit
<1>5. TypeInv /\ [Next]_vars => TypeInv'
  BY TypeStep
<1>6. TypeInv /\ NoConnectionLost => Known
  BY DEF Known
<1>7. QED
  BY <1>1, <1>2, <1>3, <1>4, <1>5, <1>6, ConnectionsKept, PTL DEF Spec

-----------------------------------------------------------------------------
(***************************************************************************)
(* Complete uploads.  UploadComplete is inductive relative to StoreInv: it *)
(* becomes relevant with UploadFileClose and no later step disturbs it.    *)
(***************************************************************************)

\* The close that does not fail leaves all that the ofstream was given.
LEMMA CloseWrites ==
  ASSUME Known, StoreInv, UploadFileClose, ~bad'
  PROVE  /\ clientMessage.remoteFileName \in DOMAIN disk
         /\ disk'[clientMessage.remoteFileName].data = fout
<1> DEFINE file == clientMessage.remoteFileName
<1>1. pc = "finish" /\ Flush(Len(fout)) /\ fout' = fout
  BY DEF UploadFileClose
<1>2. Len(fout) \in Nat /\ fout \in Seq(Unit)
  BY KnownTypes
<1>3. ~bad
  BY <1>1 DEF Flush
<1>4. PICK k \in Len(disk[file].data)..Len(fout') :
        disk' = [disk EXCEPT ![file].data = SubSeq(fout', 1, k)] /\ k >= Len(fout)
  BY <1>1, <1>3 DEF Flush
<1>5. file \in DOMAIN disk /\ disk[file] \in FileType
  BY <1>1, <1>3 DEF Known, TypeInv, OpenInv, TypeOK
<1>6. Len(disk[file].data) \in Nat /\ k = Len(fout) /\ fout' = fout
  BY <1>1, <1>2, <1>4, <1>5, KnownTypes
<1>7. SubSeq(fout, 1, Len(fout)) = fout
  <2>1. 0 + Len(fout) <= Len(fout) /\ \A i \in 1..Len(fout) : fout[i] = fout[0 + i]
    BY <1>2
  <2>2. fout = SubSeq(fout, 0 + 1, 0 + Len(fout))
    BY <1>2, <2>1, PieceIs
  <2>3. 0 + 1 = 1 /\ 0 + Len(fout) = Len(fout)
    BY <1>2
  <2>4. QED
    BY <2>2, <2>3
<1>8. disk'[file].data = SubSeq(fout', 1, k)
  BY <1>4, <1>5 DEF FileType
<1>9. QED
  BY <1>5, <1>6, <1>7, <1>8

\* An upload that found the end of the stream stored all of it, when the
\* close could write.
LEMMA CompleteClose == Known /\ StoreInv /\ UploadFileClose => UploadComplete'
<1> SUFFICES ASSUME Known, StoreInv, UploadFileClose, round' < Rounds, ~bad'
             PROVE  /\ EndOfStream(conn)'
                    /\ disk'[clientMessage'.remoteFileName].data =
                         SubSeq(stream'[conn'], seen'[conn'].cut + 1, Len(stream'[conn']))
  BY DEF UploadComplete
<1> DEFINE file == clientMessage.remoteFileName
<1>1. /\ pc = "finish" /\ Flush(Len(fout)) /\ conn \in Conns
      /\ UNCHANGED <<stream, phase, seen, conn, clientMessage, fout, taken, round>>
  BY DEF UploadFileClose, clientVars, kernelVars, Known, TypeInv, TypeOK
<1>2. EndOfStream(conn) /\ EndOfStream(conn)'
  BY <1>1 DEF StoreInv, EndInv, EndOfStream
<1>3. /\ seen[conn].cut \in Nat /\ Len(fout) \in Nat /\ fout \in Seq(Unit)
      /\ stream[conn] \in Seq(Unit)
  BY <1>1, KnownTypes
<1>4. fout = SubSeq(stream[conn], seen[conn].cut + 1, Len(stream[conn]))
  <2>1. /\ seen[conn].cut + Len(fout) = Len(stream[conn])
        /\ \A i \in 1..Len(fout) : fout[i] = stream[conn][seen[conn].cut + i]
    BY <1>1, <1>2 DEF StoreInv, FoutInv, Received, EndOfStream
  <2>2. fout = SubSeq(stream[conn], seen[conn].cut + 1, seen[conn].cut + Len(fout))
    <3>1. seen[conn].cut + Len(fout) <= Len(stream[conn])
      BY <1>3, <2>1
    <3>2. QED
      BY <1>3, <2>1, <3>1, PieceIs
  <2>3. QED
    BY <2>1, <2>2
<1>5. disk'[file].data = fout
  BY CloseWrites
<1>6. QED
  BY <1>1, <1>2, <1>4, <1>5

\* Every other step either ends at another place or changes nothing of it.
LEMMA CompleteStep ==
  Known /\ StoreInv /\ UploadComplete /\ [Next]_vars => UploadComplete'
<1> SUFFICES ASSUME Known, StoreInv, UploadComplete, [Next]_vars PROVE UploadComplete'
  OBVIOUS
<1>1. CASE UploadFileClose
  BY <1>1, CompleteClose
<1>2. CASE ReadFile \/ ServeOther
  <2>1. clientMessage' = clientMessage /\ clientMessage.mtype # "UPLOAD"
    BY <1>2 DEF ReadFile, ServeOther, Serves, requestVars
  <2>2. QED
    BY <2>1 DEF UploadComplete
<1>3. CASE \/ Listen \/ AcceptClientConnection \/ GetMessage \/ GetMessageEmpty
           \/ Decode \/ UploadFileOpen \/ GetData \/ UploadFileBreak
           \/ CloseClientConnection \/ Ends
  <2>1. pc' # "close"
    BY <1>3 DEF Listen, AcceptClientConnection, GetMessage, GetMessageEmpty, Decode,
         UploadFileOpen, GetData, UploadFileBreak, CloseClientConnection, Ends,
         DecodeEnds, FolderFails, SocketFails, ExitElsewhere, Die
  <2>2. QED
    BY <2>1 DEF UploadComplete
<1>4. CASE \E c \in Conns : \/ ClientConnect(c) \/ ClientRefused(c)
                            \/ ClientStep(c) \/ ClientAbort(c)
  <2>1. /\ UNCHANGED <<taken, seen, disk, pc, conn, bad, round, clientMessage>>
        /\ \A d \in Conns : phase[d] = "gone" =>
                              phase'[d] = "gone" /\ stream'[d] = stream[d]
    BY <1>4, ClientKeeps
  <2>2. pc = "close" => conn \in Conns
    BY DEF Known, TypeInv, TypeOK
  <2>3. QED
    BY <2>1, <2>2 DEF UploadComplete, EndOfStream
<1>5. CASE Restart \/ UNCHANGED vars
  <2>1. UNCHANGED <<phase, stream, taken, seen, disk, pc, conn, bad, round,
                    clientMessage>>
    BY <1>5 DEF Restart, vars, clientVars, kernelVars, requestVars, uploadVars
  <2>2. QED
    BY <2>1 DEF UploadComplete, EndOfStream
<1>6. QED
  BY <1>1, <1>2, <1>3, <1>4, <1>5, StepKinds DEF Quiet

\* An upload that ends before its third read, on a working disk, has stored
\* everything that was sent after the part getMessage took.
THEOREM UploadsComplete == Spec => []UploadComplete
<1>1. Init => UploadComplete
  BY DEF Init, UploadComplete
<1>2. Known /\ StoreInv /\ UploadComplete /\ [Next]_vars => UploadComplete'
  BY CompleteStep
<1>3. Init => StoreInv
  BY StoreInit
<1>4. Known /\ StoreInv /\ [Next]_vars /\ TypeInv' => StoreInv'
  BY StoreStep
<1>5. Init => TypeInv
  BY TypeInit
<1>6. TypeInv /\ [Next]_vars => TypeInv'
  BY TypeStep
<1>7. TypeInv /\ NoConnectionLost => Known
  BY DEF Known
<1>8. QED
  BY <1>1, <1>2, <1>3, <1>4, <1>5, <1>6, <1>7, ConnectionsKept, PTL DEF Spec

-----------------------------------------------------------------------------
(***************************************************************************)
(* What becomes of a request: getMessage returns a text that begins with   *)
(* it, and deserialize accepts that text.                                  *)
(***************************************************************************)

\* Sequences of which the first n elements agree.
LEMMA PrefixOf ==
  ASSUME NEW s \in Seq(Unit), NEW t \in Seq(Unit), Len(s) <= Len(t)
  PROVE  IsPrefix(s, t) <=> \A i \in 1..Len(s) : s[i] = t[i]
<1> DEFINE n == Len(s)
<1>1. n \in Nat /\ 0 + n <= Len(s) /\ 0 + n <= Len(t)
  BY LenProperties
<1>2. /\ SubSeq(s, 0 + 1, 0 + n) \in Seq(Unit) /\ Len(SubSeq(s, 0 + 1, 0 + n)) = n
      /\ \A i \in 1..n : SubSeq(s, 0 + 1, 0 + n)[i] = s[0 + i]
  <2> HIDE DEF n
  <2>1. QED
    BY <1>1, PieceOf
<1>3. /\ SubSeq(t, 0 + 1, 0 + n) \in Seq(Unit) /\ Len(SubSeq(t, 0 + 1, 0 + n)) = n
      /\ \A i \in 1..n : SubSeq(t, 0 + 1, 0 + n)[i] = t[0 + i]
  <2> HIDE DEF n
  <2>1. QED
    BY <1>1, PieceOf
<1>4. 0 + 1 = 1 /\ 0 + n = n /\ \A i \in 1..n : 0 + i = i
  BY <1>1
<1>5. SubSeq(s, 1, n) = SubSeq(t, 1, n) <=> \A i \in 1..n : s[i] = t[i]
  <2> DEFINE a == SubSeq(s, 1, n)
             b == SubSeq(t, 1, n)
  <2>1. /\ a \in Seq(Unit) /\ Len(a) = n /\ \A i \in 1..n : a[i] = s[i]
        /\ b \in Seq(Unit) /\ Len(b) = n /\ \A i \in 1..n : b[i] = t[i]
    BY <1>2, <1>3, <1>4
  <2> HIDE DEF a, b, n
  <2>2. (\A i \in 1..n : s[i] = t[i]) => a = b
    BY <2>1, SeqEqual
  <2>3. a = b => \A i \in 1..n : s[i] = t[i]
    BY <2>1
  <2>4. QED
    BY <2>2, <2>3 DEF a, b
<1>6. QED
  BY <1>5 DEF IsPrefix

-----------------------------------------------------------------------------
(***************************************************************************)
(* The invariant.  A connection that getMessage has yet to read was not    *)
(* read at all; what a client sends begins with its request; and above the *)
(* highest cell that was written the buffer is as new.                     *)
(***************************************************************************)
Begins(text, request) ==
  Len(request) <= Len(text) /\ \A i \in 1..Len(request) : text[i] = request[i]

UntouchedInv == \A c \in Conns : Unread(c) => taken[c] = 0

RequestFirst ==
  \A c \in Conns : /\ phase[c] \in {"idle", "connected"} => stream[c] = <<>>
                   /\ stream[c] # <<>> => Begins(stream[c], Request(c))

CleanInv == \A i \in 1..BufSize : i > high => buffer[i] = Nul

BufferInv == UntouchedInv /\ RequestFirst /\ CleanInv /\ FaithfulText

LEMMA BufferInit == Init => BufferInv
<1> SUFFICES ASSUME Init PROVE BufferInv
  OBVIOUS
<1>1. UntouchedInv /\ RequestFirst /\ CleanInv
  BY SizeAssumption DEF Init, UntouchedInv, RequestFirst, CleanInv, NewBuffer
<1>2. FaithfulText
  <2>1. TypeOK
    BY TypeInit DEF TypeInv
  <2>2. \A c \in Conns : seen[c].cut = 0 /\ Len(Request(c)) \in Nat \ {0}
    BY <2>1, RequestType DEF Init, NotRead
  <2>3. QED
    BY <2>2 DEF FaithfulText
<1>3. QED
  BY <1>1, <1>2 DEF BufferInv

-----------------------------------------------------------------------------
(***************************************************************************)
(* The steps                                                               *)
(***************************************************************************)

\* What was returned stays what it was.
LEMMA FaithfulStays ==
  FaithfulText /\ UNCHANGED <<job, seen>> => FaithfulText'
BY DEF FaithfulText, Request

\* Steps that read nothing, write no request and make no connection unread.
LEMMA BufferStill ==
  ASSUME BufferInv, UNCHANGED <<job, seen, taken, phase, stream>>, CleanInv',
         \A c \in Conns : Unread(c)' => Unread(c)
  PROVE  BufferInv'
<1>1. UntouchedInv' /\ RequestFirst'
  BY DEF BufferInv, UntouchedInv, RequestFirst, Begins, Request
<1>2. QED
  BY <1>1, FaithfulStays DEF BufferInv

\* getMessage: the request is in the first cells, and the string goes on to
\* the first NUL behind it.
LEMMA GetMessageBuffer ==
  ASSUME Known, StoreInv, BufferInv, GetMessage
  PROVE  BufferInv'
<1>1. /\ conn \in Conns /\ pc = "message" /\ pc' = "decode" /\ conn' = conn
      /\ UNCHANGED <<disk, stream, phase, backlog, job>>
      /\ \A c \in Conns : c # conn => taken'[c] = taken[c] /\ seen'[c] = seen[c]
  BY MessageReads DEF GetMessage, clientVars
<1>2. taken[conn] = 0
  BY <1>1 DEF BufferInv, UntouchedInv, Unread
<1>3. PICK n \in Arrivals(conn, BufSize) :
        /\ buffer' = [i \in 1..BufSize |->
                        IF i <= n THEN stream[conn][taken[conn] + i] ELSE buffer[i]]
        /\ high' = IF n > high THEN n ELSE high
        /\ \E text \in CStrings(buffer') :
             seen' = [seen EXCEPT ![conn] =
                        [text |-> text, cut |-> taken[conn] + n, high |-> high]]
  BY DEF GetMessage, Overwritten
<1>4. PICK text \in CStrings(buffer') :
        seen' = [seen EXCEPT ![conn] =
                   [text |-> text, cut |-> taken[conn] + n, high |-> high]]
  BY <1>3
<1>5. /\ n \in 1..BufSize /\ n \in Nat /\ n <= Len(stream[conn])
      /\ BufSize \in Nat /\ high \in 0..BufSize /\ high \in Nat
      /\ stream[conn] \in Seq(Unit) /\ Len(stream[conn]) \in Nat
      /\ seen \in [Conns -> SeenType] /\ buffer \in [1..BufSize -> Unit]
  <2>1. /\ stream[conn] \in Seq(Unit) /\ Len(stream[conn]) \in Nat
        /\ seen \in [Conns -> SeenType] /\ buffer \in [1..BufSize -> Unit]
        /\ high \in 0..BufSize
    BY <1>1, KnownTypes DEF Known, TypeInv, TypeOK
  <2>2. BufSize \in Nat
    BY SizeAssumption
  <2>3. n \in 1..BufSize /\ taken[conn] + n <= Len(stream[conn])
    BY DEF Arrivals
  <2>4. QED
    BY <1>2, <2>1, <2>2, <2>3
<1>6. seen'[conn] = [text |-> text, cut |-> n, high |-> high]
  BY <1>1, <1>2, <1>4, <1>5
<1>7. \A i \in 1..BufSize :
        buffer'[i] = IF i <= n THEN stream[conn][i] ELSE buffer[i]
  BY <1>2, <1>3, <1>5
<1>8. buffer' \in [1..BufSize -> Unit]
  <2>1. \A i \in 1..n : stream[conn][i] \in Unit
    BY <1>5, ElementOfSeq
  <2>2. \A i \in 1..BufSize : buffer'[i] \in Unit
    BY <1>5, <1>7, <2>1
  <2>3. QED
    BY <1>3, <2>2
<1>9. CleanInv'
  BY <1>3, <1>5, <1>7 DEF BufferInv, CleanInv
<1>10. UntouchedInv'
  <2>1. ~Unread(conn)' /\ \A c \in Conns : Unread(c)' => Unread(c)
    BY <1>1 DEF Known, NoConnectionLost, Unread, Waiting
  <2>2. QED
    BY <1>1, <2>1 DEF BufferInv, UntouchedInv
<1>11. RequestFirst'
  BY <1>1 DEF BufferInv, RequestFirst, Begins, Request
<1>12. FaithfulText'
  <2> DEFINE request == Request(conn)
             k == Len(request)
  <2>1. request \in Seq(Unit) /\ k \in Nat \ {0} /\ \A i \in 1..k : request[i] # Nul
    BY <1>1, RequestType DEF Known, TypeInv
  <2>2. stream[conn] # <<>>
    BY <1>5
  <2>3. Begins(stream[conn], request)
    BY <1>1, <2>2 DEF BufferInv, RequestFirst
  <2>4. \A c \in Conns : Request(c)' = Request(c)
    BY <1>1 DEF Request
  <2> HIDE DEF request
  <2>5. ASSUME n >= k, k <= BufSize
        PROVE  /\ IsPrefix(request, text)
               /\ n = k /\ k < BufSize /\ high <= n => text = request
    <3>1. \A i \in 1..k : buffer'[i] = request[i] /\ buffer'[i] # Nul
      <4> SUFFICES ASSUME NEW i \in 1..k
                   PROVE  buffer'[i] = request[i] /\ buffer'[i] # Nul
        OBVIOUS
      <4>1. i \in 1..BufSize /\ i <= n
        BY <1>5, <2>1, <2>5
      <4>2. buffer'[i] = stream[conn][i]
        BY <1>7, <4>1
      <4>3. stream[conn][i] = request[i]
        BY <2>3 DEF Begins
      <4>4. QED
        BY <2>1, <4>2, <4>3
    <3>2. /\ text \in Seq(Unit) /\ Len(text) \in Nat /\ Len(text) >= k
          /\ \A i \in 1..k : text[i] = buffer'[i]
          /\ k < BufSize /\ buffer'[k + 1] = Nul => Len(text) = k
      <4>1. k \in 0..BufSize /\ BufSize \in Nat /\ Junk \in Unit
        BY <1>5, <2>1, <2>5, SizeAssumption DEF Unit
      <4> HIDE DEF k
      <4>2. QED
        BY <1>8, <3>1, <4>1, CStringsOf
    <3>3. IsPrefix(request, text)
      BY <2>1, <3>1, <3>2, PrefixOf
    <3>4. ASSUME n = k, k < BufSize, high <= n PROVE text = request
      <4>1. k + 1 \in 1..BufSize /\ k + 1 > n /\ k + 1 > high
        BY <1>5, <2>1, <3>4
      <4>2. buffer'[k + 1] = buffer[k + 1] /\ buffer[k + 1] = Nul
        BY <1>5, <1>7, <4>1 DEF BufferInv, CleanInv
      <4>3. Len(text) = Len(request)
        BY <3>2, <3>4, <4>2
      <4>4. \A i \in 1..Len(request) : text[i] = request[i]
        BY <3>1, <3>2
      <4>5. QED
        BY <2>1, <3>2, <4>3, <4>4, SeqEqual
    <3>5. QED
      BY <3>3, <3>4
  <2>6. \A c \in Conns : c # conn => seen'[c] = seen[c] /\ Request(c)' = Request(c)
    BY <1>1, <2>4
  <2>7. ASSUME NEW c \in Conns
        PROVE  LET alone == seen'[c].cut = Len(Request(c)') /\ Len(Request(c)') < BufSize
               IN  /\ seen'[c].cut >= Len(Request(c)') /\ Len(Request(c)') <= BufSize
                        => IsPrefix(Request(c)', seen'[c].text)
                   /\ alone /\ seen'[c].high <= seen'[c].cut
                        => seen'[c].text = Request(c)'
    <3>1. CASE c = conn
      <4>1. /\ seen'[c].cut = n /\ seen'[c].high = high /\ seen'[c].text = text
            /\ Request(c)' = request
        BY <1>6, <2>4, <3>1 DEF request
      <4>2. QED
        BY <1>5, <2>1, <2>5, <4>1
    <3>2. CASE c # conn
      BY <2>6, <3>2 DEF BufferInv, FaithfulText
    <3>3. QED
      BY <3>1, <3>2
  <2>8. QED
    BY <2>7 DEF FaithfulText
<1>13. QED
  BY <1>9, <1>10, <1>11, <1>12 DEF BufferInv

\* getMessage on a connection that its client has closed: an empty text.
LEMMA EmptyBuffer ==
  ASSUME Known, StoreInv, BufferInv, GetMessageEmpty
  PROVE  BufferInv'
<1>1. /\ conn \in Conns /\ pc = "message" /\ pc' = "decode" /\ conn' = conn
      /\ UNCHANGED <<disk, stream, phase, backlog, job, taken, buffer, high>>
      /\ \A c \in Conns : c # conn => seen'[c] = seen[c]
      /\ seen'[conn].cut = taken'[conn]
  BY MessageReads DEF GetMessageEmpty, clientVars, kernelVars, memoryVars
<1>2. taken[conn] = 0
  BY <1>1 DEF BufferInv, UntouchedInv, Unread
<1>3. UntouchedInv' /\ RequestFirst' /\ CleanInv'
  BY <1>1 DEF BufferInv, UntouchedInv, RequestFirst, CleanInv, Begins, Request,
              Unread, Waiting
<1>4. \A c \in Conns : Request(c)' = Request(c) /\ Len(Request(c)) \in Nat \ {0}
  <2>1. \A c \in Conns : Request(c)' = Request(c)
    BY <1>1 DEF Request
  <2>2. QED
    BY <2>1, RequestType DEF Known, TypeInv
<1>5. FaithfulText'
  <2>1. seen'[conn].cut = 0
    BY <1>1, <1>2
  <2>2. QED
    BY <1>1, <1>4, <2>1 DEF BufferInv, FaithfulText
<1>6. QED
  BY <1>3, <1>5 DEF BufferInv

\* The reads of an upload go to another array and another connection's count.
LEMMA UploadBuffer ==
  ASSUME Known, StoreInv, BufferInv,
         UploadFileOpen \/ GetData \/ UploadFileBreak \/ UploadFileClose
  PROVE  BufferInv'
<1>1. UNCHANGED <<phase, stream, job, backlog, conn, seen, buffer, high>>
  BY DEF UploadFileOpen, GetData, UploadFileBreak, UploadFileClose, clientVars,
         kernelVars, memoryVars
<1>2. pc' # "message" /\ pc \notin {"message"}
  BY DEF UploadFileOpen, GetData, UploadFileBreak, UploadFileClose, Serves
<1>3. \A c \in Conns : Unread(c)' => Unread(c) /\ taken'[c] = taken[c]
  <2>1. CASE GetData
    <3>1. conn \in Conns /\ pc = "receive"
      BY <2>1 DEF GetData, Known, TypeInv, TypeOK
    <3>2. ~Unread(conn)'
      BY <1>1, <1>2, <3>1 DEF Known, NoConnectionLost, Unread, Waiting
    <3>3. \A c \in Conns : c # conn => taken'[c] = taken[c]
      BY <2>1, <3>1 DEF GetData, Known, TypeInv, TypeOK
    <3>4. QED
      BY <1>1, <1>2, <3>2, <3>3 DEF Unread, Waiting
  <2>2. CASE UploadFileOpen \/ UploadFileBreak \/ UploadFileClose
    BY <1>1, <1>2, <2>2
      DEF UploadFileOpen, UploadFileBreak, UploadFileClose, kernelVars, Unread, Waiting
  <2>3. QED
    BY <2>1, <2>2
<1>4. UntouchedInv' /\ RequestFirst' /\ CleanInv'
  BY <1>1, <1>3 DEF BufferInv, UntouchedInv, RequestFirst, CleanInv, Begins, Request
<1>5. QED
  BY <1>1, <1>4, FaithfulStays DEF BufferInv

\* A client sends its request before anything else.
LEMMA ClientBuffer ==
  ASSUME Known, BufferInv, NEW c \in Conns,
         \/ ClientConnect(c) \/ ClientRefused(c) \/ ClientStep(c) \/ ClientAbort(c)
  PROVE  BufferInv'
<1>1. /\ UNCHANGED <<taken, seen, job, buffer, high>>
      /\ \A d \in Conns : Unread(d)' => Unread(d)
  BY ClientKeeps DEF ClientConnect, ClientRefused, ClientStep, ClientSendRequest,
       ClientSendBlock, ClientClose, ClientReadReply, ClientCut, ClientAbort,
       serverVars, memoryVars
<1>2. \A d \in Conns : Request(d)' = Request(d)
  BY <1>1 DEF Request
<1>3. /\ phase \in [Conns -> {"idle", "connected", "sending", "awaiting", "gone"}]
      /\ stream \in [Conns -> Seq(Unit)]
  BY DEF Known, TypeInv, TypeOK
<1>4. \A d \in Conns : d # c => phase'[d] = phase[d] /\ stream'[d] = stream[d]
  BY <1>3 DEF ClientConnect, ClientRefused, ClientStep, ClientSendRequest,
       ClientSendBlock, ClientClose, ClientReadReply, ClientCut, ClientAbort
<1>5. phase'[c] \in {"idle", "connected"} => stream'[c] = <<>>
  BY <1>3 DEF ClientConnect, ClientRefused, ClientStep, ClientSendRequest,
       ClientSendBlock, ClientClose, ClientReadReply, ClientCut, ClientAbort,
       BufferInv, RequestFirst
<1>6. stream'[c] # <<>> => Begins(stream'[c], Request(c))
  <2>1. CASE ClientSendRequest(c)
    <3>1. Request(c) \in Seq(Unit) /\ stream[c] = <<>>
      BY <2>1, RequestType DEF ClientSendRequest, BufferInv, RequestFirst, Known, TypeInv
    <3>2. stream'[c] = <<>> \o Request(c)
      BY <1>3, <2>1, <3>1 DEF ClientSendRequest
    <3>3. stream'[c] = Request(c)
      BY <3>1, <3>2, ConcatProperties
    <3>4. QED
      BY <3>1, <3>3, LenProperties DEF Begins
  <2>2. CASE ~ClientSendRequest(c)
    <3>1. stream[c] # <<>> => Grows(c) /\ Begins(stream[c], Request(c))
      BY ClientGrows DEF BufferInv, RequestFirst
    <3>2. stream[c] = <<>> => stream'[c] = <<>>
      <4>1. ASSUME stream[c] = <<>>, ClientSendBlock(c) PROVE FALSE
        <5>1. Len(Request(c)) \in Nat \ {0} /\ Len(stream[c]) = 0
          BY <4>1, RequestType DEF Known, TypeInv
        <5>2. Len(stream[c]) >= Len(Request(c))
          BY <4>1 DEF ClientSendBlock, Known, TypeInv, SendingInv
        <5>3. QED
          BY <5>1, <5>2
      <4>2. QED
        BY <1>3, <2>2, <4>1 DEF ClientConnect, ClientRefused, ClientStep, ClientClose,
             ClientReadReply, ClientCut, ClientAbort
    <3>3. Len(Request(c)) \in Nat /\ Len(stream[c]) \in Nat
      BY <1>3, RequestType, LenProperties DEF Known, TypeInv
    <3>4. stream'[c] # <<>> => Len(stream'[c]) \in Nat
      <4>1. stream'[c] \in Seq(Unit) \/ stream' = stream
        BY TypeClient, <1>3 DEF Known, TypeInv, TypeOK
      <4>2. QED
        BY <1>3, <4>1, LenProperties
    <3>5. QED
      BY <3>1, <3>2, <3>3, <3>4 DEF Grows, Begins
  <2>3. QED
    BY <2>1, <2>2
<1>7. RequestFirst'
  BY <1>2, <1>4, <1>5, <1>6 DEF BufferInv, RequestFirst
<1>8. UntouchedInv' /\ CleanInv'
  BY <1>1 DEF BufferInv, UntouchedInv, CleanInv
<1>9. QED
  BY <1>1, <1>7, <1>8, FaithfulStays DEF BufferInv

LEMMA BufferStep == Known /\ StoreInv /\ BufferInv /\ [Next]_vars => BufferInv'
<1> SUFFICES ASSUME Known, StoreInv, BufferInv, [Next]_vars PROVE BufferInv'
  OBVIOUS
<1>1. CASE \/ Listen \/ AcceptClientConnection \/ Decode \/ ReadFile \/ ServeOther
           \/ CloseClientConnection \/ Ends
  <2>1. /\ UNCHANGED <<taken, seen, stream, phase>>
        /\ \A c \in Conns : Unread(c)' => Unread(c)
    BY <1>1, ThreadKeeps
  <2>2. UNCHANGED job
    BY <1>1 DEF Listen, AcceptClientConnection, Decode, ReadFile, ServeOther,
         CloseClientConnection, Ends, DecodeEnds, FolderFails, SocketFails, ExitElsewhere, Die,
         clientVars
  <2>3. CleanInv'
    <3>1. CASE Ends
      BY <3>1, SizeAssumption DEF Ends, DecodeEnds, FolderFails, SocketFails, ExitElsewhere, Die,
           CleanInv, NewBuffer
    <3>2. CASE ~Ends
      <4>1. UNCHANGED <<buffer, high>>
        BY <1>1, <3>2 DEF Listen, AcceptClientConnection, Decode, ReadFile,
             ServeOther, CloseClientConnection, memoryVars
      <4>2. QED
        BY <4>1 DEF BufferInv, CleanInv
    <3>3. QED
      BY <3>1, <3>2
  <2>4. QED
    BY <2>1, <2>2, <2>3, BufferStill
<1>2. CASE GetMessage
  BY <1>2, GetMessageBuffer
<1>3. CASE GetMessageEmpty
  BY <1>3, EmptyBuffer
<1>4. CASE UploadFileOpen \/ GetData \/ UploadFileBreak \/ UploadFileClose
  BY <1>4, UploadBuffer
<1>5. CASE \E c \in Conns : \/ ClientConnect(c) \/ ClientRefused(c)
                            \/ ClientStep(c) \/ ClientAbort(c)
  BY <1>5, ClientBuffer
<1>6. CASE Restart \/ UNCHANGED vars
  <2>1. UNCHANGED <<job, seen, taken, phase, stream, backlog, pc, conn, buffer, high>>
    BY <1>6 DEF Restart, vars, clientVars, kernelVars, memoryVars, requestVars
  <2>2. QED
    BY <2>1, BufferStill DEF BufferInv, CleanInv, Unread, Waiting
<1>7. QED
  BY <1>1, <1>2, <1>3, <1>4, <1>5, <1>6, StepKinds DEF Quiet

LEMMA BufferKept == Spec => [](Known /\ BufferInv)
<1>1. Init => TypeInv /\ StoreInv /\ BufferInv
  BY TypeInit, StoreInit, BufferInit
<1>2. TypeInv /\ [Next]_vars => TypeInv'
  BY TypeStep
<1>3. Known /\ StoreInv /\ [Next]_vars /\ TypeInv' => StoreInv'
  BY StoreStep
<1>4. Known /\ StoreInv /\ BufferInv /\ [Next]_vars => BufferInv'
  BY BufferStep
<1>5. Known <=> TypeInv /\ NoConnectionLost
  BY DEF Known
<1>6. QED
  BY <1>1, <1>2, <1>3, <1>4, <1>5, ConnectionsKept, PTL DEF Spec

\* What getMessage returns begins with the request whenever all of it had
\* arrived, and is the request when nothing else had and no earlier request
\* reached further into the buffer (tcpserver.cc getMessage).
THEOREM RequestArrives == Spec => []FaithfulText
<1>1. Known /\ BufferInv => FaithfulText
  BY DEF BufferInv
<1>2. QED
  BY <1>1, BufferKept, PTL

-----------------------------------------------------------------------------
(***************************************************************************)
(* deserialize.  A text that begins with a request has the tokens of the   *)
(* request where deserialize looks for them; what follows may only make    *)
(* the last one longer.                                                    *)
(***************************************************************************)

\* A unit at or behind from that is no separator makes a token; a separator
\* behind that unit ends it.
LEMMA StrtokFinds ==
  ASSUME NEW text \in Seq(Unit), NEW from \in Nat \ {0}, NEW i \in from..Len(text),
         text[i] # Sep
  PROVE  /\ strtok(text, from).token # <<>>
         /\ i = from => strtok(text, from).token[1] = text[i]
         /\ \A j \in i..Len(text) - 1 :
              text[j + 1] = Sep => strtok(text, from).next <= j + 1
         /\ strtok(text, from).next \in Nat \ {0}
<1> DEFINE first == Min(TokenStarts(text, from))
           last  == Min(TokenEnds(text, first))
<1>1. Len(text) \in Nat /\ i \in Nat
  BY LenProperties
<1>2. TokenStarts(text, from) \in SUBSET Nat /\ i \in TokenStarts(text, from)
  BY <1>1 DEF TokenStarts
<1>3. first \in TokenStarts(text, from) /\ first <= i
  BY <1>2, MinOfNats
<1>4. first \in from..Len(text) /\ first \in Nat \ {0}
  BY <1>1, <1>3 DEF TokenStarts
<1>5. /\ TokenEnds(text, first) \in SUBSET Nat
      /\ Len(text) \in TokenEnds(text, first)
  BY <1>1, <1>4 DEF TokenEnds
<1>6. last \in TokenEnds(text, first) /\ \A x \in TokenEnds(text, first) : last <= x
  BY <1>5, MinOfNats
<1>7. last \in first..Len(text) /\ last \in Nat
  BY <1>1, <1>4, <1>6 DEF TokenEnds
<1>8. strtok(text, from) = [token |-> SubSeq(text, first, last), next |-> last + 1]
  BY <1>2 DEF strtok
<1> HIDE DEF first, last
<1>9. /\ SubSeq(text, first, last) \in Seq(Unit)
      /\ Len(SubSeq(text, first, last)) = last - first + 1
      /\ SubSeq(text, first, last)[1] = text[first]
  <2>1. \A k \in first..last : text[k] \in Unit
    BY <1>1, <1>4, <1>7, ElementOfSeq
  <2>2. QED
    BY <1>4, <1>7, <2>1, SubSeqProperties
<1>10. SubSeq(text, first, last) # <<>>
  BY <1>4, <1>7, <1>9, EmptySeq
<1>11. i = from => first = i
  BY <1>1, <1>3, <1>4
<1>12. ASSUME NEW j \in i..Len(text) - 1, text[j + 1] = Sep
       PROVE  last <= j
  <2>1. j \in TokenEnds(text, first)
    BY <1>1, <1>3, <1>4, <1>12 DEF TokenEnds
  <2>2. QED
    BY <1>6, <2>1
<1>13. \A j \in i..Len(text) - 1 : text[j + 1] = Sep => last + 1 <= j + 1
  BY <1>1, <1>7, <1>12
<1>14. /\ strtok(text, from).token = SubSeq(text, first, last)
       /\ strtok(text, from).next = last + 1
  <2>1. ASSUME NEW r, NEW x, NEW y, r = [token |-> x, next |-> y]
        PROVE  r.token = x /\ r.next = y
    BY <2>1
  <2>2. QED
    BY <1>8, <2>1
<1>15. strtok(text, from).token # <<>> /\ strtok(text, from).next \in Nat \ {0}
  BY <1>7, <1>10, <1>14
<1>16. i = from => strtok(text, from).token[1] = text[i]
  BY <1>9, <1>11, <1>14
<1>17. \A j \in i..Len(text) - 1 :
         text[j + 1] = Sep => strtok(text, from).next <= j + 1
  BY <1>13, <1>14
<1>18. QED
  BY <1>15, <1>16, <1>17

\* The verb of a request names its type and no other.
LEMMA VerbOfType ==
  ASSUME NEW t \in {"READ", "UPLOAD", "DOWNLOAD"}, NEW token,
         token[1] = messageTypeString[t]
  PROVE  getMessageType(token) = t
<1>1. token[1] \in Verb
  BY DEF Verb, MessageType
<1>2. t \in MessageType
  BY DEF MessageType
<1>3. \A u \in MessageType : messageTypeString[u] = messageTypeString[t] => u = t
  BY DEF MessageType, messageTypeString
<1>4. QED
  BY <1>1, <1>2, <1>3 DEF getMessageType

\* Where the verb, the separators and the names of a request are.
LEMMA RequestFields ==
  ASSUME TypeOK, NEW c \in Conns
  PROVE  LET r == Request(c)
             k == Len(job[c].req.remoteFileName)
         IN  /\ Len(r) \in Nat /\ Len(r) >= 3 /\ k \in Nat \ {0}
             /\ r[1] = messageTypeString[job[c].req.mtype] /\ r[1] # Sep
             /\ r[2] = Sep /\ r[3] # Sep
             /\ job[c].req.mtype = "DOWNLOAD" =>
                  Len(r) >= 4 + k /\ r[3 + k] = Sep /\ r[4 + k] # Sep
<1> DEFINE m == job[c].req
           k == Len(m.remoteFileName)
           verb == messageTypeString[m.mtype]
           U == Part \cup Verb \cup {Sep}
<1>1. /\ m \in Message /\ m.mtype \in {"READ", "UPLOAD", "DOWNLOAD"}
      /\ m.remoteFileName # <<>>
      /\ m.mtype = "DOWNLOAD" => m.localFileName # <<>>
  BY JobAssumption DEF TypeOK
<1> HIDE DEF m
<1>2. m.remoteFileName \in Seq(Part) /\ m.localFileName \in Seq(Part)
  BY <1>1 DEF Message
<1>3. /\ k \in Nat \ {0} /\ \A i \in 1..k : m.remoteFileName[i] \in Part
  BY <1>1, <1>2, EmptySeq, LenProperties, ElementOfSeq
<1>4. verb \in Verb /\ verb # Sep /\ Sep \notin Part
  BY <1>1, PieceAssumption DEF Verb, MessageType
<1> HIDE DEF verb
<1> DEFINE name == <<Sep>> \o m.remoteFileName
<1>5. /\ name \in Seq(U) /\ Len(name) = k + 1
      /\ name[1] = Sep
      /\ \A i \in 1..k : name[i + 1] = m.remoteFileName[i]
  <2>1. <<Sep>> \in Seq(U) /\ Len(<<Sep>>) = 1 /\ <<Sep>>[1] = Sep
    OBVIOUS
  <2>2. m.remoteFileName \in Seq(U)
    BY <1>2, SeqMonotonic
  <2> HIDE DEF U
  <2>3. /\ name \in Seq(U) /\ Len(name) = 1 + k
        /\ \A i \in 1..1 + k :
             name[i] = IF i <= 1 THEN <<Sep>>[i] ELSE m.remoteFileName[i - 1]
    BY <2>1, <2>2, ConcatProperties
  <2>4. QED
    BY <1>3, <2>1, <2>3
<1> HIDE DEF name
<1>6. <<verb>> \in Seq(U) /\ Len(<<verb>>) = 1 /\ <<verb>>[1] = verb
  BY <1>4
<1>7. CASE m.mtype \in {"READ", "UPLOAD"}
  <2>1. serialize(m) = <<verb>> \o name
    BY <1>7 DEF serialize, verb, name
  <2> HIDE DEF U, k
  <2>2. /\ Len(serialize(m)) = 1 + (k + 1)
        /\ \A i \in 1..1 + (k + 1) :
             serialize(m)[i] = IF i <= 1 THEN <<verb>>[i] ELSE name[i - 1]
    BY <1>3, <1>5, <1>6, <2>1, ConcatProperties
  <2>3. serialize(m)[1] = verb /\ serialize(m)[2] = Sep
    BY <1>3, <1>5, <1>6, <2>2
  <2>4. serialize(m)[3] # Sep
    <3>1. serialize(m)[3] = m.remoteFileName[1]
      BY <1>3, <1>5, <2>2
    <3>2. QED
      BY <1>3, <1>4, <3>1
  <2>5. QED
    BY <1>3, <1>4, <1>7, <2>2, <2>3, <2>4 DEF Request, m, k, verb
<1>8. CASE m.mtype = "DOWNLOAD"
  <2> DEFINE l == Len(m.localFileName)
             left == name \o <<Sep>>
             both == left \o m.localFileName
  <2>1. serialize(m) = <<verb>> \o both
    BY <1>8 DEF serialize, verb, name
  <2>2. l \in Nat \ {0} /\ m.localFileName \in Seq(U) /\ m.localFileName[1] # Sep
    <3>1. l \in Nat \ {0} /\ \A i \in 1..l : m.localFileName[i] \in Part
      BY <1>1, <1>2, <1>8, EmptySeq, LenProperties, ElementOfSeq
    <3>2. QED
      BY <1>2, <1>4, <3>1, SeqMonotonic
  <2>3. <<Sep>> \in Seq(U) /\ Len(<<Sep>>) = 1 /\ <<Sep>>[1] = Sep
    OBVIOUS
  <2> HIDE DEF U, k, l
  <2>4. /\ left \in Seq(U) /\ Len(left) = k + 2
        /\ \A i \in 1..k + 1 : left[i] = name[i]
        /\ left[k + 2] = Sep
    BY <1>3, <1>5, <2>3, ConcatProperties
  <2> HIDE DEF left
  <2>5. /\ both \in Seq(U) /\ Len(both) = k + 2 + l
        /\ \A i \in 1..k + 2 : both[i] = left[i]
        /\ both[k + 3] = m.localFileName[1]
    <3>1. l = Len(m.localFileName)
      BY DEF l
    <3>2. /\ both \in Seq(U) /\ Len(both) = (k + 2) + l
          /\ \A i \in 1..(k + 2) + l :
               both[i] = IF i <= k + 2 THEN left[i] ELSE m.localFileName[i - (k + 2)]
      <4>1. m.localFileName \in Seq(U) /\ left \in Seq(U)
        BY <2>2, <2>4
      <4>2. /\ both \in Seq(U) /\ Len(both) = Len(left) + Len(m.localFileName)
            /\ \A i \in 1..Len(left) + Len(m.localFileName) :
                 both[i] = IF i <= Len(left) THEN left[i]
                           ELSE m.localFileName[i - Len(left)]
        BY <4>1, ConcatProperties
      <4> HIDE DEF both
      <4>3. Len(left) = k + 2
        BY <2>4
      <4>4. QED
        BY <3>1, <4>2, <4>3
    <3>3. k + 3 \in 1..(k + 2) + l /\ ~(k + 3 <= k + 2) /\ (k + 3) - (k + 2) = 1
      BY <1>3, <2>2
    <3>4. \A i \in 1..k + 2 : i \in 1..(k + 2) + l
      BY <1>3, <2>2
    <3>5. QED
      BY <3>2, <3>3, <3>4
  <2> HIDE DEF both
  <2>6. /\ Len(serialize(m)) = 1 + (k + 2 + l)
        /\ serialize(m)[1] = verb
        /\ \A i \in 1..k + 3 : serialize(m)[i + 1] = both[i]
    <3>1. /\ Len(serialize(m)) = 1 + (k + 2 + l)
          /\ \A i \in 1..1 + (k + 2 + l) :
               serialize(m)[i] = IF i <= 1 THEN <<verb>>[i] ELSE both[i - 1]
      BY <1>6, <2>1, <2>5, ConcatProperties
    <3>2. QED
      BY <1>3, <1>6, <2>2, <3>1
  <2>7. serialize(m)[2] = Sep /\ serialize(m)[3] # Sep
    <3>1. both[1] = Sep /\ both[2] = m.remoteFileName[1]
      BY <1>3, <1>5, <2>4, <2>5
    <3>2. serialize(m)[1 + 1] = both[1] /\ serialize(m)[2 + 1] = both[2]
      BY <1>3, <2>6
    <3>3. QED
      BY <1>3, <1>4, <3>1, <3>2
  <2>8. serialize(m)[3 + k] = Sep /\ serialize(m)[4 + k] # Sep
    <3>1. serialize(m)[(k + 2) + 1] = both[k + 2] /\ serialize(m)[(k + 3) + 1] = both[k + 3]
      BY <1>3, <2>6
    <3>2. (k + 2) + 1 = 3 + k /\ (k + 3) + 1 = 4 + k /\ k + 2 \in 1..k + 2
      BY <1>3
    <3>3. QED
      BY <2>2, <2>4, <2>5, <3>1, <3>2
  <2>9. Len(serialize(m)) \in Nat /\ Len(serialize(m)) >= 4 + k
    BY <1>3, <2>2, <2>6
  <2>10. QED
    BY <1>3, <1>4, <2>6, <2>7, <2>8, <2>9 DEF Request, m, k, verb
<1>9. QED
  BY <1>1, <1>7, <1>8

\* A text that begins with a request is one that deserialize accepts.
LEMMA BeginsDeserializes ==
  ASSUME TypeOK, NEW c \in Conns, NEW text \in Seq(Unit), Begins(text, Request(c))
  PROVE  Deserializes(text)
<1> DEFINE r == Request(c)
           k == Len(job[c].req.remoteFileName)
           t == job[c].req.mtype
<1>1. /\ Len(r) \in Nat /\ Len(r) >= 3 /\ k \in Nat \ {0}
      /\ r[1] = messageTypeString[t] /\ r[1] # Sep
      /\ r[2] = Sep /\ r[3] # Sep
      /\ t = "DOWNLOAD" => Len(r) >= 4 + k /\ r[3 + k] = Sep /\ r[4 + k] # Sep
  BY RequestFields
<1>2. t \in {"READ", "UPLOAD", "DOWNLOAD"}
  BY JobAssumption DEF TypeOK
<1>3. /\ Len(text) \in Nat /\ Len(text) >= Len(r)
      /\ \A i \in 1..Len(r) : text[i] = r[i]
  BY <1>1, LenProperties DEF Begins
<1> HIDE DEF r, k, t
<1>4. text[1] = messageTypeString[t] /\ text[1] # Sep /\ text[2] = Sep /\ text[3] # Sep
  BY <1>1, <1>3
<1>5. /\ TypeToken(text).token # <<>>
      /\ TypeToken(text).token[1] = messageTypeString[t]
      /\ TypeToken(text).next <= 2 /\ TypeToken(text).next \in Nat \ {0}
  <2>1. 1 \in 1..Len(text) /\ 1 \in 1..Len(text) - 1
    BY <1>1, <1>3
  <2>2. text[1 + 1] = Sep
    BY <1>4
  <2>3. /\ strtok(text, 1).token # <<>> /\ strtok(text, 1).token[1] = text[1]
        /\ \A j \in 1..Len(text) - 1 : text[j + 1] = Sep => strtok(text, 1).next <= j + 1
        /\ strtok(text, 1).next \in Nat \ {0}
    BY <1>4, <2>1, StrtokFinds
  <2>4. strtok(text, 1).next <= 1 + 1
    BY <2>1, <2>2, <2>3
  <2>5. QED
    BY <1>4, <2>3, <2>4 DEF TypeToken
<1>6. getMessageType(TypeToken(text).token) = t
  BY <1>2, <1>5, VerbOfType
<1>7. /\ Token0(text).token # <<>> /\ Token0(text).next \in Nat \ {0}
      /\ \A j \in 3..Len(text) - 1 : text[j + 1] = Sep => Token0(text).next <= j + 1
  <2>1. 3 \in TypeToken(text).next..Len(text)
    BY <1>1, <1>3, <1>5
  <2>2. QED
    BY <1>4, <1>5, <2>1, StrtokFinds DEF Token0
<1>8. ASSUME t = "DOWNLOAD" PROVE Token1(text).token # <<>>
  <2>1. text[(2 + k) + 1] = Sep /\ text[4 + k] # Sep
    <3>1. 3 + k \in 1..Len(r) /\ 4 + k \in 1..Len(r) /\ (2 + k) + 1 = 3 + k
      BY <1>1, <1>8
    <3>2. QED
      BY <1>1, <1>3, <1>8, <3>1
  <2>2. 2 + k \in 3..Len(text) - 1 /\ 4 + k <= Len(text)
    BY <1>1, <1>3, <1>8
  <2>3. Token0(text).next <= (2 + k) + 1
    BY <1>7, <2>1, <2>2
  <2>4. 4 + k \in Token0(text).next..Len(text)
    BY <1>1, <1>7, <2>2, <2>3
  <2>5. QED
    BY <1>7, <2>1, <2>4, StrtokFinds DEF Token1
<1>9. QED
  BY <1>2, <1>5, <1>6, <1>7, <1>8 DEF Deserializes, FieldCount

LEMMA AcceptedNow == Known /\ BufferInv => RequestNeverKills
<1> SUFFICES ASSUME Known, BufferInv, pc = "decode",
                    seen[conn].cut >= Len(Request(conn)),
                    Len(Request(conn)) <= BufSize
             PROVE  Deserializes(seen[conn].text)
  BY DEF RequestNeverKills
<1>1. conn \in Conns
  BY DEF Known, TypeInv, TypeOK
<1>2. seen[conn].text \in Seq(Unit)
  BY <1>1 DEF Known, TypeInv, TypeOK, SeenType
<1>3. IsPrefix(Request(conn), seen[conn].text)
  BY <1>1 DEF BufferInv, FaithfulText
<1>4. Request(conn) \in Seq(Unit) /\ Len(Request(conn)) <= Len(seen[conn].text)
  BY <1>1, <1>3, RequestType DEF IsPrefix, Known, TypeInv
<1>5. Begins(seen[conn].text, Request(conn))
  BY <1>2, <1>3, <1>4, PrefixOf DEF Begins
<1>6. QED
  BY <1>1, <1>2, <1>5, BeginsDeserializes DEF Known, TypeInv

\* A request that has arrived whole never ends the process, whatever followed
\* it in the read and whatever was in the buffer before (message.cc
\* deserialize as chunkMain calls it).
THEOREM RequestAccepted == Spec => []RequestNeverKills
  BY AcceptedNow, BufferKept, PTL

\* A request is read at once, and one read fills no more than the buffer.
CutFits == \A c \in Conns : seen[c].cut <= BufSize

LEMMA CutStep == Known /\ BufferInv /\ CutFits /\ [Next]_vars => CutFits'
<1> SUFFICES ASSUME Known, BufferInv, CutFits, [Next]_vars PROVE CutFits'
  OBVIOUS
<1>1. CASE GetMessage
  <2>1. conn \in Conns /\ pc = "message"
    BY <1>1 DEF GetMessage, Known, TypeInv, TypeOK
  <2>2. taken[conn] = 0
    BY <2>1 DEF BufferInv, UntouchedInv, Unread
  <2>3. PICK n \in 1..BufSize, text \in CStrings(buffer') :
          seen' = [seen EXCEPT ![conn] =
                     [text |-> text, cut |-> taken[conn] + n, high |-> high]]
    BY <1>1 DEF GetMessage, Arrivals
  <2>4. seen'[conn].cut = n \/ seen' = seen
    BY <2>1, <2>2, <2>3, SizeAssumption DEF Known, TypeInv, TypeOK
  <2>5. \A c \in Conns : c # conn => seen'[c] = seen[c]
    BY <2>1, <2>3 DEF Known, TypeInv, TypeOK
  <2>6. QED
    BY <2>3, <2>4, <2>5, SizeAssumption DEF CutFits
<1>2. CASE GetMessageEmpty
  <2>1. conn \in Conns /\ pc = "message"
    BY <1>2 DEF GetMessageEmpty, Known, TypeInv, TypeOK
  <2>2. taken[conn] = 0
    BY <2>1 DEF BufferInv, UntouchedInv, Unread
  <2>3. seen'[conn].cut = 0 /\ \A c \in Conns : c # conn => seen'[c] = seen[c]
    BY <1>2, <2>1, <2>2 DEF GetMessageEmpty, Known, TypeInv, TypeOK
  <2>4. QED
    BY <2>3, SizeAssumption DEF CutFits
<1>3. CASE ~GetMessage /\ ~GetMessageEmpty
  <2>1. seen' = seen
    BY <1>3 DEF Next, ServerStep, Listen, AcceptClientConnection, DecodeEnds, Decode,
       ReadFile, ServeOther, FolderFails, UploadFileOpen, GetData, UploadFileBreak,
       UploadFileClose, CloseClientConnection, Die, SocketFails, ExitElsewhere, Restart,
       ClientConnect, ClientRefused, ClientStep, ClientSendRequest, ClientSendBlock,
       ClientClose, ClientReadReply, ClientCut, ClientAbort, serverVars, vars
  <2>2. QED
    BY <2>1 DEF CutFits
<1>4. QED
  BY <1>1, <1>2, <1>3

\* deserialize ends the process only for a client of which less than its
\* request was read: one that closed before, or whose request was cut by the
\* read or did not fit the buffer (message.cc deserialize as chunkMain calls
\* it).
THEOREM DecodeEndsForCause ==
  Spec => [][DecodeEnds => conn # NoConn /\ seen[conn].cut < Len(Request(conn))]_vars
<1> DEFINE Cause == conn # NoConn /\ seen[conn].cut < Len(Request(conn))
<1>1. ASSUME Known, BufferInv, CutFits, DecodeEnds PROVE Cause
  <2>1. pc = "decode" /\ ~Deserializes(seen[conn].text)
    BY <1>1 DEF DecodeEnds
  <2>2. conn \in Conns /\ conn # NoConn
    BY <1>1, <2>1, ConnAssumption DEF Known, TypeInv, TypeOK
  <2>3. Len(Request(conn)) \in Nat /\ seen[conn].cut \in Nat /\ BufSize \in Nat
    BY <1>1, <2>2, RequestType, SizeAssumption DEF Known, TypeInv, TypeOK, SeenType
  <2>4. RequestNeverKills
    BY <1>1, AcceptedNow
  <2>5. ~(seen[conn].cut >= Len(Request(conn))) \/ ~(Len(Request(conn)) <= BufSize)
    BY <2>1, <2>4 DEF RequestNeverKills
  <2>6. seen[conn].cut <= BufSize
    BY <1>1, <2>2 DEF CutFits
  <2>7. QED
    BY <2>2, <2>3, <2>5, <2>6
<1>2. Known /\ BufferInv /\ CutFits /\ [Next]_vars => [DecodeEnds => Cause]_vars
  BY <1>1
<1>3. Init => CutFits
  BY SizeAssumption DEF Init, NotRead, CutFits
<1>4. QED
  BY <1>2, <1>3, CutStep, BufferKept, PTL DEF Spec


-----------------------------------------------------------------------------
(***************************************************************************)
(* Pieces of sequences                                                     *)
(***************************************************************************)

\* What is left of s after its first a elements.
LEMMA RestOf ==
  ASSUME NEW S, NEW s \in Seq(S), NEW a \in Nat, a <= Len(s)
  PROVE  /\ SubSeq(s, a + 1, Len(s)) \in Seq(S)
         /\ Len(SubSeq(s, a + 1, Len(s))) = Len(s) - a
         /\ \A i \in 1..Len(s) - a : SubSeq(s, a + 1, Len(s))[i] = s[a + i]
<1>1. Len(s) \in Nat /\ Len(s) - a \in Nat /\ a + (Len(s) - a) = Len(s)
  BY LenProperties
<1> DEFINE n == Len(s) - a
<1>2. /\ SubSeq(s, a + 1, a + n) \in Seq(S)
      /\ Len(SubSeq(s, a + 1, a + n)) = n
      /\ \A i \in 1..n : SubSeq(s, a + 1, a + n)[i] = s[a + i]
  <2> HIDE DEF n
  <2>1. n \in Nat /\ a + n <= Len(s)
    BY <1>1 DEF n
  <2>2. QED
    BY <2>1, PieceOf
<1>3. QED
  BY <1>1, <1>2

\* A piece of length 0.
LEMMA NoPiece ==
  ASSUME NEW S, NEW s \in Seq(S), NEW a \in Nat, a <= Len(s)
  PROVE  SubSeq(s, a + 1, a) = <<>>
<1>1. /\ SubSeq(s, a + 1, a + 0) \in Seq(S)
      /\ Len(SubSeq(s, a + 1, a + 0)) = 0
  BY PieceOf
<1>2. a + 0 = a
  OBVIOUS
<1>3. SubSeq(s, a + 1, a) \in Seq(S) /\ Len(SubSeq(s, a + 1, a)) = 0
  BY <1>1, <1>2
<1>4. QED
  BY <1>3, EmptySeq

\* Taking k elements from the rest of s.
LEMMA RestParts ==
  ASSUME NEW S, NEW s \in Seq(S), NEW a \in Nat, NEW k \in Nat, a + k <= Len(s)
  PROVE  LET rest == SubSeq(s, a + 1, Len(s))
         IN  /\ SubSeq(rest, 1, k) = SubSeq(s, a + 1, a + k)
             /\ SubSeq(rest, k + 1, Len(rest)) = SubSeq(s, a + k + 1, Len(s))
<1> DEFINE rest == SubSeq(s, a + 1, Len(s))
           first == SubSeq(rest, 0 + 1, 0 + k)
           last == SubSeq(rest, k + 1, Len(rest))
           piece == SubSeq(s, a + 1, a + k)
           tail == SubSeq(s, (a + k) + 1, Len(s))
<1>1. Len(s) \in Nat /\ a <= Len(s) /\ a + k \in Nat
  BY LenProperties
<1>2. /\ rest \in Seq(S) /\ Len(rest) = Len(s) - a
      /\ \A i \in 1..Len(s) - a : rest[i] = s[a + i]
  BY <1>1, RestOf
<1>3. /\ piece \in Seq(S) /\ Len(piece) = k
      /\ \A i \in 1..k : piece[i] = s[a + i]
  BY PieceOf
<1>4. /\ tail \in Seq(S) /\ Len(tail) = Len(s) - (a + k)
      /\ \A i \in 1..Len(s) - (a + k) : tail[i] = s[(a + k) + i]
  BY <1>1, RestOf
<1> HIDE DEF rest, piece, tail
<1>5. /\ first \in Seq(S) /\ Len(first) = k
      /\ \A i \in 1..k : first[i] = rest[0 + i]
  <2>1. 0 + k <= Len(rest)
    BY <1>1, <1>2
  <2>2. QED
    BY <1>2, <2>1, PieceOf
<1>6. /\ last \in Seq(S) /\ Len(last) = Len(rest) - k
      /\ \A i \in 1..Len(rest) - k : last[i] = rest[k + i]
  <2>1. k <= Len(rest)
    BY <1>1, <1>2
  <2>2. QED
    BY <1>2, <2>1, RestOf
<1> HIDE DEF first, last
<1>7. first = piece
  <2>1. \A i \in 1..k : first[i] = piece[i]
    <3>1. \A i \in 1..k : 0 + i = i /\ i \in 1..Len(s) - a
      BY <1>1
    <3>2. QED
      BY <1>2, <1>3, <1>5, <3>1
  <2>2. QED
    BY <1>3, <1>5, <2>1, SeqEqual
<1>8. last = tail
  <2>1. Len(rest) - k = Len(s) - (a + k)
    BY <1>1, <1>2
  <2>2. \A i \in 1..Len(s) - (a + k) : last[i] = tail[i]
    <3>1. ASSUME NEW i \in 1..Len(s) - (a + k) PROVE last[i] = tail[i]
      <4>1. k + i \in 1..Len(s) - a /\ a + (k + i) = (a + k) + i
        BY <1>1
      <4>2. QED
        BY <1>2, <1>4, <1>6, <2>1, <4>1
    <3>2. QED
      BY <3>1
  <2>3. QED
    BY <1>4, <1>6, <2>1, <2>2, SeqEqual
<1>9. QED
  BY <1>7, <1>8 DEF first, last, piece, tail, rest

\* Two pieces of s that lie side by side.
LEMMA Joined ==
  ASSUME NEW S, NEW s \in Seq(S), NEW a \in Nat, NEW b \in Nat, NEW k \in Nat,
         a <= b, b + k <= Len(s)
  PROVE  SubSeq(s, a + 1, b) \o SubSeq(s, b + 1, b + k) = SubSeq(s, a + 1, b + k)
<1> DEFINE n == b - a
           left == SubSeq(s, a + 1, a + n)
           right == SubSeq(s, b + 1, b + k)
           whole == SubSeq(s, a + 1, a + (n + k))
<1>1. n \in Nat /\ a + n = b /\ a + (n + k) = b + k /\ Len(s) \in Nat
  BY LenProperties
<1> HIDE DEF n
<1>2. /\ left \in Seq(S) /\ Len(left) = n
      /\ \A i \in 1..n : left[i] = s[a + i]
  <2>1. a + n <= Len(s)
    BY <1>1
  <2>2. QED
    BY <1>1, <2>1, PieceOf
<1>3. /\ right \in Seq(S) /\ Len(right) = k
      /\ \A i \in 1..k : right[i] = s[b + i]
  BY PieceOf
<1>4. /\ whole \in Seq(S) /\ Len(whole) = n + k
      /\ \A i \in 1..n + k : whole[i] = s[a + i]
  <2> DEFINE m == n + k
  <2>1. m \in Nat /\ a + m <= Len(s)
    BY <1>1
  <2> HIDE DEF m
  <2>2. /\ SubSeq(s, a + 1, a + m) \in Seq(S)
        /\ Len(SubSeq(s, a + 1, a + m)) = m
        /\ \A i \in 1..m : SubSeq(s, a + 1, a + m)[i] = s[a + i]
    BY <2>1, PieceOf
  <2>3. QED
    BY <2>2 DEF m
<1> HIDE DEF left, right, whole
<1>5. /\ left \o right \in Seq(S) /\ Len(left \o right) = n + k
      /\ \A i \in 1..n : (left \o right)[i] = left[i]
      /\ \A i \in n + 1..n + k : (left \o right)[i] = right[i - n]
  <2>1. /\ left \o right \in Seq(S) /\ Len(left \o right) = Len(left) + Len(right)
        /\ \A i \in 1..Len(left) + Len(right) :
             (left \o right)[i] = IF i <= Len(left) THEN left[i] ELSE right[i - Len(left)]
    <3>1. left \in Seq(S) /\ right \in Seq(S)
      BY <1>2, <1>3
    <3>2. QED
      BY <3>1, ConcatProperties
  <2>2. Len(left) = n /\ Len(right) = k
    BY <1>2, <1>3
  <2>3. ASSUME NEW i \in 1..n PROVE (left \o right)[i] = left[i]
    BY <1>1, <2>1, <2>2
  <2>4. ASSUME NEW i \in n + 1..n + k PROVE (left \o right)[i] = right[i - n]
    BY <1>1, <2>1, <2>2
  <2>5. QED
    BY <2>1, <2>2, <2>3, <2>4
<1>6. \A i \in 1..n + k : (left \o right)[i] = whole[i]
  <2>1. ASSUME NEW i \in 1..n + k, i <= n PROVE (left \o right)[i] = whole[i]
    <3>1. i \in 1..n
      BY <1>1, <2>1
    <3>2. QED
      BY <1>2, <1>4, <1>5, <3>1
  <2>2. ASSUME NEW i \in 1..n + k, ~(i <= n) PROVE (left \o right)[i] = whole[i]
    <3>1. i - n \in 1..k /\ b + (i - n) = a + i /\ i \in n + 1..n + k
      BY <1>1, <2>2
    <3>2. (left \o right)[i] = right[i - n]
      BY <1>5, <3>1
    <3>3. right[i - n] = s[a + i]
      BY <1>3, <3>1
    <3>4. whole[i] = s[a + i]
      BY <1>4
    <3>5. QED
      BY <3>2, <3>3, <3>4
  <2>3. QED
    BY <2>1, <2>2
<1>7. left \o right = whole
  BY <1>4, <1>5, <1>6, SeqEqual
<1>8. QED
  BY <1>1, <1>7 DEF left, right, whole

\* When s grows to t, what was left of it is a prefix of what is left then,
\* and its pieces stay.
LEMMA GrownPieces ==
  ASSUME NEW S, NEW s \in Seq(S), NEW t \in Seq(S), NEW a \in Nat, NEW b \in Nat,
         a <= Len(s), b <= a, Len(s) <= Len(t), \A i \in 1..Len(s) : t[i] = s[i]
  PROVE  /\ IsPrefix(SubSeq(s, a + 1, Len(s)), SubSeq(t, a + 1, Len(t)))
         /\ SubSeq(t, b + 1, a) = SubSeq(s, b + 1, a)
<1>1. Len(s) \in Nat /\ Len(t) \in Nat /\ a <= Len(t)
  BY LenProperties
<1> DEFINE u == SubSeq(s, a + 1, Len(s))
           v == SubSeq(t, a + 1, Len(t))
           n == Len(s) - a
<1>2. /\ u \in Seq(S) /\ Len(u) = Len(s) - a
      /\ \A i \in 1..Len(s) - a : u[i] = s[a + i]
  BY <1>1, RestOf
<1>3. /\ v \in Seq(S) /\ Len(v) = Len(t) - a
      /\ \A i \in 1..Len(t) - a : v[i] = t[a + i]
  BY <1>1, RestOf
<1> HIDE DEF u, v
<1>4. n \in Nat /\ n = Len(u) /\ n <= Len(v) /\ a + n = Len(s)
  BY <1>1, <1>2, <1>3
<1>5. SubSeq(u, 0 + 1, 0 + n) = SubSeq(v, 0 + 1, 0 + n)
  <2> HIDE DEF n
  <2>1. /\ SubSeq(u, 0 + 1, 0 + n) \in Seq(S) /\ Len(SubSeq(u, 0 + 1, 0 + n)) = n
        /\ \A i \in 1..n : SubSeq(u, 0 + 1, 0 + n)[i] = u[0 + i]
    <3>1. 0 + n <= Len(u)
      BY <1>4
    <3>2. QED
      BY <1>2, <1>4, <3>1, PieceOf
  <2>2. /\ SubSeq(v, 0 + 1, 0 + n) \in Seq(S) /\ Len(SubSeq(v, 0 + 1, 0 + n)) = n
        /\ \A i \in 1..n : SubSeq(v, 0 + 1, 0 + n)[i] = v[0 + i]
    <3>1. 0 + n <= Len(v)
      BY <1>1, <1>3, <1>4
    <3>2. QED
      BY <1>3, <1>4, <3>1, PieceOf
  <2>3. \A i \in 1..n : u[0 + i] = v[0 + i]
    <3>1. ASSUME NEW i \in 1..n PROVE u[i] = v[i]
      <4>1. i \in 1..Len(s) - a /\ i \in 1..Len(t) - a /\ a + i \in 1..Len(s)
        BY <1>1, <1>4
      <4>2. QED
        BY <1>2, <1>3, <4>1
    <3>2. QED
      BY <3>1, <1>4
  <2>4. QED
    BY <2>1, <2>2, <2>3, SeqEqual
<1>6. IsPrefix(u, v)
  BY <1>2, <1>4, <1>5 DEF IsPrefix
<1>7. SubSeq(t, b + 1, a) = SubSeq(s, b + 1, a)
  <2> DEFINE k == a - b
             p == SubSeq(s, b + 1, b + k)
             q == SubSeq(t, b + 1, b + k)
  <2>1. k \in Nat /\ b + k = a
    OBVIOUS
  <2> HIDE DEF k
  <2>2. p \in Seq(S) /\ Len(p) = k /\ \A i \in 1..k : p[i] = s[b + i]
    <3>1. b + k <= Len(s)
      BY <2>1
    <3>2. QED
      BY <2>1, <3>1, PieceOf
  <2>3. q \in Seq(S) /\ Len(q) = k /\ \A i \in 1..k : q[i] = t[b + i]
    <3>1. b + k <= Len(t)
      BY <1>1, <2>1
    <3>2. QED
      BY <2>1, <3>1, PieceOf
  <2> HIDE DEF p, q
  <2>4. \A i \in 1..k : p[i] = q[i]
    <3>1. \A i \in 1..k : b + i \in 1..Len(s)
      BY <1>1, <2>1
    <3>2. QED
      BY <2>2, <2>3, <3>1
  <2>5. p = q
    BY <2>2, <2>3, <2>4, SeqEqual
  <2>6. QED
    BY <2>1, <2>5 DEF p, q
<1>8. QED
  BY <1>6, <1>7 DEF u, v

-----------------------------------------------------------------------------
(***************************************************************************)
(* What the mapping needs beyond StoreInv: a connection that getMessage    *)
(* has yet to read, or has just read, has no upload behind it.             *)
(***************************************************************************)
CutsInv == \A c \in Conns : seen[c].cut <= taken[c]

NewInv == \A c \in Conns : Unread(c) => seen[c].cut = taken[c]

OwnerInv == pc \in {"decode", "serve"} => \A name \in DOMAIN disk : disk[name].by # conn

FreshInv == CutsInv /\ NewInv /\ OwnerInv

LEMMA FreshInit == Init => FreshInv
BY DEF Init, FreshInv, CutsInv, NewInv, OwnerInv, NotRead

LEMMA FreshStep == Known /\ StoreInv /\ FreshInv /\ [Next]_vars => FreshInv'
<1> SUFFICES ASSUME Known, StoreInv, FreshInv, [Next]_vars PROVE FreshInv'
  OBVIOUS
<1>1. ASSUME UNCHANGED <<taken, seen, disk>>, \A c \in Conns : Unread(c)' => Unread(c),
             pc' \in {"decode", "serve"} => conn' = conn /\ pc \in {"decode", "serve"}
      PROVE  FreshInv'
  BY <1>1 DEF FreshInv, CutsInv, NewInv, OwnerInv
<1>2. CASE \/ Listen \/ AcceptClientConnection \/ Decode \/ ReadFile \/ ServeOther
           \/ CloseClientConnection \/ Ends
  BY <1>1, <1>2, ThreadKeeps
<1>3. CASE GetMessage \/ GetMessageEmpty
  <2>1. /\ conn \in Conns /\ pc = "message" /\ pc' = "decode" /\ conn' = conn
        /\ UNCHANGED <<disk, stream, phase, backlog>>
        /\ \A name \in DOMAIN disk : disk[name].by # conn
        /\ \A c \in Conns : c # conn => taken'[c] = taken[c] /\ seen'[c] = seen[c]
        /\ taken'[conn] \in Nat /\ seen'[conn].cut = taken'[conn]
    BY <1>3, MessageReads
  <2>2. \A c \in Conns : Unread(c)' => Unread(c)
    BY <2>1 DEF Unread, Waiting
  <2>3. QED
    BY <2>1, <2>2 DEF FreshInv, CutsInv, NewInv, OwnerInv
<1>4. CASE UploadFileOpen
  <2>1. /\ UNCHANGED <<stream, phase, backlog, taken, seen, conn>> /\ pc' = "receive"
    BY <1>4 DEF UploadFileOpen, clientVars, kernelVars
  <2>2. QED
    BY <2>1 DEF FreshInv, CutsInv, NewInv, OwnerInv, Unread, Waiting
<1>5. CASE GetData
  <2>1. /\ UNCHANGED <<stream, phase, backlog, seen, conn>>
        /\ pc = "receive" /\ pc' \in {"receive", "finish"} /\ conn \in Conns
    BY <1>5 DEF GetData, clientVars, Known, TypeInv, TypeOK
  <2>2. PICK n \in Arrivals(conn, BlockSize) :
          taken' = [taken EXCEPT ![conn] = taken[conn] + n]
    BY <1>5 DEF GetData
  <2>3. /\ \A c \in Conns : c # conn => taken'[c] = taken[c]
        /\ taken'[conn] = taken[conn] + n /\ n \in Nat /\ taken[conn] \in Nat
        /\ seen[conn].cut \in Nat
    <3>1. taken \in [Conns -> Nat]
      BY DEF Known, TypeInv, TypeOK
    <3>2. QED
      BY <2>1, <2>2, <3>1, SizeAssumption, KnownTypes DEF Arrivals
  <2>4. CutsInv'
    BY <2>1, <2>3 DEF FreshInv, CutsInv
  <2>5. ~Unread(conn)' /\ \A c \in Conns : Unread(c)' => Unread(c)
    BY <2>1 DEF Known, NoConnectionLost, Unread, Waiting
  <2>6. NewInv' /\ OwnerInv'
    BY <2>1, <2>3, <2>5 DEF FreshInv, NewInv, OwnerInv
  <2>7. QED
    BY <2>4, <2>6 DEF FreshInv
<1>6. CASE UploadFileBreak \/ UploadFileClose
  <2>1. /\ UNCHANGED <<stream, phase, backlog, taken, seen, conn>>
        /\ pc' \in {"finish", "close"}
    BY <1>6 DEF UploadFileBreak, UploadFileClose, clientVars, kernelVars
  <2>2. QED
    BY <2>1 DEF FreshInv, CutsInv, NewInv, OwnerInv, Unread, Waiting
<1>7. CASE \E c \in Conns : \/ ClientConnect(c) \/ ClientRefused(c)
                            \/ ClientStep(c) \/ ClientAbort(c)
  BY <1>1, <1>7, ClientKeeps
<1>8. CASE Restart \/ UNCHANGED vars
  <2>1. UNCHANGED <<phase, backlog, taken, seen, disk, pc, conn>>
    BY <1>8 DEF Restart, vars, clientVars, kernelVars, requestVars
  <2>2. QED
    BY <1>1, <2>1 DEF Unread, Waiting
<1>9. QED
  BY <1>2, <1>3, <1>4, <1>5, <1>6, <1>7, <1>8, StepKinds DEF Quiet

-----------------------------------------------------------------------------
(***************************************************************************)
(* The mapped variables                                                    *)
(***************************************************************************)
LEMMA MappedTypes ==
  ASSUME Known, StoreInv, FreshInv, NEW c \in Conns
  PROVE  /\ stream[c] \in Seq(Unit) /\ Len(stream[c]) \in Nat
         /\ taken[c] \in Nat /\ seen[c].cut \in Nat
         /\ seen[c].cut <= taken[c] /\ taken[c] <= Len(stream[c])
         /\ UnreadOf(c) \in Seq(Unit) /\ Len(UnreadOf(c)) = Len(stream[c]) - taken[c]
<1>1. /\ stream[c] \in Seq(Unit) /\ Len(stream[c]) \in Nat
      /\ taken[c] \in Nat /\ seen[c].cut \in Nat
      /\ seen[c].cut <= taken[c] /\ taken[c] <= Len(stream[c])
  BY KnownTypes DEF StoreInv, TakenInv, FreshInv, CutsInv
<1>2. QED
  BY <1>1, RestOf DEF UnreadOf

\* A step that moves no data and leaves the upload alone is a stutter.
LEMMA Stutters ==
  ASSUME UNCHANGED <<stream, taken, seen, disk, bad>>, Writer' = Writer
  PROVE  UNCHANGED Store!vars
BY DEF Store!vars, UnreadOf, ReceivedOf

\* The thread's steps outside the upload.
LEMMA ThreadRefines ==
  ASSUME Known, StoreInv,
         Listen \/ AcceptClientConnection \/ Decode \/ ReadFile \/ ServeOther
  PROVE  UNCHANGED Store!vars
<1>1. UNCHANGED <<taken, seen, disk, stream>>
  BY ThreadKeeps
<1>2. /\ pc \notin {"receive", "finish"} /\ pc' \notin {"receive", "finish"}
      /\ bad' = bad
  BY DEF Listen, AcceptClientConnection, Decode, ReadFile, ServeOther, Serves,
         requestVars, uploadVars
<1>3. QED
  BY <1>1, <1>2, Stutters DEF Writer

\* The end of a connection, and of the process outside an upload, forgets
\* that a file failed; the end of the process during one breaks it off.
LEMMA EndRefines ==
  ASSUME Known, StoreInv, CloseClientConnection \/ Ends
  PROVE  Store!Forget \/ Store!Exit
<1>1. UNCHANGED <<taken, seen, disk, stream>>
  BY ThreadKeeps
<1>2. pc' \notin {"receive", "finish"} /\ bad' = FALSE
  BY DEF CloseClientConnection, Ends, DecodeEnds, FolderFails, SocketFails, ExitElsewhere, Die
<1>3. CASE pc \notin {"receive", "finish"}
  BY <1>1, <1>2, <1>3 DEF Store!Forget, Writer, UnreadOf, ReceivedOf
<1>4. CASE pc \in {"receive", "finish"}
  <2>1. MasterExits
    BY <1>4 DEF CloseClientConnection, Ends, DecodeEnds, FolderFails, SocketFails, ExitElsewhere,
                Serves
  <2>2. Writer = conn /\ conn # NoConn /\ Writer' = NoConn
    BY <1>2, <1>4, ConnAssumption DEF Writer, Known, TypeInv, TypeOK
  <2>3. QED
    BY <1>1, <1>2, <2>1, <2>2 DEF Store!Exit, UnreadOf, ReceivedOf
<1>5. QED
  BY <1>3, <1>4

\* What a client does reaches the store as data to read, if at all.
LEMMA ClientRefines ==
  ASSUME Known, StoreInv, FreshInv, NEW c \in Conns,
         \/ ClientConnect(c) \/ ClientRefused(c) \/ ClientStep(c) \/ ClientAbort(c),
         stream' \in [Conns -> Seq(Unit)]
  PROVE  Store!Send(c)
<1>1. /\ UNCHANGED <<taken, seen, disk, pc, conn, bad>>
      /\ \A d \in Conns : Grows(d)
  BY ClientKeeps, ClientGrows
<1>2. \A d \in Conns : d # c => stream'[d] = stream[d]
  BY DEF ClientConnect, ClientRefused, ClientStep, ClientSendRequest,
         ClientSendBlock, ClientClose, ClientReadReply, ClientCut, ClientAbort,
         Known, TypeInv, TypeOK
<1>3. \A d \in Conns : /\ IsPrefix(UnreadOf(d), UnreadOf(d)')
                       /\ ReceivedOf(d)' = ReceivedOf(d)
  <2> SUFFICES ASSUME NEW d \in Conns
               PROVE  /\ IsPrefix(UnreadOf(d), UnreadOf(d)')
                      /\ ReceivedOf(d)' = ReceivedOf(d)
    OBVIOUS
  <2> DEFINE s == stream[d]
             t == stream'[d]
             a == taken[d]
             b == seen[d].cut
  <2>1. s \in Seq(Unit) /\ t \in Seq(Unit) /\ a \in Nat /\ b \in Nat
    BY MappedTypes
  <2>2. a <= Len(s) /\ b <= a /\ Len(s) <= Len(t) /\ \A i \in 1..Len(s) : t[i] = s[i]
    BY <1>1, MappedTypes DEF Grows
  <2>3. UnreadOf(d) = SubSeq(s, a + 1, Len(s)) /\ ReceivedOf(d) = SubSeq(s, b + 1, a)
    BY DEF UnreadOf, ReceivedOf
  <2>4. UnreadOf(d)' = SubSeq(t, a + 1, Len(t)) /\ ReceivedOf(d)' = SubSeq(t, b + 1, a)
    BY <1>1 DEF UnreadOf, ReceivedOf
  <2> HIDE DEF s, t, a, b
  <2>5. /\ IsPrefix(SubSeq(s, a + 1, Len(s)), SubSeq(t, a + 1, Len(t)))
        /\ SubSeq(t, b + 1, a) = SubSeq(s, b + 1, a)
    BY <2>1, <2>2, GrownPieces, Zenon
  <2>6. QED
    BY <2>3, <2>4, <2>5, Zenon
<1>4. \A d \in Conns : d # c => UnreadOf(d)' = UnreadOf(d)
  BY <1>1, <1>2 DEF UnreadOf
<1>5. Writer' = Writer
  BY <1>1 DEF Writer
<1> DEFINE u == [d \in Conns |-> UnreadOf(d)]
           r == [d \in Conns |-> ReceivedOf(d)]
<1>6. u' = [u EXCEPT ![c] = u'[c]] /\ IsPrefix(u[c], u'[c])
  BY <1>3, <1>4
<1>7. r' = r
  BY <1>3
<1> HIDE DEF u, r
<1>8. UNCHANGED <<r, Writer, bad, disk>>
  BY <1>1, <1>5, <1>7
<1>9. QED
  BY <1>6, <1>8, Zenon DEF Store!Send, Store!IsPrefix, IsPrefix, u, r

-----------------------------------------------------------------------------
(***************************************************************************)
(* The steps that read a socket                                            *)
(***************************************************************************)

\* What a read takes leaves the front of what is to read.
LEMMA UnreadTaken ==
  ASSUME Known, StoreInv, FreshInv, NEW c \in Conns, NEW n \in Nat \ {0},
         taken' = [taken EXCEPT ![c] = taken[c] + n],
         taken[c] + n <= Len(stream[c]), stream' = stream
  PROVE  /\ n \in 1..Len(UnreadOf(c))
         /\ UnreadOf(c)' = SubSeq(UnreadOf(c), n + 1, Len(UnreadOf(c)))
         /\ SubSeq(UnreadOf(c), 1, n) = SubSeq(stream[c], taken[c] + 1, taken[c] + n)
         /\ \A d \in Conns : d # c => UnreadOf(d)' = UnreadOf(d) /\ taken'[d] = taken[d]
         /\ taken'[c] = taken[c] + n
<1>1. taken \in [Conns -> Nat]
  BY DEF Known, TypeInv, TypeOK
<1>2. /\ stream[c] \in Seq(Unit) /\ Len(stream[c]) \in Nat /\ taken[c] \in Nat
      /\ Len(UnreadOf(c)) = Len(stream[c]) - taken[c]
  BY MappedTypes
<1>3. n \in 1..Len(UnreadOf(c))
  BY <1>2
<1>4. taken'[c] = taken[c] + n /\ \A d \in Conns : d # c => taken'[d] = taken[d]
  BY <1>1
<1>5. \A d \in Conns : d # c => UnreadOf(d)' = UnreadOf(d)
  BY <1>4 DEF UnreadOf
<1> DEFINE s == stream[c]
           a == taken[c]
           rest == SubSeq(s, a + 1, Len(s))
<1>6. s \in Seq(Unit) /\ a \in Nat /\ a + n <= Len(s)
  BY <1>2
<1>7. UnreadOf(c) = rest /\ UnreadOf(c)' = SubSeq(s, a + n + 1, Len(s))
  BY <1>4 DEF UnreadOf
<1>8. /\ SubSeq(rest, 1, n) = SubSeq(s, a + 1, a + n)
      /\ SubSeq(rest, n + 1, Len(rest)) = SubSeq(s, a + n + 1, Len(s))
  <2> HIDE DEF s, a
  <2>1. QED
    BY <1>6, RestParts
<1>9. QED
  BY <1>3, <1>4, <1>5, <1>7, <1>8

\* Where nothing was read after the request, nothing was received.
LEMMA NothingReceived ==
  ASSUME Known, StoreInv, FreshInv, NEW c \in Conns, seen[c].cut = taken[c]
  PROVE  ReceivedOf(c) = <<>>
<1>1. stream[c] \in Seq(Unit) /\ taken[c] \in Nat /\ taken[c] <= Len(stream[c])
  BY MappedTypes
<1>2. QED
  BY <1>1, NoPiece DEF ReceivedOf

\* getMessage reads the request, and possibly data with it.
LEMMA MessageRefines ==
  ASSUME Known, StoreInv, FreshInv, GetMessage
  PROVE  Store!Request(conn)
<1>1. /\ conn \in Conns /\ pc = "message" /\ pc' = "decode" /\ conn' = conn
      /\ UNCHANGED <<disk, stream>>
      /\ \A name \in DOMAIN disk : disk[name].by # conn
      /\ \A c \in Conns : c # conn => taken'[c] = taken[c] /\ seen'[c] = seen[c]
      /\ taken'[conn] \in Nat /\ taken'[conn] <= Len(stream[conn])
      /\ seen'[conn].cut = taken'[conn]
  BY MessageReads
<1>2. bad' = bad
  BY DEF GetMessage, requestVars, uploadVars
<1>3. PICK n \in Nat \ {0} : /\ taken' = [taken EXCEPT ![conn] = taken[conn] + n]
                             /\ taken[conn] + n <= Len(stream[conn])
  <2>1. PICK n \in Arrivals(conn, BufSize) :
          taken' = [taken EXCEPT ![conn] = taken[conn] + n]
    BY DEF GetMessage
  <2>2. n \in Nat \ {0} /\ taken[conn] + n <= Len(stream[conn])
    BY SizeAssumption DEF Arrivals
  <2>3. QED
    BY <2>1, <2>2
<1>4. /\ n \in 1..Len(UnreadOf(conn))
      /\ UnreadOf(conn)' = SubSeq(UnreadOf(conn), n + 1, Len(UnreadOf(conn)))
      /\ \A d \in Conns : d # conn => UnreadOf(d)' = UnreadOf(d)
  BY <1>1, <1>3, UnreadTaken
<1>5. ReceivedOf(conn) = <<>>
  BY <1>1, NothingReceived DEF FreshInv, NewInv, Unread
<1>6. ReceivedOf(conn)' = <<>>
  <2>1. stream[conn] \in Seq(Unit)
    BY <1>1, MappedTypes
  <2>2. SubSeq(stream[conn], taken'[conn] + 1, taken'[conn]) = <<>>
    BY <1>1, <2>1, NoPiece
  <2>3. QED
    BY <1>1, <2>2 DEF ReceivedOf
<1>7. \A d \in Conns : ReceivedOf(d)' = ReceivedOf(d)
  BY <1>1, <1>5, <1>6 DEF ReceivedOf
<1>8. Writer = NoConn /\ Writer' = NoConn /\ conn # NoConn
  BY <1>1, ConnAssumption DEF Writer
<1> DEFINE u == [d \in Conns |-> UnreadOf(d)]
           r == [d \in Conns |-> ReceivedOf(d)]
<1>9. u[conn] = UnreadOf(conn) /\ r[conn] = <<>>
  BY <1>1, <1>5
<1>10. u' = [u EXCEPT ![conn] = SubSeq(u[conn], n + 1, Len(u[conn]))]
  BY <1>1, <1>4
<1>11. r' = r
  BY <1>7
<1>12. n \in 1..Len(u[conn])
  BY <1>4, <1>9
<1> HIDE DEF u, r
<1>13. Store!Of(conn) = {}
  BY <1>1 DEF Store!Of
<1>14. Store!Fresh(conn)
  BY <1>8, <1>9, <1>13 DEF Store!Fresh, r
<1>15. UNCHANGED <<r, Writer, bad, disk>>
  BY <1>1, <1>2, <1>8, <1>11
<1>16. QED
  BY <1>10, <1>12, <1>14, <1>15 DEF Store!Request, u, r

\* A client that closed without a request leaves everything as it was.
LEMMA EmptyRefines ==
  ASSUME Known, StoreInv, FreshInv, GetMessageEmpty
  PROVE  UNCHANGED Store!vars
<1>1. /\ conn \in Conns /\ pc = "message" /\ pc' = "decode" /\ conn' = conn
      /\ UNCHANGED <<disk, stream>>
      /\ \A c \in Conns : c # conn => taken'[c] = taken[c] /\ seen'[c] = seen[c]
      /\ seen'[conn].cut = taken'[conn]
  BY MessageReads
<1>2. bad' = bad /\ taken' = taken
  BY DEF GetMessageEmpty, requestVars, uploadVars, kernelVars
<1>3. seen[conn].cut = taken[conn]
  BY <1>1 DEF FreshInv, NewInv, Unread
<1>4. \A d \in Conns : UnreadOf(d)' = UnreadOf(d) /\ ReceivedOf(d)' = ReceivedOf(d)
  BY <1>1, <1>2, <1>3 DEF UnreadOf, ReceivedOf
<1>5. Writer' = Writer
  BY <1>1 DEF Writer
<1>6. QED
  BY <1>1, <1>2, <1>4, <1>5 DEF Store!vars

-----------------------------------------------------------------------------
(***************************************************************************)
(* The upload                                                              *)
(***************************************************************************)

\* During an upload the writer is the connection served, the ofstream was
\* given what was received, and the file, if it works, is the connection's.
LEMMA Uploading ==
  ASSUME Known, StoreInv, FreshInv, pc \in {"receive", "finish"}
  PROVE  /\ conn \in Conns /\ conn # NoConn /\ Writer = conn
         /\ ReceivedOf(conn) = fout
         /\ ~bad => clientMessage.remoteFileName \in Store!Of(conn)
<1>1. conn \in Conns /\ conn # NoConn /\ Writer = conn
  BY ConnAssumption DEF Writer, Known, TypeInv, TypeOK
<1>2. /\ stream[conn] \in Seq(Unit) /\ taken[conn] \in Nat /\ seen[conn].cut \in Nat
      /\ taken[conn] <= Len(stream[conn]) /\ fout \in Seq(Unit)
  BY <1>1, MappedTypes, KnownTypes
<1>3. /\ seen[conn].cut + Len(fout) = taken[conn]
      /\ \A i \in 1..Len(fout) : fout[i] = stream[conn][seen[conn].cut + i]
  BY DEF StoreInv, FoutInv, Received
<1>4. fout = SubSeq(stream[conn], seen[conn].cut + 1, seen[conn].cut + Len(fout))
  <2> DEFINE s == stream[conn]
             k == seen[conn].cut
  <2>1. /\ s \in Seq(Unit) /\ k \in Nat /\ fout \in Seq(Unit)
        /\ k + Len(fout) <= Len(s) /\ \A i \in 1..Len(fout) : fout[i] = s[k + i]
    BY <1>2, <1>3
  <2> HIDE DEF s, k
  <2>2. fout = SubSeq(s, k + 1, k + Len(fout))
    BY <2>1, PieceIs
  <2>3. QED
    BY <2>2 DEF s, k
<1>5. ReceivedOf(conn) = fout
  BY <1>3, <1>4 DEF ReceivedOf
<1>6. ~bad => clientMessage.remoteFileName \in Store!Of(conn)
  BY DEF StoreInv, OwnInv, Known, TypeInv, OpenInv, Store!Of
<1>7. QED
  BY <1>1, <1>5, <1>6

\* The ofstream saves what it was given.
LEMMA FlushSaves ==
  ASSUME Known, StoreInv, FreshInv, pc \in {"receive", "finish"},
         NEW atLeast, Flush(atLeast)
  PROVE  Store!Saves(conn, fout')
<1>1. ~bad => clientMessage.remoteFileName \in Store!Of(conn)
  BY Uploading
<1>2. CASE bad
  BY <1>2 DEF Flush, Store!Saves
<1>3. CASE ~bad
  <2>1. PICK k \in Len(disk[clientMessage.remoteFileName].data)..Len(fout') :
          /\ disk' = [disk EXCEPT ![clientMessage.remoteFileName].data =
                                    SubSeq(fout', 1, k)]
          /\ \/ k >= atLeast /\ bad' = FALSE
             \/ DiskFaults /\ k < Len(fout') /\ bad' = TRUE
    BY <1>3 DEF Flush
  <2>2. bad \in BOOLEAN
    BY DEF Known, TypeInv, TypeOK
  <2>3. bad' = bad \/ (DiskFaults /\ bad' = TRUE)
    BY <1>3, <2>1, <2>2
  <2>4. QED
    BY <1>1, <1>3, <2>1, <2>3 DEF Store!Saves
<1>4. QED
  BY <1>2, <1>3

\* getData receives data of the upload.
LEMMA DataRefines ==
  ASSUME Known, StoreInv, FreshInv, GetData
  PROVE  Store!Receive
<1>1. /\ pc = "receive" /\ pc' \in {"receive", "finish"} /\ Flush(0)
      /\ UNCHANGED <<stream, seen, conn>>
  BY DEF GetData, clientVars
<1>2. conn \in Conns /\ conn # NoConn /\ Writer = conn /\ ReceivedOf(conn) = fout
  BY <1>1, Uploading
<1>3. PICK n \in Nat \ {0} :
        /\ fout' = fout \o SubSeq(stream[conn], taken[conn] + 1, taken[conn] + n)
        /\ taken' = [taken EXCEPT ![conn] = taken[conn] + n]
        /\ taken[conn] + n <= Len(stream[conn])
  <2>1. PICK n \in Arrivals(conn, BlockSize) :
          /\ fout' = fout \o SubSeq(stream[conn], taken[conn] + 1, taken[conn] + n)
          /\ taken' = [taken EXCEPT ![conn] = taken[conn] + n]
    BY DEF GetData
  <2>2. n \in Nat \ {0} /\ taken[conn] + n <= Len(stream[conn])
    BY SizeAssumption DEF Arrivals
  <2>3. QED
    BY <2>1, <2>2
<1>4. /\ n \in 1..Len(UnreadOf(conn))
      /\ UnreadOf(conn)' = SubSeq(UnreadOf(conn), n + 1, Len(UnreadOf(conn)))
      /\ SubSeq(UnreadOf(conn), 1, n) =
           SubSeq(stream[conn], taken[conn] + 1, taken[conn] + n)
      /\ \A d \in Conns : d # conn => UnreadOf(d)' = UnreadOf(d) /\ taken'[d] = taken[d]
      /\ taken'[conn] = taken[conn] + n
  BY <1>1, <1>2, <1>3, UnreadTaken
<1>5. fout' = ReceivedOf(conn) \o SubSeq(UnreadOf(conn), 1, n)
  BY <1>2, <1>3, <1>4
<1>6. ReceivedOf(conn)' = fout'
  <2> DEFINE s == stream[conn]
             a == seen[conn].cut
             b == taken[conn]
  <2>1. s \in Seq(Unit) /\ a \in Nat /\ b \in Nat /\ a <= b /\ b + n <= Len(s)
    BY <1>2, <1>3, MappedTypes
  <2>2. /\ ReceivedOf(conn)' = SubSeq(s, a + 1, b + n)
        /\ ReceivedOf(conn) = SubSeq(s, a + 1, b)
    BY <1>1, <1>4 DEF ReceivedOf
  <2>3. fout' = SubSeq(s, a + 1, b) \o SubSeq(s, b + 1, b + n)
    BY <1>2, <1>3, <2>2
  <2> HIDE DEF s, a, b
  <2>4. n \in Nat
    OBVIOUS
  <2>5. SubSeq(s, a + 1, b) \o SubSeq(s, b + 1, b + n) = SubSeq(s, a + 1, b + n)
    BY <2>1, <2>4, Joined
  <2>6. QED
    BY <2>2, <2>3, <2>5
<1>7. \A d \in Conns : d # conn => ReceivedOf(d)' = ReceivedOf(d)
  BY <1>1, <1>4 DEF ReceivedOf
<1>8. Store!Saves(conn, fout')
  BY <1>1, FlushSaves
<1>9. Writer' = conn
  BY <1>1 DEF Writer
<1> DEFINE u == [d \in Conns |-> UnreadOf(d)]
           r == [d \in Conns |-> ReceivedOf(d)]
<1>10. u[conn] = UnreadOf(conn) /\ r[conn] = ReceivedOf(conn) /\ r'[conn] = fout'
  BY <1>1, <1>2, <1>6
<1>11. u' = [u EXCEPT ![conn] = SubSeq(u[conn], n + 1, Len(u[conn]))]
  <2>1. \A d \in Conns : d # conn => UnreadOf(d)' = UnreadOf(d)
    BY <1>4
  <2>2. u' = [u EXCEPT ![conn] = UnreadOf(conn)']
    BY <1>1, <1>2, <2>1
  <2>3. UnreadOf(conn)' = SubSeq(u[conn], n + 1, Len(u[conn]))
    BY <1>4, <1>10, Zenon
  <2> HIDE DEF u
  <2>4. QED
    BY <2>2, <2>3
<1>12. r' = [r EXCEPT ![conn] = r[conn] \o SubSeq(u[conn], 1, n)]
  <2>1. r' = [r EXCEPT ![conn] = ReceivedOf(conn)']
    BY <1>1, <1>2, <1>7
  <2>2. ReceivedOf(conn)' = r[conn] \o SubSeq(u[conn], 1, n)
    BY <1>5, <1>6, <1>10, Zenon
  <2> HIDE DEF u, r
  <2>3. QED
    BY <2>1, <2>2
<1>13. n \in 1..Len(u[conn])
  BY <1>4, <1>10
<1> HIDE DEF u, r
<1>14. Store!Saves(conn, r'[conn])
  BY <1>8, <1>10
<1>15. QED
  BY <1>2, <1>9, <1>11, <1>12, <1>13, <1>14 DEF Store!Receive, u, r

\* Opening the file begins the upload.
LEMMA OpenRefines ==
  ASSUME Known, StoreInv, FreshInv, UploadFileOpen
  PROVE  Store!Begin(conn)
<1>1. /\ conn \in Conns /\ conn # NoConn /\ pc = "serve" /\ pc' = "receive"
      /\ UNCHANGED <<stream, taken, seen, conn>>
  <2>1. /\ pc = "serve" /\ pc' = "receive" /\ UNCHANGED <<stream, taken, seen, conn>>
    BY DEF UploadFileOpen, Serves, clientVars, kernelVars
  <2>2. QED
    BY <2>1, ConnAssumption DEF Known, TypeInv, TypeOK
<1>2. Writer = NoConn /\ Writer' = conn
  BY <1>1 DEF Writer
<1>3. ReceivedOf(conn) = <<>>
  BY <1>1, NothingReceived DEF StoreInv, CutInv
<1>4. Store!Of(conn) = {}
  BY <1>1 DEF FreshInv, OwnerInv, Store!Of
<1>5. Store!Fresh(conn)
  BY <1>1, <1>2, <1>3, <1>4 DEF Store!Fresh
<1>6. \/ bad' = FALSE /\ \E name \in DOMAIN disk' : disk' = Store!Emptied(name, conn)
      \/ DiskFaults /\ bad' = TRUE /\ disk' = disk
  <2>1. CASE disk' = Opened(clientMessage.remoteFileName, conn) /\ bad' = FALSE
    <3>1. disk' = Store!Emptied(clientMessage.remoteFileName, conn)
      BY <2>1 DEF Opened, Store!Emptied
    <3>2. clientMessage.remoteFileName \in DOMAIN disk'
      BY <2>1 DEF Opened
    <3>3. QED
      BY <2>1, <3>1, <3>2
  <2>2. CASE DiskFaults /\ disk' = disk /\ bad' = TRUE
    BY <2>2
  <2>3. QED
    BY <2>1, <2>2 DEF UploadFileOpen
<1> DEFINE u == [d \in Conns |-> UnreadOf(d)]
           r == [d \in Conns |-> ReceivedOf(d)]
<1>7. u' = u /\ r' = r
  BY <1>1 DEF UnreadOf, ReceivedOf
<1> HIDE DEF u, r
<1>8. QED
  BY <1>2, <1>5, <1>6, <1>7 DEF Store!Begin, u, r

\* The break leaves the upload as it was; the close finishes it.
LEMMA CloseRefines ==
  ASSUME Known, StoreInv, FreshInv, UploadFileClose
  PROVE  Store!Finish
<1>1. /\ pc = "finish" /\ pc' = "close" /\ Flush(Len(fout)) /\ fout' = fout
      /\ UNCHANGED <<stream, taken, seen, conn>>
  BY DEF UploadFileClose, clientVars, kernelVars
<1>2. /\ conn \in Conns /\ conn # NoConn /\ Writer = conn /\ ReceivedOf(conn) = fout
      /\ ~bad => clientMessage.remoteFileName \in Store!Of(conn)
  BY <1>1, Uploading
<1>3. Store!Saves(conn, fout)
  BY <1>1, FlushSaves
<1>4. ~bad' => \E name \in Store!Of(conn) : disk'[name].data = fout
  <2>1. SUFFICES ASSUME ~bad' PROVE \E name \in Store!Of(conn) : disk'[name].data = fout
    OBVIOUS
  <2>2. ~bad
    BY <1>1, <2>1 DEF Flush
  <2>3. QED
    BY <1>2, <2>1, <2>2, CloseWrites
<1>5. Writer' = NoConn
  BY <1>1 DEF Writer
<1> DEFINE u == [d \in Conns |-> UnreadOf(d)]
           r == [d \in Conns |-> ReceivedOf(d)]
<1>6. r[conn] = fout
  BY <1>2
<1>7. u' = u /\ r' = r
  BY <1>1 DEF UnreadOf, ReceivedOf
<1> HIDE DEF u, r
<1>8. Store!Saves(conn, r[conn])
  BY <1>3, <1>6
<1>9. ~bad' => \E name \in Store!Of(conn) : disk'[name].data = r[conn]
  BY <1>4, <1>6
<1>10. QED
  BY <1>2, <1>5, <1>7, <1>8, <1>9 DEF Store!Finish, u, r

-----------------------------------------------------------------------------
(***************************************************************************)
(* The refinement                                                          *)
(***************************************************************************)
LEMMA RefineInit == Init => Store!Init
<1> SUFFICES ASSUME Init PROVE Store!Init
  OBVIOUS
<1>1. ASSUME NEW c \in Conns PROVE UnreadOf(c) = <<>> /\ ReceivedOf(c) = <<>>
  <2>1. stream[c] = <<>> /\ taken[c] = 0 /\ seen[c].cut = 0
    BY DEF Init, NotRead
  <2>2. <<>> \in Seq(Unit) /\ Len(<<>>) = 0 /\ 0 <= Len(<<>>)
    BY EmptySeq
  <2>3. SubSeq(<<>>, 0 + 1, 0) = <<>>
    BY <2>2, NoPiece
  <2>4. QED
    BY <2>1, <2>2, <2>3 DEF UnreadOf, ReceivedOf
<1>2. Writer = NoConn /\ bad = FALSE /\ disk = [name \in {} |-> <<>>]
  BY DEF Init, Writer
<1>3. QED
  BY <1>1, <1>2 DEF Store!Init

LEMMA RefineStep ==
  Known /\ StoreInv /\ FreshInv /\ [Next]_vars /\ TypeInv' => [Store!Next]_(Store!vars)
<1> SUFFICES ASSUME Known, StoreInv, FreshInv, [Next]_vars, TypeInv'
             PROVE  Store!Next \/ UNCHANGED Store!vars
  OBVIOUS
<1>1. CASE Listen \/ AcceptClientConnection \/ Decode \/ ReadFile \/ ServeOther
  BY <1>1, ThreadRefines
<1>2. CASE CloseClientConnection \/ Ends
  BY <1>2, EndRefines DEF Store!Next
<1>3. CASE GetMessage
  <2>1. conn \in Conns
    BY <1>3 DEF GetMessage, Known, TypeInv, TypeOK
  <2>2. QED
    BY <1>3, <2>1, MessageRefines DEF Store!Next
<1>4. CASE GetMessageEmpty
  BY <1>4, EmptyRefines
<1>5. CASE UploadFileOpen
  <2>1. conn \in Conns
    BY <1>5 DEF UploadFileOpen, Serves, Known, TypeInv, TypeOK
  <2>2. QED
    BY <1>5, <2>1, OpenRefines DEF Store!Next
<1>6. CASE GetData
  BY <1>6, DataRefines DEF Store!Next
<1>7. CASE UploadFileBreak
  <2>1. UNCHANGED <<stream, taken, seen, disk, bad>> /\ Writer' = Writer
    BY <1>7 DEF UploadFileBreak, clientVars, kernelVars, requestVars, uploadVars, Writer
  <2>2. QED
    BY <2>1, Stutters
<1>8. CASE UploadFileClose
  BY <1>8, CloseRefines DEF Store!Next
<1>9. ASSUME NEW c \in Conns,
             \/ ClientConnect(c) \/ ClientRefused(c) \/ ClientStep(c) \/ ClientAbort(c)
      PROVE  Store!Next
  <2>1. stream' \in [Conns -> Seq(Unit)]
    BY DEF TypeInv, TypeOK
  <2>2. Store!Send(c)
    BY <1>9, <2>1, ClientRefines
  <2>3. QED
    BY <2>2 DEF Store!Next
<1>10. CASE Restart \/ UNCHANGED vars
  <2>1. UNCHANGED <<stream, taken, seen, disk, bad>> /\ Writer' = Writer
    BY <1>10 DEF Restart, vars, clientVars, kernelVars, requestVars, uploadVars, Writer
  <2>2. QED
    BY <2>1, Stutters
<1>11. QED
  BY <1>1, <1>2, <1>3, <1>4, <1>5, <1>6, <1>7, <1>8, <1>9, <1>10, StepKinds DEF Quiet

\* The chunk server implements ChunkStore: every step of its thread, of its
\* clients, of the disk and of the process is a step of an upload as the
\* store promises it, or none (chunkserver.cc uploadFile, tcpserver.cc).
THEOREM StoreImplemented == Spec => ImplementsStore
<1>1. Init => Store!Init
  BY RefineInit
<1>2. Known /\ StoreInv /\ FreshInv /\ [Next]_vars /\ TypeInv'
        => [Store!Next]_(Store!vars)
  BY RefineStep
<1>3. Known /\ StoreInv /\ [Next]_vars /\ TypeInv' => StoreInv'
  BY StoreStep
<1>4. Known /\ StoreInv /\ FreshInv /\ [Next]_vars => FreshInv'
  BY FreshStep
<1>5. Init => TypeInv /\ StoreInv /\ FreshInv
  BY TypeInit, StoreInit, FreshInit
<1>6. TypeInv /\ [Next]_vars => TypeInv'
  BY TypeStep
<1>7. Spec => []NoConnectionLost
  BY ConnectionsKept
<1>8. QED
  BY <1>1, <1>2, <1>3, <1>4, <1>5, <1>6, <1>7, PTL
    DEF Spec, ImplementsStore, Store!Spec, Known
=============================================================================
