---------------------------- MODULE ServerProof ----------------------------
(***************************************************************************)
(* What ends the process, proved for every number of clients of either     *)
(* thread.  Every step of Server is a step, or a stutter, of Master and of *)
(* ChunkServer, so that what is proved of either holds in the process.     *)
(***************************************************************************)
EXTENDS Server, MasterProof

\* The theorems about ChunkServer, of the server's variables.
ChunkProof == INSTANCE ChunkServerProof WITH
  MasterExits <- TRUE,
  job <- csJob, phase <- csPhase, stream <- csStream, backlog <- csBacklog,
  closed <- csClosed, taken <- csTaken, reply <- csReply,
  listening <- csListening, pc <- csPc, conn <- csConn,
  clientMessage <- csMessage, buffer <- csBuffer, high <- csHigh,
  round <- csRound, fout <- csFout, bad <- csBad, disk <- csDisk,
  seen <- csSeen

\* The initial states are initial states of either thread.
LEMMA BothBegin == ServerInit => Init /\ Chunk!Init
  BY DEF ServerInit

\* What leaves the master's variables alone is no step of the master, and
\* likewise for the chunk server; alive is the one variable of both.
LEMMA MasterStutters == UNCHANGED <<masterVars, alive>> => UNCHANGED vars
  BY DEF masterVars, vars

LEMMA ChunkStutters == UNCHANGED <<chunkVars, alive>> => UNCHANGED Chunk!vars
  BY DEF chunkVars, Chunk!vars, Chunk!clientVars, Chunk!kernelVars,
         Chunk!requestVars, Chunk!uploadVars, Chunk!memoryVars

\* A step of a thread that does not end the process keeps alive.
LEMMA MasterKeepsAlive == MasterStep /\ alive' => UNCHANGED alive
<1> SUFFICES ASSUME MasterStep, alive'
             PROVE  UNCHANGED alive
  OBVIOUS
<1> QED
  BY DEF MasterStep, Listen, AcceptClientConnection, GetHeader, ReadLength,
         ReadSize, ReadSizeExits, ReadBody, DispatchExits, DispatchMessage,
         DispatchOther, Die

LEMMA ChunkKeepsAlive == Chunk!ServerStep /\ alive' => UNCHANGED alive
<1> SUFFICES ASSUME Chunk!ServerStep, alive'
             PROVE  UNCHANGED alive
  OBVIOUS
<1> QED
  BY DEF Chunk!ServerStep, Chunk!Listen, Chunk!AcceptClientConnection,
         Chunk!GetMessage, Chunk!GetMessageEmpty, Chunk!DecodeEnds,
         Chunk!Decode, Chunk!Serves, Chunk!ReadFile, Chunk!ServeOther,
         Chunk!FolderFails, Chunk!UploadFileOpen, Chunk!GetData,
         Chunk!UploadFileBreak, Chunk!UploadFileClose,
         Chunk!CloseClientConnection, Chunk!Die

\* The clients of one thread do nothing to the process.
LEMMA RpcClientStep ==
  RpcClient => Next /\ UNCHANGED <<chunkVars, alive>>
<1> SUFFICES ASSUME RpcClient
             PROVE  Next /\ UNCHANGED <<chunkVars, alive>>
  OBVIOUS
<1>1. PICK c \in Peers :
        /\ \/ ClientConnect(c) \/ ClientSendPreamble(c) \/ ClientSendCall(c)
           \/ ClientLeave(c) \/ ClientBreak(c)
        /\ UNCHANGED chunkVars
  BY DEF RpcClient
<1>2. Next
  BY <1>1 DEF Next
<1>3. UNCHANGED alive
  BY <1>1 DEF ClientConnect, ClientSendPreamble, ClientSendCall, ClientLeave,
              ClientBreak, serverVars
<1>4. QED
  BY <1>1, <1>2, <1>3

LEMMA FileClientStep ==
  FileClient => Chunk!Next /\ UNCHANGED <<masterVars, alive>>
<1> SUFFICES ASSUME FileClient
             PROVE  Chunk!Next /\ UNCHANGED <<masterVars, alive>>
  OBVIOUS
<1>1. PICK c \in Conns :
        /\ \/ Chunk!ClientConnect(c) \/ Chunk!ClientRefused(c)
           \/ Chunk!ClientStep(c) \/ Chunk!ClientAbort(c)
        /\ UNCHANGED masterVars
  BY DEF FileClient
<1>2. Chunk!Next
  BY <1>1 DEF Chunk!Next
<1>3. UNCHANGED alive
  BY <1>1 DEF Chunk!ClientConnect, Chunk!ClientRefused, Chunk!ClientStep,
              Chunk!ClientSendRequest, Chunk!ClientSendBlock,
              Chunk!ClientClose, Chunk!ClientReadReply, Chunk!ClientCut,
              Chunk!ClientAbort, Chunk!serverVars
<1>4. QED
  BY <1>1, <1>2, <1>3

\* Every step of the process is a step, or a stutter, of either thread: an
\* exit in one of them is ExitElsewhere to the other.
LEMMA StepOfBoth == ServerNext => [Next]_vars /\ [Chunk!Next]_(Chunk!vars)
<1> SUFFICES ASSUME ServerNext
             PROVE  [Next]_vars /\ [Chunk!Next]_(Chunk!vars)
  OBVIOUS
<1>1. CASE MasterThread
  <2>1. Next /\ UNCHANGED <<chunkVars, alive>>
    BY <1>1, MasterKeepsAlive DEF MasterThread, Next
  <2>2. QED
    BY <2>1, ChunkStutters
<1>2. CASE ChunkThread
  <2>1. Chunk!Next /\ UNCHANGED <<masterVars, alive>>
    BY <1>2, ChunkKeepsAlive DEF ChunkThread, Chunk!Next
  <2>2. QED
    BY <2>1, MasterStutters
<1>3. CASE MasterExits
  <2>1. Next
    BY <1>3 DEF MasterExits, Next, MasterStep
  <2>2. Chunk!Next
    BY <1>3 DEF MasterExits, Chunk!Next
  <2>3. QED
    BY <2>1, <2>2
<1>4. CASE ChunkExits
  <2>1. Next
    BY <1>4 DEF ChunkExits, Next
  <2>2. Chunk!Next
    BY <1>4 DEF ChunkExits, Chunk!Next, Chunk!ServerStep
  <2>3. QED
    BY <2>1, <2>2
<1>5. CASE SocketExits
  <2>1. Next
    BY <1>5 DEF SocketExits, Next
  <2>2. Chunk!Next
    BY <1>5 DEF SocketExits, Chunk!Next
  <2>3. QED
    BY <2>1, <2>2
<1>6. CASE ProcessRestart
  BY <1>6 DEF ProcessRestart, Next, Chunk!Next
<1>7. CASE RpcClient
  BY <1>7, RpcClientStep, ChunkStutters
<1>8. CASE FileClient
  BY <1>8, FileClientStep, MasterStutters
<1>9. QED
  BY <1>1, <1>2, <1>3, <1>4, <1>5, <1>6, <1>7, <1>8 DEF ServerNext

\* Either thread does in the process only what it could do alone.
LEMMA AloneOrTogether == ServerSpec => Spec /\ Chunk!Spec
<1>1. UNCHANGED serverProcessVars => UNCHANGED vars /\ UNCHANGED Chunk!vars
  BY MasterStutters, ChunkStutters DEF serverProcessVars
<1>2. [ServerNext]_serverProcessVars => [Next]_vars /\ [Chunk!Next]_(Chunk!vars)
  BY <1>1, StepOfBoth
<1>3. QED
  BY BothBegin, <1>2, PTL DEF ServerSpec, Spec, Chunk!Spec

-----------------------------------------------------------------------------
(***************************************************************************)
(* Chunk and ChunkProof are two instances of the same module.              *)
(***************************************************************************)
LEMMA SameAssumptions ==
  /\ ChunkProof!PieceAssumption /\ ChunkProof!ConnAssumption
  /\ ChunkProof!SizeAssumption /\ ChunkProof!UnitAssumption
  /\ ChunkProof!SwitchAssumption /\ ChunkProof!JobAssumption
BY ChunkAssumption
DEF Chunk!Message, ChunkProof!Message, Chunk!Verb, ChunkProof!Verb, Chunk!MessageType,
    ChunkProof!MessageType, Chunk!messageTypeString, ChunkProof!messageTypeString

LEMMA SameVariables ==
  Chunk!vars = ChunkProof!vars /\ (Chunk!vars)' = (ChunkProof!vars)'
BY DEF Chunk!clientVars, ChunkProof!clientVars, Chunk!kernelVars,
       ChunkProof!kernelVars, Chunk!uploadVars, ChunkProof!uploadVars,
       Chunk!requestVars, ChunkProof!requestVars, Chunk!memoryVars,
       ChunkProof!memoryVars, Chunk!vars, ChunkProof!vars

LEMMA SameRequest ==
  ASSUME NEW c PROVE Chunk!Request(c) = ChunkProof!Request(c)
BY DEF Chunk!Request, ChunkProof!Request, Chunk!serialize, ChunkProof!serialize,
       Chunk!messageTypeString, ChunkProof!messageTypeString

LEMMA SameInit == Chunk!Init => ChunkProof!Init
BY DEF Chunk!Init, ChunkProof!Init, Chunk!NoMessage, ChunkProof!NoMessage,
       Chunk!EmptyMessage, ChunkProof!EmptyMessage, Chunk!NewBuffer,
       ChunkProof!NewBuffer, Chunk!NotRead, ChunkProof!NotRead

LEMMA SameTokens ==
  ASSUME NEW text
  PROVE  /\ Chunk!TypeToken(text) = ChunkProof!TypeToken(text)
         /\ Chunk!Token0(text) = ChunkProof!Token0(text)
         /\ Chunk!Token1(text) = ChunkProof!Token1(text)
<1>1. ASSUME NEW from PROVE Chunk!strtok(text, from) = ChunkProof!strtok(text, from)
  BY DEF Chunk!strtok, ChunkProof!strtok, Chunk!TokenStarts, ChunkProof!TokenStarts,
         Chunk!TokenEnds, ChunkProof!TokenEnds, Chunk!Min, ChunkProof!Min
<1>2. Chunk!TypeToken(text) = ChunkProof!TypeToken(text)
  BY <1>1 DEF Chunk!TypeToken, ChunkProof!TypeToken
<1>3. Chunk!Token0(text) = ChunkProof!Token0(text)
  BY <1>1, <1>2 DEF Chunk!Token0, ChunkProof!Token0
<1>4. Chunk!Token1(text) = ChunkProof!Token1(text)
  BY <1>1, <1>3 DEF Chunk!Token1, ChunkProof!Token1
<1>5. QED
  BY <1>2, <1>3, <1>4

LEMMA SameDeserialize ==
  ASSUME NEW text
  PROVE  /\ Chunk!Deserializes(text) <=> ChunkProof!Deserializes(text)
         /\ Chunk!deserialize(text) = ChunkProof!deserialize(text)
<1>1. ASSUME NEW token PROVE Chunk!getMessageType(token) = ChunkProof!getMessageType(token)
  BY DEF Chunk!getMessageType, ChunkProof!getMessageType, Chunk!Verb, ChunkProof!Verb,
         Chunk!MessageType, ChunkProof!MessageType, Chunk!messageTypeString,
         ChunkProof!messageTypeString
<1>2. ASSUME NEW t PROVE Chunk!FieldCount(t) = ChunkProof!FieldCount(t)
  BY DEF Chunk!FieldCount, ChunkProof!FieldCount
<1>3. ASSUME NEW t PROVE Chunk!EmptyMessage(t) = ChunkProof!EmptyMessage(t)
  BY DEF Chunk!EmptyMessage, ChunkProof!EmptyMessage
<1>4. Chunk!Deserializes(text) <=> ChunkProof!Deserializes(text)
  BY <1>1, <1>2, SameTokens DEF Chunk!Deserializes, ChunkProof!Deserializes
<1>5. Chunk!deserialize(text) = ChunkProof!deserialize(text)
  BY <1>1, <1>3, SameTokens DEF Chunk!deserialize, ChunkProof!deserialize
<1>6. QED
  BY <1>4, <1>5

LEMMA SameDie == Chunk!Die <=> ChunkProof!Die
BY DEF Chunk!Die, ChunkProof!Die, Chunk!clientVars, ChunkProof!clientVars,
       Chunk!kernelVars, ChunkProof!kernelVars, Chunk!uploadVars,
       ChunkProof!uploadVars, Chunk!requestVars, ChunkProof!requestVars,
       Chunk!memoryVars, ChunkProof!memoryVars, Chunk!NoMessage, ChunkProof!NoMessage,
       Chunk!EmptyMessage, ChunkProof!EmptyMessage, Chunk!NewBuffer,
       ChunkProof!NewBuffer

LEMMA SameDecodeEnds == Chunk!DecodeEnds <=> ChunkProof!DecodeEnds
  BY SameDeserialize, SameDie DEF Chunk!DecodeEnds, ChunkProof!DecodeEnds

LEMMA SameStep == Chunk!ServerStep => ChunkProof!ServerStep
<1> USE DEF Chunk!clientVars, ChunkProof!clientVars, Chunk!kernelVars,
            ChunkProof!kernelVars, Chunk!uploadVars, ChunkProof!uploadVars,
            Chunk!requestVars, ChunkProof!requestVars, Chunk!memoryVars,
            ChunkProof!memoryVars, Chunk!NoMessage, ChunkProof!NoMessage,
            Chunk!EmptyMessage, ChunkProof!EmptyMessage, Chunk!NewBuffer,
            ChunkProof!NewBuffer, Chunk!MessageType, ChunkProof!MessageType
<1>1. Chunk!Listen => ChunkProof!Listen
  BY DEF Chunk!Listen, ChunkProof!Listen
<1>2. Chunk!AcceptClientConnection => ChunkProof!AcceptClientConnection
  BY DEF Chunk!AcceptClientConnection, ChunkProof!AcceptClientConnection
<1>3. Chunk!GetMessage => ChunkProof!GetMessage
  BY DEF Chunk!GetMessage, ChunkProof!GetMessage, Chunk!Arrivals, ChunkProof!Arrivals,
         Chunk!Overwritten, ChunkProof!Overwritten, Chunk!Leading, ChunkProof!Leading,
         Chunk!Nuls, ChunkProof!Nuls, Chunk!CStrings, ChunkProof!CStrings, Chunk!Min,
         ChunkProof!Min
<1>4. Chunk!GetMessageEmpty => ChunkProof!GetMessageEmpty
  BY DEF Chunk!GetMessageEmpty, ChunkProof!GetMessageEmpty, Chunk!EndOfStream,
         ChunkProof!EndOfStream
<1>5. Chunk!Decode => ChunkProof!Decode
  BY SameDeserialize DEF Chunk!Decode, ChunkProof!Decode
<1>6. Chunk!ReadFile => ChunkProof!ReadFile
  BY DEF Chunk!ReadFile, ChunkProof!ReadFile, Chunk!Serves, ChunkProof!Serves,
         Chunk!ReadMessageReply, ChunkProof!ReadMessageReply, Chunk!serialize,
         ChunkProof!serialize, Chunk!messageTypeString, ChunkProof!messageTypeString
<1>7. Chunk!ServeOther => ChunkProof!ServeOther
  BY DEF Chunk!ServeOther, ChunkProof!ServeOther, Chunk!Serves, ChunkProof!Serves
<1>8. Chunk!FolderFails => ChunkProof!FolderFails
  BY SameDie DEF Chunk!FolderFails, ChunkProof!FolderFails, Chunk!Serves,
     ChunkProof!Serves
<1>9. Chunk!UploadFileOpen => ChunkProof!UploadFileOpen
  BY DEF Chunk!UploadFileOpen, ChunkProof!UploadFileOpen, Chunk!Serves,
         ChunkProof!Serves, Chunk!Opened, ChunkProof!Opened
<1>10. Chunk!GetData => ChunkProof!GetData
  BY DEF Chunk!GetData, ChunkProof!GetData, Chunk!Arrivals, ChunkProof!Arrivals,
         Chunk!Flush, ChunkProof!Flush, Chunk!Rounds, ChunkProof!Rounds
<1>11. Chunk!UploadFileBreak => ChunkProof!UploadFileBreak
  BY DEF Chunk!UploadFileBreak, ChunkProof!UploadFileBreak, Chunk!EndOfStream,
         ChunkProof!EndOfStream
<1>12. Chunk!UploadFileClose => ChunkProof!UploadFileClose
  BY DEF Chunk!UploadFileClose, ChunkProof!UploadFileClose, Chunk!Flush,
         ChunkProof!Flush
<1>13. Chunk!CloseClientConnection => ChunkProof!CloseClientConnection
  BY DEF Chunk!CloseClientConnection, ChunkProof!CloseClientConnection
<1>14. QED
  BY <1>1, <1>2, <1>3, <1>4, <1>5, <1>6, <1>7, <1>8, <1>9, <1>10, <1>11, <1>12, <1>13, SameDecodeEnds
  DEF Chunk!ServerStep, ChunkProof!ServerStep

LEMMA SameClient ==
  ASSUME NEW c \in Conns
  PROVE  Chunk!ClientConnect(c) \/ Chunk!ClientRefused(c) \/ Chunk!ClientStep(c)
           \/ Chunk!ClientAbort(c)
         => ChunkProof!ClientConnect(c) \/ ChunkProof!ClientRefused(c)
              \/ ChunkProof!ClientStep(c) \/ ChunkProof!ClientAbort(c)
<1> USE DEF Chunk!clientVars, ChunkProof!clientVars, Chunk!kernelVars,
            ChunkProof!kernelVars, Chunk!uploadVars, ChunkProof!uploadVars,
            Chunk!requestVars, ChunkProof!requestVars, Chunk!memoryVars,
            ChunkProof!memoryVars, Chunk!vars, ChunkProof!vars, Chunk!serverVars,
            ChunkProof!serverVars
<1>1. Chunk!ClientConnect(c) => ChunkProof!ClientConnect(c)
  BY DEF Chunk!ClientConnect, ChunkProof!ClientConnect
<1>2. Chunk!ClientRefused(c) => ChunkProof!ClientRefused(c)
  BY DEF Chunk!ClientRefused, ChunkProof!ClientRefused
<1>3. Chunk!ClientStep(c) => ChunkProof!ClientStep(c)
  BY DEF Chunk!ClientStep, ChunkProof!ClientStep, Chunk!ClientSendRequest,
         ChunkProof!ClientSendRequest, Chunk!ClientSendBlock,
         ChunkProof!ClientSendBlock, Chunk!ClientClose, ChunkProof!ClientClose,
         Chunk!ClientReadReply, ChunkProof!ClientReadReply, Chunk!ClientCut,
         ChunkProof!ClientCut, Chunk!Sent, ChunkProof!Sent, Chunk!Request,
         ChunkProof!Request, Chunk!serialize, ChunkProof!serialize,
         Chunk!messageTypeString, ChunkProof!messageTypeString
<1>4. Chunk!ClientAbort(c) => ChunkProof!ClientAbort(c)
  BY DEF Chunk!ClientAbort, ChunkProof!ClientAbort
<1>5. QED
  BY <1>1, <1>2, <1>3, <1>4

LEMMA SameNext == Chunk!Next => ChunkProof!Next
<1>1. Chunk!ExitElsewhere => ChunkProof!ExitElsewhere
  BY SameDie DEF Chunk!ExitElsewhere, ChunkProof!ExitElsewhere
<1>2. Chunk!Restart => ChunkProof!Restart
  BY DEF Chunk!Restart, ChunkProof!Restart, Chunk!clientVars, ChunkProof!clientVars,
         Chunk!kernelVars, ChunkProof!kernelVars, Chunk!uploadVars,
         ChunkProof!uploadVars, Chunk!requestVars, ChunkProof!requestVars,
         Chunk!memoryVars, ChunkProof!memoryVars
<1>3. Chunk!SocketFails => ChunkProof!SocketFails
  BY SameDie DEF Chunk!SocketFails, ChunkProof!SocketFails
<1>4. QED
  BY <1>1, <1>2, <1>3, SameStep, SameClient DEF Chunk!Next, ChunkProof!Next

LEMMA SameSpec == Chunk!Spec => ChunkProof!Spec
<1>1. [Chunk!Next]_(Chunk!vars) => [ChunkProof!Next]_(ChunkProof!vars)
  BY SameNext, SameVariables
<1>2. QED
  BY SameInit, <1>1, PTL DEF Chunk!Spec, ChunkProof!Spec

-----------------------------------------------------------------------------
(***************************************************************************)
(* The end of the process                                                  *)
(***************************************************************************)

\* The process ends only for a client that did not keep to its protocol, for a
\* folder that cannot be made, or for a listen or an accept that fails (the
\* exits of serverMain, of readVarint32, of deserialize, of create_directories
\* and of startListening and acceptClientConnection): no interleaving of the
\* two threads and their clients ends it in another way.
THEOREM EndCause == ServerSpec => ProcessEndsForCause
<1> DEFINE MasterCause ==
             \/ phase[conn] = "broken"
             \/ \E i \in 1..Len(starts[conn]) :
                  ~Plain(script[conn][i]) \/ script[conn][i].id \in Reserved
           ChunkCause ==
             csConn # NoConn /\ csSeen[csConn].cut < Len(ChunkProof!Request(csConn))
           Cause ==
             \/ conn # NoPeer /\ phase[conn] = "broken"
             \/ conn # NoPeer /\ \E i \in 1..Len(starts[conn]) :
                  ~Plain(script[conn][i]) \/ script[conn][i].id \in Reserved
             \/ csConn # NoConn /\ csSeen[csConn].cut < Len(Chunk!Request(csConn))
             \/ csPc = "serve" /\ DiskFaults
             \/ SocketFaults /\ (conn = NoPeer \/ csConn = NoConn)
           MasterEnds == [ReadSizeExits \/ DispatchExits => MasterCause]_vars
           ChunkEnds == [ChunkProof!DecodeEnds => ChunkCause]_(ChunkProof!vars)
<1>1. ASSUME TypeOK, ChunkProof!TypeOK, MasterEnds, ChunkEnds, ServerNext,
             alive, ~alive'
      PROVE  Cause
  <2>1. MasterExits \/ ChunkExits \/ SocketExits
    <3>1. ~MasterThread /\ ~ChunkThread /\ ~ProcessRestart
      BY <1>1 DEF MasterThread, ChunkThread, ProcessRestart, Restart
    <3>2. ~RpcClient /\ ~FileClient
      BY <1>1, RpcClientStep, FileClientStep
    <3>3. QED
      BY <1>1, <3>1, <3>2 DEF ServerNext
  <2>2. CASE MasterExits
    <3>1. ReadSizeExits \/ DispatchExits
      BY <2>2 DEF MasterExits
    <3>2. vars' # vars
      BY <1>1 DEF vars
    <3>3. MasterCause
      BY <1>1, <3>1, <3>2
    <3>4. conn # NoPeer
      BY <1>1, <3>1 DEF ReadSizeExits, DispatchExits, TypeOK
    <3>5. QED
      BY <3>3, <3>4
  <2>3. CASE ChunkExits
    <3>1. Chunk!DecodeEnds \/ Chunk!FolderFails
      BY <2>3 DEF ChunkExits
    <3>2. CASE Chunk!DecodeEnds
      <4>1. ChunkProof!vars' # ChunkProof!vars
        BY <1>1 DEF ChunkProof!vars
      <4>2. ChunkCause
        BY <1>1, <3>2, <4>1, SameDecodeEnds
      <4>3. QED
        BY <4>2, SameRequest
    <3>3. CASE Chunk!FolderFails
      BY <3>3 DEF Chunk!FolderFails, Chunk!Serves
    <3>4. QED
      BY <3>1, <3>2, <3>3
  <2>4. CASE SocketExits
    <3>1. SocketFails \/ Chunk!SocketFails
      BY <2>4 DEF SocketExits
    <3>2. CASE SocketFails
      BY <1>1, <3>2 DEF SocketFails, TypeOK
    <3>3. CASE Chunk!SocketFails
      BY <1>1, <3>3 DEF Chunk!SocketFails, ChunkProof!TypeOK
    <3>4. QED
      BY <3>1, <3>2, <3>3
  <2>5. QED
    BY <2>1, <2>2, <2>3, <2>4
<1>2. TypeOK /\ ChunkProof!TypeOK /\ MasterEnds /\ ChunkEnds /\ [ServerNext]_serverProcessVars
        => [alive /\ ~alive' => Cause]_serverProcessVars
  BY <1>1
<1>3. Spec => [][ReadSizeExits \/ DispatchExits => MasterCause]_vars
  BY ExitCause DEF ExitsForCause
<1>4. Chunk!Spec => [][ChunkProof!DecodeEnds => ChunkCause]_(ChunkProof!vars)
  BY SameAssumptions, SameSpec, ChunkProof!DecodeEndsForCause, PTL
<1>5. Chunk!Spec => []ChunkProof!TypeOK
  BY SameAssumptions, SameSpec, ChunkProof!TypeCorrect, PTL
<1>6. QED
  BY <1>2, <1>3, <1>4, <1>5, AloneOrTogether, TypeCorrect, PTL
  DEF ServerSpec, ProcessEndsForCause
=============================================================================
