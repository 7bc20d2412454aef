---------------------------- MODULE ChunkServer ----------------------------
(***************************************************************************)
(* The chunk server (chunkserver.cc) on its TCP socket (tcpserver.cc), the *)
(* clients that connect to it (simplehdfsclient.cc), and the files it      *)
(* leaves on disk.                                                         *)
(*                                                                         *)
(* One thread accepts a connection, reads one request, serves it, closes   *)
(* the connection and starts again.  TCP delivers the units a client sent  *)
(* in order, but a read returns any number of those that have arrived, so  *)
(* a request may come in parts or together with the data that follows it.  *)
(* A connection is used once; a client that runs two commands uses two.    *)
(***************************************************************************)
EXTENDS Message, CharBuffer

CONSTANTS
  Conns,        \* the connections that clients make
  NoConn,       \* "the server holds no connection"
  Job,          \* what a client does: a request, and the data of an upload
  Data,         \* the pieces file contents are made of
  Called,       \* "ReadMessage called for file:"
  BlockSize,    \* 4096: Data::BLOCK_SIZE, in pieces
  Backlog,      \* 3: the argument of listen
  DiskFaults,   \* TRUE: folders, opens and writes may fail
  SocketFaults, \* TRUE: listen, accept and what is before them may fail
  MasterExits   \* TRUE: the master's thread may end the process

ASSUME ConnAssumption == NoConn \notin Conns

ASSUME SizeAssumption ==
  BufSize \in Nat \ {0} /\ BlockSize \in Nat \ {0} /\ Backlog \in Nat \ {0}

ASSUME UnitAssumption ==
  Nul \notin Part \cup Verb \cup {Sep} /\ Called \in Part

ASSUME SwitchAssumption ==
  DiskFaults \in BOOLEAN /\ SocketFaults \in BOOLEAN /\ MasterExits \in BOOLEAN

\* Clients send the chunk server READ, UPLOAD and DOWNLOAD requests, and none
\* with an empty name: strtok would not have returned it.
ASSUME JobAssumption ==
  \A j \in Job : /\ j.req \in Message
                 /\ j.req.mtype \in {"READ", "UPLOAD", "DOWNLOAD"}
                 /\ j.req.remoteFileName # <<>>
                 /\ j.req.mtype = "DOWNLOAD" => j.req.localFileName # <<>>
                 /\ j.content \in Seq(Data)

Unit == Part \cup Verb \cup Data \cup {Sep, Nul, Junk}

Rounds == 3     \* how often uploadFile calls getData

NoMessage == EmptyMessage("INVALID")

NotRead == [text |-> <<>>, cut |-> 0, high |-> 0]

VARIABLES
  job,        \* job[c]: what the client of c does
  phase,      \* phase[c]: how far the client of c is
  stream,     \* stream[c]: every unit the client has sent, first to last
  backlog,    \* connections that wait to be accepted
  closed,     \* closed[c]: the server's end of c is closed
  taken,      \* taken[c]: how many units of stream[c] the server has read
  reply,      \* reply[c]: what the server has sent to the client
  alive,      \* the server process runs
  listening,  \* listen was called since the process started
  pc,         \* where the server's thread is
  conn,       \* new_socket
  clientMessage,  \* the request that is being served
  buffer,     \* TCPServer::buffer
  high,       \* highest cell of buffer written since the start (history)
  round,      \* uploadFile's i
  fout,       \* what uploadFile wrote to its ofstream
  bad,        \* the ofstream has failed
  disk,       \* file name -> its data, and the connection it came from
  seen        \* what getMessage returned for a connection (history):
              \* text, units read up to then, high at the time

clientVars == <<job, phase, stream>>
kernelVars == <<backlog, closed, taken, reply>>
uploadVars == <<round, fout, bad>>
requestVars == <<clientMessage, uploadVars>>
memoryVars == <<buffer, high>>
vars == <<clientVars, kernelVars, requestVars, memoryVars,
          alive, listening, pc, conn, disk, seen>>

Request(c) == serialize(job[c].req)

Init ==
  /\ job \in [Conns -> Job]
  /\ phase = [c \in Conns |-> "idle"]
  /\ stream = [c \in Conns |-> <<>>]
  /\ backlog = <<>>
  /\ closed = [c \in Conns |-> FALSE]
  /\ taken = [c \in Conns |-> 0]
  /\ reply = [c \in Conns |-> <<>>]
  /\ alive = TRUE
  /\ listening = FALSE
  /\ pc = "listen"
  /\ conn = NoConn
  /\ clientMessage = NoMessage
  /\ buffer = NewBuffer
  /\ high = 0
  /\ round = 0
  /\ fout = <<>>
  /\ bad = FALSE
  /\ disk = [name \in {} |-> <<>>]
  /\ seen = [c \in Conns |-> NotRead]

-----------------------------------------------------------------------------
(***************************************************************************)
(* Reading a socket, ending the process                                    *)
(***************************************************************************)

\* How many units one read of at most max may return.
Arrivals(c, max) == {n \in 1..max : taken[c] + n <= Len(stream[c])}

\* The client's end is closed and everything it sent was read: read returns 0.
EndOfStream(c) == phase[c] = "gone" /\ taken[c] = Len(stream[c])

\* The process ends: the kernel closes its sockets, connections that wait are
\* reset, and what an ofstream still holds in memory is lost.
Die ==
  /\ alive' = FALSE
  /\ listening' = FALSE
  /\ pc' = "listen"
  /\ conn' = NoConn
  /\ closed' = [c \in Conns |->
                  closed[c] \/ c = conn \/ \E i \in DOMAIN backlog : backlog[i] = c]
  /\ backlog' = <<>>
  /\ clientMessage' = NoMessage
  /\ buffer' = NewBuffer
  /\ high' = 0
  /\ round' = 0
  /\ fout' = <<>>
  /\ bad' = FALSE
  /\ UNCHANGED <<clientVars, taken, reply, disk, seen>>

-----------------------------------------------------------------------------
(***************************************************************************)
(* The server's thread: chunkMain                                          *)
(***************************************************************************)

Listen ==
  /\ alive /\ pc = "listen"
  /\ listening' = TRUE
  /\ pc' = "accept"
  /\ UNCHANGED <<clientVars, kernelVars, requestVars, memoryVars,
                 alive, conn, disk, seen>>

AcceptClientConnection ==
  /\ alive /\ pc = "accept"
  /\ backlog # <<>>
  /\ conn' = Head(backlog)
  /\ backlog' = Tail(backlog)
  /\ pc' = "message"
  /\ UNCHANGED <<clientVars, closed, taken, reply, requestVars, memoryVars,
                 alive, listening, disk, seen>>

\* exit, for a listen or an accept that fails; before the first listen, for a
\* socket that cannot be made or bound.
SocketFails ==
  /\ alive /\ pc \in {"listen", "accept"}
  /\ SocketFaults
  /\ Die

GetMessage ==
  /\ alive /\ pc = "message"
  /\ \E n \in Arrivals(conn, BufSize) :
       /\ buffer' = Overwritten(buffer, stream[conn], taken[conn], n)
       /\ taken' = [taken EXCEPT ![conn] = @ + n]
       /\ high' = IF n > high THEN n ELSE high
       /\ \E text \in CStrings(buffer') :
            seen' = [seen EXCEPT ![conn] =
                       [text |-> text, cut |-> taken[conn] + n, high |-> high]]
  /\ pc' = "decode"
  /\ UNCHANGED <<clientVars, backlog, closed, reply, requestVars,
                 alive, listening, conn, disk>>

\* The client has closed without a request: getMessage returns "".
GetMessageEmpty ==
  /\ alive /\ pc = "message"
  /\ EndOfStream(conn)
  /\ seen' = [seen EXCEPT ![conn] =
                [text |-> <<>>, cut |-> taken[conn], high |-> high]]
  /\ pc' = "decode"
  /\ UNCHANGED <<clientVars, kernelVars, requestVars, memoryVars,
                 alive, listening, conn, disk>>

\* deserialize calls exit(1), or throws what nothing catches.
DecodeEnds ==
  /\ alive /\ pc = "decode"
  /\ ~Deserializes(seen[conn].text)
  /\ Die

Decode ==
  /\ alive /\ pc = "decode"
  /\ Deserializes(seen[conn].text)
  /\ clientMessage' = deserialize(seen[conn].text)
  /\ pc' = "serve"
  /\ UNCHANGED <<clientVars, kernelVars, uploadVars, memoryVars,
                 alive, listening, conn, disk, seen>>

Serves(types) == alive /\ pc = "serve" /\ clientMessage.mtype \in types

ReadMessageReply(name) ==
  [EmptyMessage("STATUS") EXCEPT !.statusString = <<Called, Sep>> \o name]

ReadFile ==
  /\ Serves({"READ"})
  /\ reply' = [reply EXCEPT ![conn] =
                 serialize(ReadMessageReply(clientMessage.remoteFileName))]
  /\ pc' = "close"
  /\ UNCHANGED <<clientVars, backlog, closed, taken, requestVars, memoryVars,
                 alive, listening, conn, disk, seen>>

\* WRITE, LIST and DOWNLOAD do nothing, and types without a case neither.
ServeOther ==
  /\ Serves(MessageType \ {"READ", "UPLOAD"})
  /\ pc' = "close"
  /\ UNCHANGED <<clientVars, kernelVars, requestVars, memoryVars,
                 alive, listening, conn, disk, seen>>

\* create_directories throws what nothing catches.
FolderFails ==
  /\ Serves({"UPLOAD"})
  /\ DiskFaults
  /\ Die

\* The file as the open leaves it: an ofstream truncates, although the comment
\* above it says "currently only append to the file" (chunkserver.cc:125).
Opened(name, c) ==
  [n \in DOMAIN disk \cup {name} |->
     IF n = name THEN [data |-> <<>>, by |-> c] ELSE disk[n]]

UploadFileOpen ==
  /\ Serves({"UPLOAD"})
  /\ \/ disk' = Opened(clientMessage.remoteFileName, conn) /\ bad' = FALSE
     \/ DiskFaults /\ disk' = disk /\ bad' = TRUE
  /\ round' = 0
  /\ fout' = <<>>
  /\ pc' = "receive"
  /\ UNCHANGED <<clientVars, kernelVars, clientMessage, memoryVars,
                 alive, listening, conn, seen>>

\* Mutant of Flush: a write that failed is skipped and later ones go on.
FlushAnyway(atLeast) ==
  LET name == clientMessage.remoteFileName
      old == disk[name].data
      new == SubSeq(fout', Len(fout) + 1, Len(fout'))
  IN  IF bad
      THEN UNCHANGED <<disk, bad>>
      ELSE /\ \/ disk' = [disk EXCEPT ![name].data = old \o new]
              \/ DiskFaults /\ disk' = disk
           /\ bad' = FALSE

\* Mutant of Flush: the file is written anew, up to anywhere.
FlushAnew(atLeast) ==
  LET name == clientMessage.remoteFileName
  IN  IF bad
      THEN UNCHANGED <<disk, bad>>
      ELSE \E k \in 0..Len(fout') :
             /\ disk' = [disk EXCEPT ![name].data = SubSeq(fout', 1, k)]
             /\ \/ k >= atLeast /\ bad' = FALSE
                \/ DiskFaults /\ k < Len(fout') /\ bad' = TRUE

\* The ofstream passes on what it holds when it sees fit, or fails at it.
Flush(atLeast) ==
  LET name == clientMessage.remoteFileName
  IN  IF bad
      THEN UNCHANGED <<disk, bad>>
      ELSE \E k \in Len(disk[name].data)..Len(fout') :
             /\ disk' = [disk EXCEPT ![name].data = SubSeq(fout', 1, k)]
             /\ \/ k >= atLeast /\ bad' = FALSE
                \/ DiskFaults /\ k < Len(fout') /\ bad' = TRUE

GetData ==
  /\ alive /\ pc = "receive"
  /\ \E n \in Arrivals(conn, BlockSize) :
       /\ fout' = fout \o SubSeq(stream[conn], taken[conn] + 1, taken[conn] + n)
       /\ taken' = [taken EXCEPT ![conn] = @ + n]
  /\ Flush(0)
  /\ round' = round + 1
  /\ pc' = IF round' = Rounds THEN "finish" ELSE "receive"
  /\ UNCHANGED <<clientVars, backlog, closed, reply, clientMessage, memoryVars,
                 alive, listening, conn, seen>>

\* Mutant of UploadFileBreak: a read of length 0 does not end the loop.
UploadFileNoBreak ==
  /\ alive /\ pc = "receive"
  /\ EndOfStream(conn)
  /\ UNCHANGED vars

UploadFileBreak ==
  /\ alive /\ pc = "receive"
  /\ EndOfStream(conn)
  /\ pc' = "finish"
  /\ UNCHANGED <<clientVars, kernelVars, requestVars, memoryVars,
                 alive, listening, conn, disk, seen>>

\* Mutant of UploadFileClose: the ofstream is neither flushed nor closed.
UploadFileNotClosed ==
  /\ alive /\ pc = "finish"
  /\ pc' = "close"
  /\ UNCHANGED <<clientVars, kernelVars, requestVars, memoryVars,
                 alive, listening, conn, disk, seen>>

UploadFileClose ==
  /\ alive /\ pc = "finish"
  /\ UNCHANGED fout
  /\ Flush(Len(fout))
  /\ pc' = "close"
  /\ UNCHANGED <<clientVars, kernelVars, clientMessage, round, memoryVars,
                 alive, listening, conn, seen>>

\* Mutants of CloseClientConnection: without the close; new_socket kept.
CloseForgotten ==
  /\ alive /\ pc = "close"
  /\ conn' = NoConn
  /\ clientMessage' = NoMessage /\ round' = 0 /\ fout' = <<>> /\ bad' = FALSE
  /\ pc' = "listen"
  /\ UNCHANGED <<clientVars, kernelVars, memoryVars,
                 alive, listening, disk, seen>>

SocketKept ==
  /\ alive /\ pc = "close"
  /\ closed' = [closed EXCEPT ![conn] = TRUE]
  /\ pc' = "listen"
  /\ UNCHANGED <<clientVars, backlog, taken, reply, requestVars, memoryVars,
                 alive, listening, conn, disk, seen>>

CloseClientConnection ==
  /\ alive /\ pc = "close"
  /\ closed' = [closed EXCEPT ![conn] = TRUE]
  /\ conn' = NoConn
  /\ clientMessage' = NoMessage /\ round' = 0 /\ fout' = <<>> /\ bad' = FALSE
  /\ pc' = "listen"
  /\ UNCHANGED <<clientVars, backlog, taken, reply, memoryVars,
                 alive, listening, disk, seen>>

\* exit in the master's thread, which shares the process (master.cc).
ExitElsewhere ==
  /\ alive /\ MasterExits
  /\ Die

\* The process is started again; only the disk is left of the last one.
Restart ==
  /\ ~alive
  /\ alive' = TRUE
  /\ UNCHANGED <<clientVars, kernelVars, requestVars, memoryVars,
                 listening, pc, conn, disk, seen>>

ServerStep ==
  \/ Listen \/ AcceptClientConnection \/ GetMessage \/ GetMessageEmpty
  \/ DecodeEnds \/ Decode \/ ReadFile \/ ServeOther \/ FolderFails
  \/ UploadFileOpen \/ GetData \/ UploadFileBreak \/ UploadFileClose
  \/ CloseClientConnection

-----------------------------------------------------------------------------
(***************************************************************************)
(* The clients: uploadFile, downloadFile and readFile of SimpleHDFSClient, *)
(* from the connect to the chunk server on.                                *)
(***************************************************************************)

serverVars == <<taken, reply, requestVars, memoryVars, alive, listening, pc, conn,
                disk, seen>>

ClientConnect(c) ==
  /\ phase[c] = "idle"
  /\ listening /\ Len(backlog) < Backlog
  /\ backlog' = Append(backlog, c)
  /\ phase' = [phase EXCEPT ![c] = "connected"]
  /\ UNCHANGED <<job, stream, closed, serverVars>>

\* connectToServer's result is ignored; the send that follows ends the client.
ClientRefused(c) ==
  /\ phase[c] = "idle"
  /\ ~listening
  /\ phase' = [phase EXCEPT ![c] = "gone"]
  /\ UNCHANGED <<job, stream, backlog, closed, serverVars>>

ClientSendRequest(c) ==
  /\ phase[c] = "connected" /\ ~closed[c]
  /\ stream' = [stream EXCEPT ![c] = @ \o Request(c)]
  /\ phase' = [phase EXCEPT ![c] =
                 IF job[c].req.mtype = "READ" THEN "awaiting" ELSE "sending"]
  /\ UNCHANGED <<job, backlog, closed, serverVars>>

\* How much of the content is sent: the stream without the request.
Sent(c) == Len(stream[c]) - Len(Request(c))

ClientSendBlock(c) ==
  /\ phase[c] = "sending" /\ ~closed[c]
  /\ Sent(c) < Len(job[c].content)
  /\ LET end == IF Sent(c) + BlockSize < Len(job[c].content)
                THEN Sent(c) + BlockSize ELSE Len(job[c].content)
     IN  stream' = [stream EXCEPT
                      ![c] = @ \o SubSeq(job[c].content, Sent(c) + 1, end)]
  /\ UNCHANGED <<job, phase, backlog, closed, serverVars>>

ClientClose(c) ==
  /\ phase[c] = "sending"
  /\ Sent(c) = Len(job[c].content)
  /\ phase' = [phase EXCEPT ![c] = "gone"]
  /\ UNCHANGED <<job, stream, backlog, closed, serverVars>>

ClientReadReply(c) ==
  /\ phase[c] = "awaiting"
  /\ reply[c] # <<>> \/ closed[c]
  /\ phase' = [phase EXCEPT ![c] = "gone"]
  /\ UNCHANGED <<job, stream, backlog, closed, serverVars>>

\* What is sent to a closed connection is lost, and a send after that ends
\* the client; it makes no difference to the server which of them is last.
ClientCut(c) ==
  /\ phase[c] \in {"connected", "sending"} /\ closed[c]
  /\ phase' = [phase EXCEPT ![c] = "gone"]
  /\ UNCHANGED <<job, stream, backlog, closed, serverVars>>

\* The client is interrupted; what it has sent still arrives.
ClientAbort(c) ==
  /\ phase[c] \in {"connected", "sending", "awaiting"}
  /\ phase' = [phase EXCEPT ![c] = "gone"]
  /\ UNCHANGED <<job, stream, backlog, closed, serverVars>>

ClientStep(c) ==
  \/ ClientSendRequest(c) \/ ClientSendBlock(c) \/ ClientClose(c)
  \/ ClientReadReply(c) \/ ClientCut(c)

-----------------------------------------------------------------------------
Next ==
  \/ ServerStep \/ SocketFails \/ ExitElsewhere \/ Restart
  \/ \E c \in Conns : \/ ClientConnect(c) \/ ClientRefused(c)
                      \/ ClientStep(c) \/ ClientAbort(c)

Spec == Init /\ [][Next]_vars

\* The thread runs on as long as its process lives, and a client that has
\* connected runs on.  Nobody has to connect, to fail or to restart.
Fairness == WF_vars(ServerStep) /\ \A c \in Conns : WF_vars(ClientStep(c))

FairSpec == Spec /\ Fairness

-----------------------------------------------------------------------------
(***************************************************************************)
(* Properties                                                              *)
(***************************************************************************)

SeenType == [text : Seq(Unit), cut : Nat, high : 0..BufSize]
FileType == [data : Seq(Unit), by : Conns]

\* Type correctness: every variable of chunkMain, of its socket and of the
\* disk stays within its type, and the thread has a connection exactly from
\* accept to close.
TypeOK ==
  /\ job \in [Conns -> Job]
  /\ phase \in [Conns -> {"idle", "connected", "sending", "awaiting", "gone"}]
  /\ stream \in [Conns -> Seq(Unit)]
  /\ backlog \in Seq(Conns)
  /\ closed \in [Conns -> BOOLEAN]
  /\ taken \in [Conns -> Nat]
  /\ reply \in [Conns -> Seq(Unit)]
  /\ alive \in BOOLEAN /\ listening \in BOOLEAN
  /\ pc \in {"listen", "accept", "message", "decode", "serve", "receive", "finish", "close"}
  /\ conn \in Conns \cup {NoConn}
  /\ conn = NoConn <=> pc \in {"listen", "accept"}
  /\ clientMessage \in MessageOver(Unit)
  /\ buffer \in [1..BufSize -> Unit]
  /\ high \in 0..BufSize
  /\ round \in 0..Rounds
  /\ fout \in Seq(Unit)
  /\ bad \in BOOLEAN
  /\ \A name \in DOMAIN disk : name \in Seq(Unit) /\ disk[name] \in FileType
  /\ seen \in [Conns -> SeenType]

Waiting(c) == {i \in DOMAIN backlog : backlog[i] = c}

\* No connection is lost or served twice: one that a client has made and the
\* server has not closed either is the one being served or waits, in exactly
\* one place, to be accepted, and none but these is served or waits (accept
\* and close of tcpserver.cc, and the exits that end the process in between).
NoConnectionLost ==
  \A c \in Conns :
    /\ \A i, k \in Waiting(c) : i = k
    /\ Waiting(c) # {} => c # conn
    /\ Waiting(c) # {} \/ c = conn => ~closed[c] /\ phase[c] # "idle"
    /\ ~closed[c] /\ (phase[c] \notin {"idle", "gone"} \/ stream[c] # <<>>)
         => c = conn \/ Waiting(c) # {}

\* What getMessage returns begins with the request whenever all of it had
\* arrived, and is the request when nothing else had and no earlier request
\* reached further into the buffer, which is never cleared (tcpserver.cc
\* getMessage).
FaithfulText ==
  \A c \in Conns :
    LET request == Request(c)
        alone == seen[c].cut = Len(request) /\ Len(request) < BufSize
    IN  /\ seen[c].cut >= Len(request) /\ Len(request) <= BufSize
             => IsPrefix(request, seen[c].text)
        /\ alone /\ seen[c].high <= seen[c].cut => seen[c].text = request

\* A client whose whole request has arrived never makes deserialize end the
\* process, whatever follows the request in the buffer (message.cc
\* deserialize as chunkMain calls it).
RequestNeverKills ==
  pc = "decode" /\ seen[conn].cut >= Len(Request(conn))
                /\ Len(Request(conn)) <= BufSize
    => Deserializes(seen[conn].text)

\* A file holds one unbroken piece of what its uploader sent, from the first
\* unit after those getMessage took, at any time: during the upload, after a
\* write that failed, and after the process has ended half way (chunkserver.cc
\* uploadFile).  Of an upload of the same name before it nothing is left, which
\* is what the code does; the comment at chunkserver.cc:125 says otherwise, and
\* UploadsAppend of MCChunkServer is what it says.
StoredIsClientData ==
  \A name \in DOMAIN disk :
    LET file == disk[name]
        from == seen[file.by].cut
    IN  /\ from + Len(file.data) <= taken[file.by]
        /\ file.data = SubSeq(stream[file.by], from + 1, from + Len(file.data))

\* An upload that ends before its third read, on a working disk, has stored
\* everything the client sent after the part getMessage took (chunkserver.cc
\* uploadFile, its break and its close).
UploadComplete ==
  pc = "close" /\ clientMessage.mtype = "UPLOAD" /\ round < Rounds /\ ~bad
    => /\ EndOfStream(conn)
       /\ disk[clientMessage.remoteFileName].data =
            SubSeq(stream[conn], seen[conn].cut + 1, Len(stream[conn]))

\* What a client has sent and the server has not read; what it read for the
\* upload; whose upload runs.
UnreadOf(c) == SubSeq(stream[c], taken[c] + 1, Len(stream[c]))
ReceivedOf(c) == SubSeq(stream[c], seen[c].cut + 1, taken[c])
Writer == IF pc \in {"receive", "finish"} THEN conn ELSE NoConn

Store == INSTANCE ChunkStore WITH
  Client <- Conns, None <- NoConn, Faults <- DiskFaults, Exits <- MasterExits,
  unread <- [c \in Conns |-> UnreadOf(c)],
  received <- [c \in Conns |-> ReceivedOf(c)],
  writer <- Writer, failed <- bad, files <- disk

\* The chunk server implements ChunkStore: seen from its files, all that goes
\* on with buffers, short reads, faults and restarts is that uploads begin,
\* receive, and finish or are broken off (chunkserver.cc uploadFile).
ImplementsStore == Store!Spec

\* Every client that connects is served or cut off in the end, and the server
\* closes its connection: no step of the loop of chunkMain waits for ever.
EveryClientEnds ==
  \A c \in Conns : phase[c] = "connected" ~> phase[c] = "gone" /\ closed[c]
=============================================================================
