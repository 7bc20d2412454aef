--------------------------- MODULE MCChunkServer ---------------------------
(***************************************************************************)
(* Instances of ChunkServer for TLC, and what the repository says of the   *)
(* chunk server that its code does not do.                                 *)
(***************************************************************************)
EXTENDS ChunkServer

CONSTANTS p1, p2, d1, d2

Read(name) ==
  [req |-> [EmptyMessage("READ") EXCEPT !.remoteFileName = name],
   content |-> <<>>]

Upload(name, content) ==
  [req |-> [EmptyMessage("UPLOAD") EXCEPT !.remoteFileName = name],
   content |-> content]

Download(name) ==
  [req |-> [EmptyMessage("DOWNLOAD") EXCEPT !.remoteFileName = name,
                                            !.localFileName = name],
   content |-> <<>>]

\* Two uploads of one name, of which one fits three reads of one unit.
SameNameJobs == {Upload(<<p1>>, <<d1, d2, d1, d1>>), Upload(<<p1>>, <<d2, d2>>),
                 Read(<<p1>>)}

\* Requests of different lengths: the shorter is read over the longer.
StaleJobs == {Read(<<p1>>), Upload(<<p1, p2>>, <<d1, d2>>), Download(<<p2>>)}

\* A few short jobs.
ShortJobs == {Read(<<p1>>), Upload(<<p1>>, <<d1, d2, d1>>)}

\* Connections differ in their job only, which is a part of the state.
Symmetry == Permutations(Conns)

-----------------------------------------------------------------------------
(***************************************************************************)
(* What the repository says and the code does not do                       *)
(***************************************************************************)

\* "After a connection is accepted, see what message it is requesting. Based
\* on that message, do the processing." (chunkserver.cc:53-54): a request
\* that arrived whole, with nothing behind it, is the one that is served.
RequestHonoured ==
  pc = "serve" /\ seen[conn].cut = Len(Request(conn))
               /\ Len(Request(conn)) < BufSize
    => clientMessage = deserialize(Request(conn))

\* "Zero length string returned. Terminating client connection."
\* (chunkserver.cc:67): a client that closes without a request costs its own
\* connection and nothing else.
EmptyEndsConnectionOnly ==
  [][pc = "decode" /\ seen[conn].text = <<>> => alive']_vars

\* "all we do is store it as it is received in the file" (tcpserver.cc:107):
\* an upload whose request arrived alone leaves all the content in the file.
StoredAsReceived ==
  pc = "close" /\ clientMessage.mtype = "UPLOAD" /\ ~bad
               /\ seen[conn].cut = Len(Request(conn))
               /\ phase[conn] = "gone" /\ Sent(conn) = Len(job[conn].content)
    => disk[clientMessage.remoteFileName].data = job[conn].content

\* "currently only append to the file; later support inserts"
\* (chunkserver.cc:125-126): whatever is uploaded, a file keeps what it held
\* and may get more behind it.
UploadsAppend ==
  [][\A name \in DOMAIN disk :
       /\ name \in DOMAIN disk'
       /\ IsPrefix(disk[name].data, disk'[name].data)]_vars
=============================================================================
