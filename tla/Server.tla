------------------------------- MODULE Server -------------------------------
(***************************************************************************)
(* The server process (master.cc): the master's thread and the thread of   *)
(* the chunk server that serverMain starts.  They share nothing but the    *)
(* process: exit in one of them, or an exception, ends the other one at    *)
(* whatever point it is.                                                   *)
(*                                                                         *)
(* The master's names are those of Master; those of the chunk server are   *)
(* behind Chunk.                                                           *)
(***************************************************************************)
EXTENDS Master

CONSTANTS Sep, Part, Nul, Junk, BufSize, Conns, NoConn, Job, Data, Called,
          BlockSize, DiskFaults

\* Both threads are there, so that an exit of either ends the other.
ASSUME ProcessAssumption == OthersExit = TRUE

VARIABLES csJob, csPhase, csStream, csBacklog, csClosed, csTaken, csReply,
          csListening, csPc, csConn, csMessage, csBuffer, csHigh, csRound,
          csFout, csBad, csDisk, csSeen

Chunk == INSTANCE ChunkServer WITH
  MasterExits <- TRUE,
  job <- csJob, phase <- csPhase, stream <- csStream, backlog <- csBacklog,
  closed <- csClosed, taken <- csTaken, reply <- csReply,
  listening <- csListening, pc <- csPc, conn <- csConn,
  clientMessage <- csMessage, buffer <- csBuffer, high <- csHigh,
  round <- csRound, fout <- csFout, bad <- csBad, disk <- csDisk,
  seen <- csSeen

\* The constants of the chunk server are as ChunkServer assumes.
ASSUME ChunkAssumption ==
  /\ Chunk!PieceAssumption /\ Chunk!ConnAssumption /\ Chunk!SizeAssumption
  /\ Chunk!UnitAssumption /\ Chunk!SwitchAssumption /\ Chunk!JobAssumption

masterVars == <<clientVars, readerVars, messageVars, backlog, closed, listening,
                pc, conn, connectionHeaderRead, dispatched>>
chunkVars == <<csJob, csPhase, csStream, csBacklog, csClosed, csTaken, csReply,
               csListening, csPc, csConn, csMessage, csBuffer, csHigh, csRound,
               csFout, csBad, csDisk, csSeen>>
serverProcessVars == <<masterVars, chunkVars, alive>>

ServerInit == Init /\ Chunk!Init

\* A step of one thread, or of its clients, that leaves the process alive.
MasterThread == MasterStep /\ alive' /\ UNCHANGED chunkVars
ChunkThread == Chunk!ServerStep /\ alive' /\ UNCHANGED masterVars

RpcClient ==
  \E c \in Peers :
    /\ \/ ClientConnect(c) \/ ClientSendPreamble(c) \/ ClientSendCall(c)
       \/ ClientLeave(c) \/ ClientBreak(c)
    /\ UNCHANGED chunkVars

FileClient ==
  \E c \in Conns :
    /\ \/ Chunk!ClientConnect(c) \/ Chunk!ClientRefused(c)
       \/ Chunk!ClientStep(c) \/ Chunk!ClientAbort(c)
    /\ UNCHANGED masterVars

\* exit in the master's thread.
MasterExits == (ReadSizeExits \/ DispatchExits) /\ Chunk!ExitElsewhere

\* exit or an exception in the chunk server's thread.
ChunkExits == (Chunk!DecodeEnds \/ Chunk!FolderFails) /\ ExitElsewhere

\* exit in either thread for its socket.
SocketExits ==
  \/ SocketFails /\ Chunk!ExitElsewhere
  \/ Chunk!SocketFails /\ ExitElsewhere

ProcessRestart == Restart /\ Chunk!Restart

ServerNext ==
  \/ MasterThread \/ ChunkThread \/ MasterExits \/ ChunkExits \/ SocketExits
  \/ ProcessRestart \/ RpcClient \/ FileClient

\* The master's thread runs on while the process lives, whether or not the
\* other thread does anything.  No socket has to fail.
ServerSpec ==
  /\ ServerInit /\ [][ServerNext]_serverProcessVars
  /\ WF_serverProcessVars(MasterThread \/ MasterExits)

-----------------------------------------------------------------------------
(***************************************************************************)
(* Properties                                                              *)
(***************************************************************************)

\* The process ends only for a client that did not keep to its protocol, or
\* for a system call that failed: an RPC client whose call is reserved, not
\* plain or broken off, a file client whose request was not read whole, a folder
\* that cannot be made, or a listen or an accept that fails, which either thread
\* calls only while it has no connection.
ProcessEndsForCause ==
  [][alive /\ ~alive' =>
       \/ conn # NoPeer /\ phase[conn] = "broken"
       \/ conn # NoPeer /\ \E i \in 1..Len(starts[conn]) :
            ~Plain(script[conn][i]) \/ script[conn][i].id \in Reserved
       \/ csConn # NoConn /\ csSeen[csConn].cut < Len(Chunk!Request(csConn))
       \/ csPc = "serve" /\ DiskFaults
       \/ SocketFaults /\ (conn = NoPeer \/ csConn = NoConn)]_serverProcessVars
=============================================================================
