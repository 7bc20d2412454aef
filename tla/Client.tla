------------------------------- MODULE Client -------------------------------
(***************************************************************************)
(* The command line client (simplehdfsclient.cc) on its one connection to  *)
(* the master and on a connection per command to a chunk server.           *)
(*                                                                         *)
(* A command is sent to the master, which answers with the address of a    *)
(* chunk server; the command is then sent again, to that address.  The     *)
(* replies of the master come on a stream and are read into a buffer that  *)
(* is never cleared.  What waits at the other ends is not a part of the    *)
(* client: the chunk server is modelled in ChunkServer, and the master of  *)
(* today answers only in a comment (master.cc), where it answers as here.  *)
(***************************************************************************)
EXTENDS Message, CharBuffer

CONSTANTS
  Line,         \* what the user may type
  Address,      \* the messages with an address that the master may send
  Digits,       \* the pieces that are made of digits
  MaxDigits,    \* stoi throws for a number of more pieces
  MaxBlocks,    \* bound: the blocks of a file
  MaxCommands   \* bound: the commands that go to the master

ASSUME LineAssumption == Line \subseteq Seq(Part \cup Verb \cup {Sep})

ASSUME AddressAssumption ==
  \A m \in Address : /\ m \in Message /\ m.mtype = "CSDISCOVER"
                     /\ m.chunkServerHostName # <<>>
                     /\ m.chunkServerPortNum # <<>>

ASSUME BoundAssumption ==
  /\ Digits \subseteq Part /\ Nul \notin Part \cup Verb \cup {Sep}
  /\ {BufSize, MaxDigits} \subseteq Nat \ {0}
  /\ {MaxBlocks, MaxCommands} \subseteq Nat

VARIABLES
  pc,        \* where the client is
  master,    \* the master's end: "absent", "open", "closed", or "reset" once
             \* something was sent to it after it had closed
  answers,   \* the addresses the master has sent, first to last (history)
  stream,    \* every unit of them
  asked,     \* how many commands were sent to the master
  taken,     \* how many units of the master's stream were read
  from,      \* taken before the last read (history)
  command,   \* msgObj: the command that is carried out
  buffer,    \* TCPClient::buffer of the connection to the master
  high,      \* highest cell of buffer written before the last read (history)
  text,      \* replyString
  msg,       \* the message in it
  open,      \* the connection to the chunk server was made
  left,      \* the blocks of the file that were not sent
  sent       \* what was sent to the chunk server

masterVars == <<master, answers, stream, asked>>
readVars == <<taken, from, buffer, high, text>>
chunkVars == <<open, left, sent>>
vars == <<pc, masterVars, readVars, command, msg, chunkVars>>

NoMessage == EmptyMessage("INVALID")

Init ==
  /\ pc = "start"
  /\ master = "absent"
  /\ answers = <<>> /\ stream = <<>> /\ asked = 0
  /\ taken = 0 /\ from = 0
  /\ command = NoMessage
  /\ buffer = NewBuffer /\ high = 0
  /\ text = <<>>
  /\ msg = NoMessage
  /\ open = FALSE /\ left = 0 /\ sent = <<>>

-----------------------------------------------------------------------------
(***************************************************************************)
(* The command loop                                                        *)
(***************************************************************************)

\* The result of connectToServer is ignored.
ConnectToMaster ==
  /\ pc = "start"
  /\ master' \in {"absent", "open"}
  /\ pc' = "prompt"
  /\ UNCHANGED <<answers, stream, asked, readVars, command, msg, chunkVars>>

\* The message in a text, if deserialize returns.
Deserialized(string) == IF Deserializes(string) THEN {deserialize(string)} ELSE {}

\* An empty line, or the end of the input, ends the client in deserialize, and
\* so does a command without its names, or exit.
TypeEnds ==
  /\ pc = "prompt"
  /\ \E line \in Line : \A m \in Deserialized(line) : m.mtype = "EXIT"
  /\ pc' = "gone"
  /\ UNCHANGED <<masterVars, readVars, command, msg, chunkVars>>

Forwarded == {"READ", "UPLOAD", "DOWNLOAD"}

\* Other commands print, or do nothing.
Type ==
  /\ pc = "prompt"
  /\ \E line \in Line : \E m \in Deserialized(line) :
       m.mtype # "EXIT" /\ command' = m
  /\ IF command'.mtype \in Forwarded
     THEN asked < MaxCommands /\ pc' = "ask"
     ELSE UNCHANGED pc
  /\ UNCHANGED <<masterVars, readVars, msg, chunkVars>>

\* Mutant of Request: the names of a download in the other order.
RequestSwapped ==
  serialize(IF command.mtype = "DOWNLOAD"
            THEN [command EXCEPT !.remoteFileName = command.localFileName,
                                 !.localFileName = command.remoteFileName]
            ELSE command)

\* createReadMessage, createUploadMessage and createDownloadMessage.
Request == serialize(command)

\* The result of send is ignored.
Ask ==
  /\ pc = "ask" /\ master # "absent"
  /\ asked' = asked + 1
  /\ master' = IF master = "closed" THEN "reset" ELSE master
  /\ pc' = "answer"
  /\ UNCHANGED <<answers, stream, readVars, command, msg, chunkVars>>

\* SIGPIPE: the socket was never connected, or was reset.
AskEnds ==
  /\ pc = "ask" /\ master \in {"absent", "reset"}
  /\ pc' = "gone"
  /\ UNCHANGED <<masterVars, readVars, command, msg, chunkVars>>

-----------------------------------------------------------------------------
(***************************************************************************)
(* The master's answer: readMessage                                        *)
(***************************************************************************)

Unread == Len(stream) - taken

\* Mutant of ReadAnswer: the NUL behind a read is put on its last unit.
ReadAnswerTerminated ==
  /\ pc = "answer"
  /\ \E n \in 0..BufSize :
       /\ n <= Unread /\ (n = 0 => Unread = 0 /\ master \in {"closed", "reset"})
       /\ buffer' = [i \in 1..BufSize |->
                      IF i = n THEN Nul ELSE Overwritten(buffer, stream, taken, n)[i]]
       /\ text' \in CStrings(buffer')
       /\ taken' = taken + n
       /\ from' = taken
       /\ high' = IF taken - from > high THEN taken - from ELSE high
  /\ pc' = IF text' = <<>> THEN "prompt" ELSE "decode"
  /\ UNCHANGED <<masterVars, command, msg, chunkVars>>

\* One read returns any number of the units that have come, or 0 when the
\* master has closed; whatever it returns, the string is made of the buffer.
ReadAnswer ==
  /\ pc = "answer"
  /\ \E n \in 0..BufSize :
       /\ n <= Unread /\ (n = 0 => Unread = 0 /\ master \in {"closed", "reset"})
       /\ buffer' = Overwritten(buffer, stream, taken, n)
       /\ text' \in CStrings(Overwritten(buffer, stream, taken, n))
       /\ taken' = taken + n
       /\ from' = taken
       /\ high' = IF taken - from > high THEN taken - from ELSE high
  /\ pc' = IF text' = <<>> THEN "prompt" ELSE "decode"
  /\ UNCHANGED <<masterVars, command, msg, chunkVars>>

\* The master closed with a command unread, which resets the connection.
ReadAnswerFails ==
  /\ pc = "answer" /\ Unread = 0
  /\ master = "closed" /\ Len(answers) < asked
  /\ pc' = "gone"
  /\ UNCHANGED <<masterVars, readVars, command, msg, chunkVars>>

-----------------------------------------------------------------------------
(***************************************************************************)
(* The chunk server                                                        *)
(***************************************************************************)

\* stoi takes the digits a text begins with, and throws if there are none or
\* too many.
LeadingDigits(port) ==
  SubSeq(port, 1, Min({i \in 0..Len(port) : i = Len(port) \/ port[i + 1] \notin Digits}))

AddressIn(m) == <<m.chunkServerHostName, LeadingDigits(m.chunkServerPortNum)>>

Usable(m) == Len(LeadingDigits(m.chunkServerPortNum)) \in 1..MaxDigits

\* deserialize or stoi end the client.
DecodeEnds ==
  /\ pc = "decode"
  /\ \A m \in Deserialized(text) : ~Usable(m)
  /\ pc' = "gone"
  /\ UNCHANGED <<masterVars, readVars, command, msg, chunkVars>>

\* Whether a connection was made is not looked at; a file that cannot be
\* opened has no blocks.
ConnectToChunkServer ==
  /\ pc = "decode"
  /\ \E m \in Deserialized(text) : Usable(m) /\ msg' = m
  /\ open' \in BOOLEAN
  /\ left' \in IF command.mtype = "UPLOAD" THEN 0..MaxBlocks ELSE {0}
  /\ pc' = "request"
  /\ UNCHANGED <<masterVars, readVars, command, sent>>

\* SIGPIPE on a socket that is not connected.
SendRequestEnds ==
  /\ pc = "request" /\ ~open
  /\ pc' = "gone"
  /\ UNCHANGED <<masterVars, readVars, command, msg, chunkVars>>

\* The loop of downloadFile breaks at once.
SendRequest ==
  /\ pc = "request" /\ open
  /\ sent' = Request
  /\ pc' = CASE command.mtype = "UPLOAD" -> "blocks"
             [] command.mtype = "READ" -> "reply"
             [] command.mtype = "DOWNLOAD" -> "close"
  /\ UNCHANGED <<masterVars, readVars, command, msg, open, left>>

\* Mutant of SendBlock: a read of no bytes is sent, too.
SendEmptyBlock ==
  /\ pc = "blocks"
  /\ left' = left - 1
  /\ UNCHANGED <<pc, masterVars, readVars, command, msg, open, sent>>

\* send waits as long as the chunk server reads nothing and its queue is full,
\* which is for ever if that server waits for another client.
SendBlock ==
  /\ pc = "blocks"
  /\ left > 0
  /\ left' = left - 1
  /\ UNCHANGED <<pc, masterVars, readVars, command, msg, open, sent>>

\* Mutant of FinishedUploading: the loop goes on at the end of the file.
UploadingGoesOn ==
  /\ pc = "blocks" /\ left = 0
  /\ UNCHANGED vars

FinishedUploading ==
  /\ pc = "blocks" /\ left = 0
  /\ pc' = "close"
  /\ UNCHANGED <<masterVars, readVars, command, msg, chunkVars>>

\* SIGPIPE at a block, or a read error: the chunk server has gone.
ChunkServerLost ==
  /\ pc = "reply" \/ (pc = "blocks" /\ left > 0)
  /\ pc' = "gone"
  /\ UNCHANGED <<masterVars, readVars, command, msg, chunkVars>>

\* The reply is printed, whatever it is.
ReadReply ==
  /\ pc = "reply"
  /\ pc' = "close"
  /\ UNCHANGED <<masterVars, readVars, command, msg, chunkVars>>

CloseConnection ==
  /\ pc = "close"
  /\ msg' = NoMessage
  /\ open' = FALSE /\ sent' = <<>> /\ UNCHANGED left
  /\ pc' = "prompt"
  /\ UNCHANGED <<masterVars, readVars, command>>

-----------------------------------------------------------------------------
(***************************************************************************)
(* The master                                                              *)
(***************************************************************************)

MasterAnswers ==
  /\ master = "open" /\ Len(answers) < asked
  /\ \E m \in Address : /\ answers' = Append(answers, m)
                        /\ stream' = stream \o serialize(m)
  /\ UNCHANGED <<pc, master, asked, readVars, command, msg, chunkVars>>

MasterCloses ==
  /\ master = "open"
  /\ master' = "closed"
  /\ UNCHANGED <<pc, answers, stream, asked, readVars, command, msg, chunkVars>>

\* The steps that wait for nobody: not the user, nor a reply, nor a chunk server
\* that has to take a block.
Runs ==
  \/ ConnectToMaster \/ Ask \/ AskEnds \/ ReadAnswer \/ ReadAnswerFails
  \/ DecodeEnds \/ ConnectToChunkServer \/ SendRequestEnds \/ SendRequest
  \/ FinishedUploading \/ CloseConnection

Next == \/ Runs \/ Type \/ TypeEnds \/ SendBlock \/ ChunkServerLost \/ ReadReply
        \/ MasterAnswers \/ MasterCloses

Spec == Init /\ [][Next]_vars

\* The client runs on; nobody has to type, to answer, to take a block or to
\* close.
FairSpec == Spec /\ WF_vars(Runs)

-----------------------------------------------------------------------------
(***************************************************************************)
(* Properties                                                              *)
(***************************************************************************)

Unit == Part \cup Verb \cup {Sep, Nul, Junk}

\* Type correctness: the variables of the command loop and of both
\* connections keep their types, and no more is read than was sent.
TypeOK ==
  /\ pc \in {"start", "prompt", "ask", "answer", "decode", "request", "blocks",
             "reply", "close", "gone"}
  /\ master \in {"absent", "open", "closed", "reset"}
  /\ answers \in Seq(Address) /\ stream \in Seq(Unit)
  /\ asked \in 0..MaxCommands
  /\ taken \in 0..Len(stream) /\ from \in 0..taken
  /\ command \in MessageOver(Unit) /\ msg \in MessageOver(Unit)
  /\ buffer \in [1..BufSize -> Unit]
  /\ high \in 0..BufSize
  /\ text \in Seq(Unit)
  /\ open \in BOOLEAN
  /\ left \in 0..MaxBlocks
  /\ sent \in Seq(Unit)
  /\ pc \in {"request", "blocks", "reply", "close"} => Usable(msg)

\* A command goes to the chunk server that the master named for it whenever the
\* read returned that answer whole and alone, and no read before reached
\* further into the buffer, which is never cleared (simplehdfsclient.cc
\* readMessage).
AnswerIsForCommand ==
  pc \in {"request", "blocks", "reply", "close"}
    /\ Len(answers) = asked /\ taken = Len(stream)
    /\ taken - from = Len(serialize(answers[asked]))
    /\ high <= taken - from /\ taken - from < BufSize
    => AddressIn(msg) = AddressIn(answers[asked])

\* What a chunk server is sent is read there as the command that was typed,
\* with the separators where the user left them (createReadMessage,
\* createUploadMessage and createDownloadMessage, and deserialize).
CommandArrivesAsTyped ==
  pc \in {"blocks", "reply", "close"} =>
    Deserializes(sent) /\ deserialize(sent) = command

\* A master that has closed is seen: the three handlers print "Server
\* connection closed." and go back to the prompt (simplehdfsclient.cc:142-143,
\* 185-186, 220-221), so no text is decoded after a read of nothing.
ClosedIsSeen == pc = "decode" => taken > from

\* A command ends, with the client or back at the prompt, unless the master or
\* the chunk server keeps silent, or the chunk server takes no more blocks: the
\* client has no timeout (uploadFile, downloadFile and readFile).
EveryCommandEnds ==
  []<>(\/ pc \in {"prompt", "gone", "reply"}
       \/ pc = "answer" /\ master = "open" /\ Unread = 0
       \/ pc = "blocks" /\ left > 0)
=============================================================================
