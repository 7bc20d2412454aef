------------------------------- MODULE Master -------------------------------
(***************************************************************************)
(* The master (master.cc): an RPC listener that reads Hadoop's protocol    *)
(* from a socket with SimpleReader (simplerw.cc, socketbuf.cc).            *)
(*                                                                         *)
(* A client sends a preamble of seven bytes and then frames: a length of   *)
(* four bytes, a header that names the call, and what belongs to the call. *)
(* Messages are delimited: a size and that many bytes.  The master answers *)
(* nothing.  Bytes are numbers, since a reader that has lost its place     *)
(* takes the bytes of one field for those of another.                      *)
(***************************************************************************)
EXTENDS Integers, Sequences

CONSTANTS
  Peers,       \* the connections of RPC clients
  NoPeer,      \* "no connection was accepted"
  Script,      \* what clients may call: sequences of calls
  CallId,      \* the call ids a header may carry
  NoCall,      \* a header without a call id
  CallOf(_),   \* the call id that ParseFromArray finds in the bytes of a header
  Limit,       \* 128: a size from here on takes more than one byte
  Backlog,     \* 3: the argument of listen
  SocketFaults, \* TRUE: listen, accept and what is before them may fail
  OthersExit   \* TRUE: the chunk server's thread may end the process

ASSUME PeerAssumption == NoPeer \notin Peers

ASSUME CallAssumption == CallId \subseteq Int /\ NoCall \notin Int

ASSUME LimitAssumption ==
  /\ Limit \in Nat \ {0} /\ Backlog \in Nat \ {0}
  /\ SocketFaults \in BOOLEAN /\ OthersExit \in BOOLEAN

\* The header of a call is what its id is read from.
ASSUME ScriptAssumption ==
  \A s \in Script : s \in Seq([id : CallId, header : Seq(Nat), rest : Seq(Nat)])
                    /\ \A i \in 1..Len(s) : CallOf(s[i].header) = s[i].id

AUTHORIZATION_FAILED_CALL_ID == -1
INVALID_CALL_ID == -2
CONNECTION_CONTEXT_CALL_ID == -3
PING_CALL_ID == -4

\* Call ids that end the process.
Reserved == {AUTHORIZATION_FAILED_CALL_ID, INVALID_CALL_ID, PING_CALL_ID}

\* The sizes of what is read without a size before it.
PreambleSize == 7
LengthSize == 4

VARIABLES
  script,      \* script[c]: the calls of client c
  phase,       \* phase[c]: how far client c is
  stream,      \* stream[c]: every byte client c has sent
  starts,      \* starts[c]: where the frames begin that c has sent whole (history)
  backlog,     \* connections that wait to be accepted
  closed,      \* closed[c]: the server's end of c is closed
  taken,       \* taken[c]: how many bytes of stream[c] were read
  alive,       \* the process runs
  listening,   \* listen was called since the process started
  pc,          \* where the master's thread is
  conn,        \* the connection behind sockBuf
  connectionHeaderRead,
  eof,         \* the eofbit of the reader's stream
  part,        \* which message readDelimitedFrom reads
  size,        \* its msgSize
  callid,      \* the call id of requestHeaderPB
  dispatched   \* dispatched[c]: the call ids acted upon (history)

clientVars == <<script, phase, stream, starts>>
readerVars == <<taken, eof>>
messageVars == <<part, size, callid>>
vars == <<clientVars, readerVars, messageVars, backlog, closed, alive, listening,
          pc, conn, connectionHeaderRead, dispatched>>

-----------------------------------------------------------------------------
(***************************************************************************)
(* What clients send                                                       *)
(***************************************************************************)

Preamble == [i \in 1..PreambleSize |-> 0]

\* A size in protobuf's variable length, of one or two bytes.
Varint(n) == IF n < Limit THEN <<n>> ELSE <<Limit + (n % Limit), n \div Limit>>

Frame(call) ==
  LET text == Varint(Len(call.header)) \o call.header \o call.rest
  IN  <<0, 0, 0, Len(text)>> \o text

Gone(c) == phase[c] \in {"left", "broken"}

Init ==
  /\ script \in [Peers -> Script]
  /\ phase = [c \in Peers |-> "idle"]
  /\ stream = [c \in Peers |-> <<>>]
  /\ starts = [c \in Peers |-> <<>>]
  /\ backlog = <<>>
  /\ closed = [c \in Peers |-> FALSE]
  /\ taken = [c \in Peers |-> 0]
  /\ alive = TRUE
  /\ listening = FALSE
  /\ pc = "top"
  /\ conn = NoPeer
  /\ connectionHeaderRead = FALSE
  /\ eof = FALSE
  /\ part = "header"
  /\ size = 0
  /\ callid = NoCall
  /\ dispatched = [c \in Peers |-> <<>>]

-----------------------------------------------------------------------------
(***************************************************************************)
(* Reading, and the end of the process                                     *)
(***************************************************************************)

\* n bytes have arrived, or the stream ends before them.
Available(n) == ~eof /\ taken[conn] + n <= Len(stream[conn])
CutShort(n) == ~eof /\ Gone(conn) /\ taken[conn] + n > Len(stream[conn])

\* A read of n bytes: nothing once the end was seen, n bytes, or what is left.
Read(n) ==
  \/ eof /\ UNCHANGED readerVars
  \/ Available(n) /\ taken' = [taken EXCEPT ![conn] = @ + n] /\ UNCHANGED eof
  \/ CutShort(n) /\ taken' = [taken EXCEPT ![conn] = Len(stream[conn])] /\ eof' = TRUE

\* The call id of the header that these bytes are parsed to, if it has one.
ParsedId(text) == IF CallOf(text) \in CallId THEN CallOf(text) ELSE NoCall

\* The bytes that a read of n returns.
Upcoming(n) == SubSeq(stream[conn], taken[conn] + 1, taken[conn] + n)

\* exit: the kernel closes the sockets and resets connections that wait.
Die ==
  /\ alive' = FALSE
  /\ listening' = FALSE
  /\ closed' = [c \in Peers |->
                  closed[c] \/ c = conn \/ \E i \in DOMAIN backlog : backlog[i] = c]
  /\ backlog' = <<>>
  /\ pc' = "top"
  /\ conn' = NoPeer
  /\ connectionHeaderRead' = FALSE
  /\ eof' = FALSE
  /\ part' = "header" /\ size' = 0 /\ callid' = NoCall
  /\ UNCHANGED <<clientVars, taken, dispatched>>

-----------------------------------------------------------------------------
(***************************************************************************)
(* The master's thread: serverMain                                         *)
(***************************************************************************)

Listen ==
  /\ alive /\ pc = "top" /\ ~connectionHeaderRead
  /\ listening' = TRUE
  /\ pc' = "accept"
  /\ UNCHANGED <<clientVars, readerVars, messageVars, backlog, closed, alive, conn,
                 connectionHeaderRead, dispatched>>

AcceptClientConnection ==
  /\ alive /\ pc = "accept"
  /\ backlog # <<>>
  /\ conn' = Head(backlog)
  /\ backlog' = Tail(backlog)
  /\ eof' = FALSE
  /\ pc' = "preamble"
  /\ UNCHANGED <<clientVars, messageVars, closed, taken, alive, listening,
                 connectionHeaderRead, dispatched>>

\* exit, for a listen or an accept that fails; before the first listen, for a
\* socket that cannot be made or bound.
SocketFails ==
  /\ alive /\ (pc = "accept" \/ (pc = "top" /\ ~connectionHeaderRead))
  /\ SocketFaults
  /\ Die

\* Mutant of GetHeader: the flag is not set.
GetHeaderForgets ==
  /\ alive /\ pc = "preamble"
  /\ Read(PreambleSize)
  /\ pc' = "top"
  /\ UNCHANGED <<clientVars, messageVars, backlog, closed, alive, listening, conn,
                 connectionHeaderRead, dispatched>>

\* The four fields of the connection header are printed.
GetHeader ==
  /\ alive /\ pc = "preamble"
  /\ Read(PreambleSize)
  /\ connectionHeaderRead' = TRUE
  /\ pc' = "top"
  /\ UNCHANGED <<clientVars, messageVars, backlog, closed, alive, listening, conn,
                 dispatched>>

\* The length is printed and not used.
ReadLength ==
  /\ alive /\ pc = "top" /\ connectionHeaderRead
  /\ Read(LengthSize)
  /\ part' = "header" /\ size' = 0 /\ callid' = NoCall
  /\ pc' = "size"
  /\ UNCHANGED <<clientVars, backlog, closed, alive, listening, conn,
                 connectionHeaderRead, dispatched>>

\* readVarint32 as readDelimitedFrom calls it.  If the end is found here, the
\* byte was never set and has any value.
ReadSize ==
  /\ alive /\ pc = "size"
  /\ \/ eof /\ size' = 0
     \/ Available(1) /\ Upcoming(1)[1] < Limit /\ size' = Upcoming(1)[1]
     \/ CutShort(1) /\ size' \in {0, 1}
  /\ Read(1)
  /\ pc' = "body"
  /\ UNCHANGED <<clientVars, part, callid, backlog, closed, alive, listening, conn,
                 connectionHeaderRead, dispatched>>

\* "Unsupported varint32 encoding": exit.
ReadSizeExits ==
  /\ alive /\ pc = "size"
  /\ \/ Available(1) /\ Upcoming(1)[1] >= Limit
     \/ CutShort(1)
  /\ Die

\* The rest of readDelimitedFrom.  What was not read of the array that is
\* parsed has any value, and so has then what the parse finds.
ReadBody ==
  /\ alive /\ pc = "body"
  /\ IF size = 0 THEN UNCHANGED readerVars ELSE Read(size)
  /\ CASE part # "header" -> UNCHANGED callid
       [] part = "header" /\ size = 0 -> callid' = NoCall
       [] part = "header" /\ size > 0 ->
            \/ Available(size) /\ callid' = ParsedId(Upcoming(size))
            \/ (eof \/ CutShort(size)) /\ callid' \in CallId \cup {NoCall}
  /\ pc' = IF part = "header" THEN "dispatch" ELSE "top"
  /\ UNCHANGED <<clientVars, part, size, backlog, closed, alive, listening, conn,
                 connectionHeaderRead, dispatched>>

Dispatched == [dispatched EXCEPT ![conn] = Append(@, callid)]

\* Mutant of DispatchExits: every negative id is reserved.
DispatchExitsIfNegative ==
  /\ alive /\ pc = "dispatch" /\ callid # NoCall /\ callid < 0
  /\ Die

\* exit for a reserved call id.
DispatchExits ==
  /\ alive /\ pc = "dispatch" /\ callid \in Reserved
  /\ Die

\* Mutant of DispatchMessage: the connection context is not read.
DispatchWithoutContext ==
  /\ alive /\ pc = "dispatch" /\ callid # NoCall
  /\ callid = CONNECTION_CONTEXT_CALL_ID \/ callid >= 0
  /\ dispatched' = Dispatched
  /\ part' = "request"
  /\ pc' = IF callid = CONNECTION_CONTEXT_CALL_ID THEN "top" ELSE "size"
  /\ UNCHANGED <<clientVars, readerVars, size, callid, backlog, closed, alive,
                 listening, conn, connectionHeaderRead>>

\* The connection context and an RPC request have a second message.
DispatchMessage ==
  /\ alive /\ pc = "dispatch" /\ callid # NoCall
  /\ callid = CONNECTION_CONTEXT_CALL_ID \/ callid >= 0
  /\ dispatched' = Dispatched
  /\ part' = IF callid >= 0 THEN "request" ELSE "context"
  /\ pc' = "size"
  /\ UNCHANGED <<clientVars, readerVars, size, callid, backlog, closed, alive,
                 listening, conn, connectionHeaderRead>>

\* Other negative ids are printed; a header without an id is not a call.
DispatchOther ==
  /\ alive /\ pc = "dispatch"
  /\ \/ callid = NoCall /\ UNCHANGED dispatched
     \/ callid # NoCall /\ callid < PING_CALL_ID /\ dispatched' = Dispatched
  /\ pc' = "top"
  /\ UNCHANGED <<clientVars, readerVars, messageVars, backlog, closed, alive,
                 listening, conn, connectionHeaderRead>>

\* The chunk server's thread ends the process (message.cc deserialize).
ExitElsewhere ==
  /\ alive /\ OthersExit
  /\ Die

Restart ==
  /\ ~alive
  /\ alive' = TRUE
  /\ UNCHANGED <<clientVars, readerVars, messageVars, backlog, closed, listening,
                 pc, conn, connectionHeaderRead, dispatched>>

MasterStep ==
  \/ Listen \/ AcceptClientConnection \/ GetHeader \/ ReadLength \/ ReadSize
  \/ ReadSizeExits \/ ReadBody \/ DispatchExits \/ DispatchMessage \/ DispatchOther

-----------------------------------------------------------------------------
(***************************************************************************)
(* The clients.  They belong to Hadoop: what they send is known from what  *)
(* serverMain reads.                                                       *)
(***************************************************************************)

serverVars == <<readerVars, messageVars, closed, alive, listening, pc, conn,
                connectionHeaderRead, dispatched>>

ClientConnect(c) ==
  /\ phase[c] = "idle" /\ listening /\ Len(backlog) < Backlog
  /\ backlog' = Append(backlog, c)
  /\ phase' = [phase EXCEPT ![c] = "connected"]
  /\ UNCHANGED <<script, stream, starts, serverVars>>

ClientSendPreamble(c) ==
  /\ phase[c] = "connected" /\ ~closed[c]
  /\ stream' = [stream EXCEPT ![c] = Preamble]
  /\ phase' = [phase EXCEPT ![c] = "calling"]
  /\ UNCHANGED <<script, starts, backlog, serverVars>>

\* The call that c makes next.
NextCall(c) == script[c][Len(starts[c]) + 1]
MoreCalls(c) == Len(starts[c]) < Len(script[c])

ClientSendCall(c) ==
  /\ phase[c] = "calling" /\ ~closed[c] /\ MoreCalls(c)
  /\ stream' = [stream EXCEPT ![c] = @ \o Frame(NextCall(c))]
  /\ starts' = [starts EXCEPT ![c] = Append(@, Len(stream[c]))]
  /\ UNCHANGED <<script, phase, backlog, serverVars>>

\* The client leaves between two sends.
ClientLeave(c) ==
  /\ phase[c] \in {"connected", "calling"}
  /\ phase' = [phase EXCEPT ![c] = "left"]
  /\ UNCHANGED <<script, stream, starts, backlog, serverVars>>

\* The client is interrupted in the middle of a frame, which does not count as
\* a call it has made.
ClientBreak(c) ==
  /\ phase[c] = "calling" /\ ~closed[c] /\ MoreCalls(c)
  /\ \E n \in 1..Len(Frame(NextCall(c))) - 1 :
       stream' = [stream EXCEPT ![c] = @ \o SubSeq(Frame(NextCall(c)), 1, n)]
  /\ phase' = [phase EXCEPT ![c] = "broken"]
  /\ UNCHANGED <<script, starts, backlog, serverVars>>

Next ==
  \/ MasterStep \/ SocketFails \/ ExitElsewhere \/ Restart
  \/ \E c \in Peers : \/ ClientConnect(c) \/ ClientSendPreamble(c)
                      \/ ClientSendCall(c) \/ ClientLeave(c) \/ ClientBreak(c)

Spec == Init /\ [][Next]_vars

-----------------------------------------------------------------------------
(***************************************************************************)
(* Properties                                                              *)
(***************************************************************************)

\* Type correctness; a connection is held exactly from accept on, for good.
TypeOK ==
  /\ script \in [Peers -> Script]
  /\ phase \in [Peers -> {"idle", "connected", "calling", "left", "broken"}]
  /\ stream \in [Peers -> Seq(Nat)]
  /\ starts \in [Peers -> Seq(Nat)]
  /\ backlog \in Seq(Peers)
  /\ closed \in [Peers -> BOOLEAN]
  /\ taken \in [Peers -> Nat]
  /\ alive \in BOOLEAN /\ listening \in BOOLEAN
  /\ pc \in {"top", "accept", "preamble", "size", "body", "dispatch"}
  /\ conn \in Peers \cup {NoPeer}
  /\ connectionHeaderRead \in BOOLEAN
  /\ conn = NoPeer <=> pc = "accept" \/ (pc = "top" /\ ~connectionHeaderRead)
  /\ eof \in BOOLEAN
  /\ part \in {"header", "context", "request"}
  /\ size \in Nat
  /\ callid \in CallId \cup {NoCall}
  /\ dispatched \in [Peers -> Seq(CallId)]

\* The master reads all of the call, and no more: the header has a size of
\* one byte, and one delimited message follows if serverMain reads one.
Plain(call) ==
  /\ Len(call.header) \in 1..Limit - 1
  /\ IF call.id = CONNECTION_CONTEXT_CALL_ID \/ call.id >= 0
     THEN call.rest # <<>> /\ call.rest[1] < Limit
                           /\ Len(call.rest) = 1 + call.rest[1]
     ELSE call.rest = <<>>

\* The first i calls of c were sent whole and are plain.
PlainUpTo(c, i) ==
  i <= Len(starts[c]) /\ \A k \in 1..i : Plain(script[c][k])

\* As long as clients make plain calls, the master acts on each of them once,
\* in the order they were made, whatever the client does after them: leave,
\* break off in a frame, or send something else (serverMain's reads).
CallsInOrder ==
  \A c \in Peers : \A i \in DOMAIN dispatched[c] :
    PlainUpTo(c, i) => dispatched[c][i] = script[c][i].id

\* Once it has a connection, the master ends the process only for a client that
\* made a call that is reserved or not plain, or broke off (the exits of
\* serverMain and of readVarint32).
ExitsForCause ==
  [][ReadSizeExits \/ DispatchExits =>
       \/ phase[conn] = "broken"
       \/ \E i \in 1..Len(starts[conn]) :
            ~Plain(script[conn][i]) \/ script[conn][i].id \in Reserved]_vars

\* What the client of the accepted connection called is acted upon, even when
\* it has left since.
CallsDispatched ==
  \A c \in Peers, i \in 1..3 :
    conn = c /\ PlainUpTo(c, i) ~> Len(dispatched[c]) >= i \/ ~alive
=============================================================================
