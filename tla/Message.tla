------------------------------ MODULE Message ------------------------------
(***************************************************************************)
(* The text messages that the client, the master and the chunk server      *)
(* exchange (message.h, message.cc).                                       *)
(*                                                                         *)
(* A text is a sequence of pieces.  A piece is a run of bytes: the name    *)
(* of a message type ("read", "upload", ...), the field separator, or a    *)
(* piece of a field.  A field is a sequence of pieces, so a text can be    *)
(* cut in the middle of a field, and two texts can run into one another.   *)
(***************************************************************************)
EXTENDS Naturals, Sequences, SequencesExt

CONSTANTS
  Sep,    \* Message::fieldSeparator, one blank
  Part    \* the pieces a file name, a host, a port or a status is made of

MessageType == {"READ", "WRITE", "STATUS", "INVALID", "LIST", "EXIT", "HELP",
                "UPLOAD", "DOWNLOAD", "CSDISCOVER"}

messageTypeString ==
  [READ |-> "read", WRITE |-> "write", STATUS |-> "status",
   INVALID |-> "invalid", LIST |-> "list", EXIT |-> "exit", HELP |-> "help",
   UPLOAD |-> "upload", DOWNLOAD |-> "download", CSDISCOVER |-> "csdiscover"]

Verb == {messageTypeString[t] : t \in MessageType}

ASSUME PieceAssumption ==
  /\ Sep \notin Part \cup Verb
  /\ Part \cap Verb = {}

(***************************************************************************)
(* A Message object whose strings are made of the units U, and the ones    *)
(* the programs build: only a status may hold separators.                  *)
(***************************************************************************)
MessageOver(U) ==
  [mtype : MessageType, remoteFileName : Seq(U), localFileName : Seq(U),
   statusString : Seq(U), chunkServerHostName : Seq(U),
   chunkServerPortNum : Seq(U)]

Message == [mtype : MessageType,
            remoteFileName : Seq(Part), localFileName : Seq(Part),
            statusString : Seq(Part \cup {Sep}),
            chunkServerHostName : Seq(Part), chunkServerPortNum : Seq(Part)]

\* A Message whose strings are still empty.
EmptyMessage(t) ==
  [mtype |-> t, remoteFileName |-> <<>>, localFileName |-> <<>>,
   statusString |-> <<>>, chunkServerHostName |-> <<>>,
   chunkServerPortNum |-> <<>>]

serialize(m) ==
  <<messageTypeString[m.mtype]>> \o
  CASE m.mtype \in {"READ", "WRITE", "UPLOAD"} -> <<Sep>> \o m.remoteFileName
    [] m.mtype = "STATUS"     -> <<Sep>> \o m.statusString
    [] m.mtype = "DOWNLOAD"   -> <<Sep>> \o m.remoteFileName
                                 \o <<Sep>> \o m.localFileName
    [] m.mtype = "CSDISCOVER" -> <<Sep>> \o m.chunkServerHostName
                                 \o <<Sep>> \o m.chunkServerPortNum
    [] m.mtype \in {"LIST", "EXIT", "HELP", "INVALID"} -> <<>>

(***************************************************************************)
(* strtok: the next maximal run without a separator, and where the search  *)
(* goes on.  NULL is the empty token: no other token is empty.             *)
(***************************************************************************)
TokenStarts(text, from) == {i \in from..Len(text) : text[i] # Sep}

TokenEnds(text, first) ==
  {j \in first..Len(text) : j = Len(text) \/ text[j + 1] = Sep}

strtok(text, from) ==
  LET first == Min(TokenStarts(text, from))
      last  == Min(TokenEnds(text, first))
  IN  IF TokenStarts(text, from) = {}
      THEN [token |-> <<>>, next |-> Len(text) + 1]
      ELSE [token |-> SubSeq(text, first, last), next |-> last + 1]

\* The first token, and the next two: no branch of deserialize reads more.
TypeToken(text) == strtok(text, 1)
Token0(text) == strtok(text, TypeToken(text).next)
Token1(text) == strtok(text, Token0(text).next)

\* strncmp(token, name, strlen(name)) = 0: a token that only begins with the
\* name of a type has that type.  No type's name begins with another's.
getMessageType(token) ==
  IF token[1] \in Verb
  THEN CHOOSE t \in MessageType : messageTypeString[t] = token[1]
  ELSE "INVALID"

\* Mutant of FieldCount: an upload needs a second name, as the usage text says.
FieldCountUsage(t) ==
  CASE t \in {"READ", "WRITE", "STATUS"} -> 1
    [] t \in {"UPLOAD", "DOWNLOAD", "CSDISCOVER"} -> 2
    [] OTHER -> 0

\* How many tokens.at(...) the branch of a type reads.
FieldCount(t) ==
  CASE t \in {"READ", "WRITE", "STATUS", "UPLOAD"} -> 1
    [] t \in {"DOWNLOAD", "CSDISCOVER"} -> 2
    [] OTHER -> 0

\* FALSE where deserialize calls exit(1) (no token) or where tokens.at throws
\* out_of_range, which nothing catches: either way the process ends.
Deserializes(text) ==
  LET count == FieldCount(getMessageType(TypeToken(text).token))
  IN  /\ TypeToken(text).token # <<>>
      /\ count >= 1 => Token0(text).token # <<>>
      /\ count = 2  => Token1(text).token # <<>>

deserialize(text) ==
  LET t  == getMessageType(TypeToken(text).token)
      m  == EmptyMessage(t)
      f0 == Token0(text).token
      f1 == Token1(text).token
  IN  CASE t \in {"READ", "WRITE", "UPLOAD"} -> [m EXCEPT !.remoteFileName = f0]
        [] t = "STATUS" -> [m EXCEPT !.statusString = f0]
        [] t = "DOWNLOAD" ->
             [m EXCEPT !.remoteFileName = f0, !.localFileName = f1]
        [] t = "CSDISCOVER" ->
             [m EXCEPT !.chunkServerHostName = f0, !.chunkServerPortNum = f1]
        [] t \in {"LIST", "EXIT", "HELP", "INVALID"} -> m
=============================================================================
