---------------------------- MODULE MasterProof ----------------------------
(***************************************************************************)
(* Theorems about Master, for every value of its constants.                *)
(***************************************************************************)
EXTENDS Master, SequenceTheorems, TLAPS

USE DEF PreambleSize, LengthSize

-----------------------------------------------------------------------------
(***************************************************************************)
(* What clients send                                                       *)
(***************************************************************************)

LEMMA VarintType ==
  ASSUME NEW n \in Nat
  PROVE  Varint(n) \in Seq(Nat)
<1>1. n % Limit \in Nat /\ n \div Limit \in Nat
  BY LimitAssumption
<1>2. Limit + (n % Limit) \in Nat
  BY <1>1, LimitAssumption
<1>3. QED
  BY <1>1, <1>2 DEF Varint

LEMMA FrameType ==
  ASSUME NEW s \in Script, NEW i \in 1..Len(s)
  PROVE  Frame(s[i]) \in Seq(Nat)
<1> DEFINE call == s[i]
           text == Varint(Len(call.header)) \o call.header \o call.rest
<1>1. call \in [id : CallId, header : Seq(Nat), rest : Seq(Nat)]
  BY ScriptAssumption, ElementOfSeq
<1> HIDE DEF call
<1>2. call.header \in Seq(Nat) /\ call.rest \in Seq(Nat) /\ Len(call.header) \in Nat
  BY <1>1
<1>3. text \in Seq(Nat)
  <2>1. Varint(Len(call.header)) \in Seq(Nat)
    BY <1>2, VarintType
  <2>2. QED
    BY <1>2, <2>1, ConcatProperties
<1>4. Frame(call) = <<0, 0, 0, Len(text)>> \o text
  BY DEF Frame
<1> HIDE DEF text
<1>5. <<0, 0, 0, Len(text)>> \in Seq(Nat)
  BY <1>3
<1>6. QED
  BY <1>3, <1>4, <1>5, ConcatProperties DEF call

LEMMA NextFrameType ==
  ASSUME TypeOK, NEW c \in Peers, MoreCalls(c)
  PROVE  Frame(NextCall(c)) \in Seq(Nat)
<1>1. script[c] \in Script /\ Len(starts[c]) + 1 \in 1..Len(script[c])
  BY ScriptAssumption DEF TypeOK, MoreCalls
<1>2. QED
  BY <1>1, FrameType DEF NextCall

-----------------------------------------------------------------------------
(***************************************************************************)
(* What the master reads                                                   *)
(***************************************************************************)

LEMMA ReadType ==
  ASSUME TypeOK, conn \in Peers, NEW n \in Nat, Read(n)
  PROVE  taken' \in [Peers -> Nat] /\ eof' \in BOOLEAN
<1>1. Len(stream[conn]) \in Nat /\ taken[conn] + n \in Nat
  BY DEF TypeOK
<1>2. QED
  BY <1>1 DEF TypeOK, Read, readerVars

LEMMA UpcomingType ==
  ASSUME TypeOK, conn \in Peers, Available(1)
  PROVE  Upcoming(1)[1] \in Nat
<1>1. stream[conn] \in Seq(Nat) /\ taken[conn] \in Nat /\ taken[conn] + 1 <= Len(stream[conn])
  BY DEF TypeOK, Available
<1>2. Upcoming(1)[1] = stream[conn][taken[conn] + 1]
  BY <1>1, SubSeqProperties DEF Upcoming
<1>3. QED
  BY <1>1, <1>2, ElementOfSeq

LEMMA DispatchedType ==
  ASSUME TypeOK, conn \in Peers, callid # NoCall
  PROVE  Dispatched \in [Peers -> Seq(CallId)]
<1>1. dispatched[conn] \in Seq(CallId) /\ callid \in CallId
  BY DEF TypeOK
<1>2. Append(dispatched[conn], callid) \in Seq(CallId)
  BY <1>1, AppendProperties
<1>3. QED
  BY <1>2 DEF TypeOK, Dispatched

-----------------------------------------------------------------------------
(***************************************************************************)
(* Type correctness                                                        *)
(***************************************************************************)

\* Behind the length of a frame the preamble was read.
TypeInv ==
  /\ TypeOK
  /\ pc \in {"size", "body", "dispatch"} => connectionHeaderRead

LEMMA TypeInit == Init => TypeInv
<1> SUFFICES ASSUME Init PROVE TypeInv
  OBVIOUS
<1>1. <<>> \in Seq(Nat) /\ <<>> \in Seq(Peers) /\ <<>> \in Seq(CallId)
  OBVIOUS
<1>2. stream \in [Peers -> Seq(Nat)] /\ starts \in [Peers -> Seq(Nat)]
  BY <1>1 DEF Init
<1>3. dispatched \in [Peers -> Seq(CallId)] /\ backlog \in Seq(Peers)
  BY <1>1 DEF Init
<1>4. phase \in [Peers -> {"idle", "connected", "calling", "left", "broken"}]
  BY DEF Init
<1>5. closed \in [Peers -> BOOLEAN] /\ taken \in [Peers -> Nat]
  BY DEF Init
<1>6. QED
  BY <1>2, <1>3, <1>4, <1>5, PeerAssumption DEF Init, TypeOK, TypeInv

\* An end of the process leaves the clients, and what was read of them, alone.
LEMMA TypeDie == TypeOK /\ Die => TypeInv'
<1> SUFFICES ASSUME TypeOK, Die PROVE TypeInv'
  OBVIOUS
<1>1. closed' \in [Peers -> BOOLEAN]
  BY Zenon DEF Die
<1>2. backlog' = <<>> /\ <<>> \in Seq(Peers)
  BY DEF Die
<1>3. QED
  BY <1>1, <1>2 DEF TypeOK, TypeInv, Die, clientVars

LEMMA TypeMasterStep == TypeInv /\ MasterStep => TypeInv'
<1> SUFFICES ASSUME TypeInv, MasterStep PROVE TypeInv'
  OBVIOUS
<1>0. TypeOK
  BY DEF TypeInv
<1>1. conn \in Peers \/ pc = "accept" \/ (pc = "top" /\ ~connectionHeaderRead)
  BY DEF TypeInv, TypeOK
<1>2. CASE Listen
  BY <1>2 DEF TypeInv, TypeOK, Listen, clientVars, readerVars, messageVars
<1>3. CASE AcceptClientConnection
  <2>1. Head(backlog) \in Peers /\ Tail(backlog) \in Seq(Peers)
    BY <1>3, HeadTailProperties DEF TypeInv, TypeOK, AcceptClientConnection
  <2>2. QED
    BY <1>3, <2>1, PeerAssumption DEF TypeInv, TypeOK, AcceptClientConnection, clientVars, messageVars
<1>4. CASE GetHeader
  <2>1. taken' \in [Peers -> Nat] /\ eof' \in BOOLEAN
    BY <1>0, <1>1, <1>4, ReadType DEF GetHeader
  <2>2. QED
    BY <1>4, <2>1 DEF TypeInv, TypeOK, GetHeader, clientVars, messageVars
<1>5. CASE ReadLength
  <2>1. taken' \in [Peers -> Nat] /\ eof' \in BOOLEAN
    BY <1>0, <1>1, <1>5, ReadType DEF ReadLength
  <2>2. QED
    BY <1>5, <2>1 DEF TypeInv, TypeOK, ReadLength, clientVars
<1>6. CASE ReadSize
  <2>1. taken' \in [Peers -> Nat] /\ eof' \in BOOLEAN
    BY <1>0, <1>1, <1>6, ReadType DEF ReadSize
  <2>2. size' \in Nat
    BY <1>0, <1>1, <1>6, UpcomingType DEF ReadSize
  <2>3. QED
    BY <1>6, <2>1, <2>2 DEF TypeInv, TypeOK, ReadSize, clientVars
<1>7. CASE ReadBody
  <2>1. taken' \in [Peers -> Nat] /\ eof' \in BOOLEAN
    <3>1. CASE size = 0
      BY <1>7, <3>1 DEF TypeInv, TypeOK, ReadBody, readerVars
    <3>2. CASE size # 0
      <4>1. size \in Nat /\ Read(size)
        BY <1>7, <3>2 DEF TypeInv, TypeOK, ReadBody
      <4>2. QED
        BY <1>0, <1>1, <1>7, <4>1, ReadType DEF ReadBody
    <3>3. QED
      BY <3>1, <3>2
  <2>2. callid' \in CallId \cup {NoCall}
    <3>1. ParsedId(Upcoming(size)) \in CallId \cup {NoCall}
      BY DEF ParsedId
    <3>2. part # "header" \/ (part = "header" /\ size = 0) \/ (part = "header" /\ size > 0)
      BY DEF TypeInv, TypeOK
    <3>3. QED
      BY <1>7, <3>1, <3>2 DEF TypeInv, TypeOK, ReadBody
  <2>3. QED
    BY <1>7, <2>1, <2>2 DEF TypeInv, TypeOK, ReadBody, clientVars
<1>8. CASE ReadSizeExits
  BY <1>8, <1>0, TypeDie DEF ReadSizeExits
<1>9. CASE DispatchExits
  BY <1>9, <1>0, TypeDie DEF DispatchExits
<1>10. CASE DispatchMessage
  <2>1. Dispatched \in [Peers -> Seq(CallId)]
    BY <1>0, <1>1, <1>10, DispatchedType DEF DispatchMessage
  <2>2. QED
    BY <1>10, <2>1 DEF TypeInv, TypeOK, DispatchMessage, clientVars, readerVars
<1>11. CASE DispatchOther
  <2>1. dispatched' \in [Peers -> Seq(CallId)]
    BY <1>0, <1>1, <1>11, DispatchedType DEF TypeInv, TypeOK, DispatchOther
  <2>2. QED
    BY <1>11, <2>1 DEF TypeInv, TypeOK, DispatchOther, clientVars, readerVars, messageVars
<1>12. QED
  BY <1>2, <1>3, <1>4, <1>5, <1>6, <1>7, <1>8, <1>9, <1>10, <1>11 DEF MasterStep

LEMMA TypeNext == TypeInv /\ [Next]_vars => TypeInv'
<1> SUFFICES ASSUME TypeInv, [Next]_vars PROVE TypeInv'
  OBVIOUS
<1>0. TypeOK
  BY DEF TypeInv
<1>1. CASE MasterStep
  BY <1>1, TypeMasterStep
<1>2. CASE SocketFails \/ ExitElsewhere
  BY <1>0, <1>2, TypeDie DEF SocketFails, ExitElsewhere
<1>3. CASE Restart
  BY <1>3 DEF TypeInv, TypeOK, Restart, clientVars, readerVars, messageVars
<1>4. ASSUME NEW c \in Peers, ClientConnect(c) PROVE TypeInv'
  <2>1. Append(backlog, c) \in Seq(Peers)
    BY AppendProperties DEF TypeInv, TypeOK
  <2>2. QED
    BY <1>4, <2>1 DEF TypeInv, TypeOK, ClientConnect, serverVars, readerVars, messageVars
<1>5. ASSUME NEW c \in Peers, ClientSendPreamble(c) PROVE TypeInv'
  <2>1. Preamble \in Seq(Nat)
    BY IsASeq DEF Preamble
  <2>2. QED
    BY <1>5, <2>1 DEF TypeInv, TypeOK, ClientSendPreamble, serverVars, readerVars, messageVars
<1>6. ASSUME NEW c \in Peers, ClientSendCall(c) PROVE TypeInv'
  <2>1. stream[c] \o Frame(NextCall(c)) \in Seq(Nat)
    BY <1>6, NextFrameType, ConcatProperties DEF TypeInv, TypeOK, ClientSendCall
  <2>2. Append(starts[c], Len(stream[c])) \in Seq(Nat)
    BY AppendProperties DEF TypeInv, TypeOK
  <2>3. QED
    BY <1>6, <2>1, <2>2 DEF TypeInv, TypeOK, ClientSendCall, serverVars, readerVars, messageVars
<1>7. ASSUME NEW c \in Peers, ClientLeave(c) PROVE TypeInv'
  BY <1>7 DEF TypeInv, TypeOK, ClientLeave, serverVars, readerVars, messageVars
<1>8. ASSUME NEW c \in Peers, ClientBreak(c) PROVE TypeInv'
  <2>1. PICK n \in 1..Len(Frame(NextCall(c))) - 1 :
          stream' = [stream EXCEPT ![c] = @ \o SubSeq(Frame(NextCall(c)), 1, n)]
    BY <1>8 DEF ClientBreak
  <2>2. Frame(NextCall(c)) \in Seq(Nat)
    BY <1>0, <1>8, NextFrameType DEF ClientBreak
  <2>3. SubSeq(Frame(NextCall(c)), 1, n) \in Seq(Nat)
    BY <2>2, SubSeqProperties
  <2>4. stream[c] \o SubSeq(Frame(NextCall(c)), 1, n) \in Seq(Nat)
    BY <1>0, <2>3, ConcatProperties DEF TypeOK
  <2>5. QED
    BY <1>8, <2>1, <2>4 DEF TypeInv, TypeOK, ClientBreak, serverVars, readerVars, messageVars
<1>9. CASE UNCHANGED vars
  BY <1>9 DEF TypeInv, TypeOK, vars, clientVars, readerVars, messageVars
<1>10. QED
  BY <1>1, <1>2, <1>3, <1>4, <1>5, <1>6, <1>7, <1>8, <1>9 DEF Next

\* Every variable of the master keeps its type, and a connection is held from
\* accept on, until the process ends (serverMain never closes one).
THEOREM TypeCorrect == Spec => []TypeOK
<1>1. TypeInv => TypeOK
  BY DEF TypeInv
<1>2. QED
  BY <1>1, TypeInit, TypeNext, PTL DEF Spec

-----------------------------------------------------------------------------
(***************************************************************************)
(* In what order, and for what cause, the master does things: CallsInOrder *)
(* and ExitsForCause.                                                      *)
(***************************************************************************)
-----------------------------------------------------------------------------
(***************************************************************************)
(* The inductive invariant.  It says where in the client's stream the      *)
(* thread is.  A client is astray from its k-th call on when it broke off  *)
(* in that call or made one before, or there, that is not plain; from then *)
(* on nothing is known, and nothing is promised.                           *)
(***************************************************************************)

\* Where the i-th frame of c ends, and the next one begins.
FrameEnd(c, i) ==
  IF i = 0 THEN PreambleSize ELSE starts[c][i] + Len(Frame(script[c][i]))

\* The stream is the preamble and the frames that were sent.
FramesInv ==
  \A c \in Peers :
    /\ Len(starts[c]) <= Len(script[c])
    /\ \A i \in 1..Len(starts[c]) :
         /\ starts[c][i] = FrameEnd(c, i - 1)
         /\ FrameEnd(c, i) <= Len(stream[c])
         /\ \A j \in 1..Len(Frame(script[c][i])) :
              stream[c][starts[c][i] + j] = Frame(script[c][i])[j]

\* What comes behind the last whole frame.
EndInv ==
  \A c \in Peers :
    /\ phase[c] \in {"idle", "connected"} => stream[c] = <<>> /\ starts[c] = <<>>
    /\ phase[c] = "calling" => Len(stream[c]) = FrameEnd(c, Len(starts[c]))
    /\ phase[c] = "left" => \/ Len(stream[c]) = FrameEnd(c, Len(starts[c]))
                            \/ stream[c] = <<>> /\ starts[c] = <<>>
    /\ phase[c] = "broken" => Len(stream[c]) >= FrameEnd(c, Len(starts[c]))

Waiting(c) == {i \in DOMAIN backlog : backlog[i] = c}

\* A connection of which the preamble is still to be read.
Unread(c) == phase[c] = "idle" \/ Waiting(c) # {} \/ (c = conn /\ pc = "preamble")

\* Every connection is accepted once.
AcceptInv ==
  /\ \A c \in Peers :
       /\ \A i, k \in Waiting(c) : i = k
       /\ Waiting(c) # {} => c # conn /\ phase[c] # "idle"
       /\ c = conn => phase[c] # "idle"
       /\ Unread(c) => taken[c] = 0 /\ dispatched[c] = <<>>
  /\ pc = "preamble" => ~eof

Astray(c, k) ==
  \/ phase[c] = "broken" /\ Len(starts[c]) < k
  \/ \E j \in 1..Len(starts[c]) : j <= k /\ ~Plain(script[c][j])

\* The first d calls of c were dispatched, and are plain.
Behind(c, d) ==
  ~eof /\ d <= Len(starts[c]) /\ \A j \in 1..d : Plain(script[c][j])

\* The thread reads the header of the call behind the d-th one.
AtHeader(c, d) ==
  /\ Behind(c, d)
  /\ pc = "top" => taken[c] = FrameEnd(c, d)
  /\ pc = "size" => part = "header" /\ taken[c] = FrameEnd(c, d) + LengthSize
  /\ pc \in {"body", "dispatch"} =>
       /\ part = "header"
       /\ d + 1 <= Len(starts[c]) /\ Plain(script[c][d + 1])
       /\ LET header == script[c][d + 1].header
          IN  IF pc = "body"
              THEN /\ taken[c] = FrameEnd(c, d) + LengthSize + 1
                   /\ size = Len(header)
              ELSE /\ taken[c] = FrameEnd(c, d) + LengthSize + 1 + Len(header)
                   /\ callid = script[c][d + 1].id

\* The thread reads the second message of the d-th call.
AtMessage(c, d) ==
  /\ Behind(c, d) /\ d >= 1
  /\ pc \in {"size", "body"} /\ part # "header"
  /\ LET call == script[c][d]
         from == starts[c][d] + LengthSize + 1 + Len(call.header)
     IN  /\ call.id = CONNECTION_CONTEXT_CALL_ID \/ call.id >= 0
         /\ pc = "size" => taken[c] = from
         /\ pc = "body" => taken[c] = from + 1 /\ size = call.rest[1]

\* The client has left, and the end of its stream was seen between two frames.
Over(c, d) ==
  /\ eof /\ phase[c] = "left" /\ Len(starts[c]) <= d
  /\ pc # "top" => part = "header"
  /\ pc = "body" => size = 0
  /\ pc = "dispatch" => callid = NoCall

Place(c, d) == Astray(c, d + 1) \/ AtHeader(c, d) \/ AtMessage(c, d) \/ Over(c, d)

PlaceInv ==
  \A c \in Peers : c = conn /\ pc # "preamble" => Place(c, Len(dispatched[c]))

TakenInv == \A c \in Peers : taken[c] <= Len(stream[c])

\* CallsInOrder, with the reason why it does not speak of the other calls.
DispatchInv ==
  \A c \in Peers : \A i \in 1..Len(dispatched[c]) :
    \/ Astray(c, i)
    \/ i <= Len(starts[c]) /\ dispatched[c][i] = script[c][i].id

Known == TypeInv /\ FramesInv /\ EndInv /\ TakenInv

OrderInv == Known /\ AcceptInv /\ PlaceInv /\ DispatchInv

-----------------------------------------------------------------------------
(***************************************************************************)
(* Frames                                                                  *)
(***************************************************************************)

\* The types of the call a script holds.
LEMMA CallType ==
  ASSUME TypeOK, NEW c \in Peers, NEW i \in 1..Len(script[c])
  PROVE  /\ script[c][i] \in [id : CallId, header : Seq(Nat), rest : Seq(Nat)]
         /\ CallOf(script[c][i].header) = script[c][i].id
         /\ Frame(script[c][i]) \in Seq(Nat)
<1>1. script[c] \in Script
  BY DEF TypeOK
<1>2. script[c] \in Seq([id : CallId, header : Seq(Nat), rest : Seq(Nat)])
  BY <1>1, ScriptAssumption
<1>3. script[c][i] \in [id : CallId, header : Seq(Nat), rest : Seq(Nat)]
  BY <1>2, ElementOfSeq
<1>4. QED
  BY <1>1, <1>3, ScriptAssumption, FrameType

\* The bytes of a frame whose header has a size of one byte.
LEMMA FrameBytes ==
  ASSUME NEW call \in [id : CallId, header : Seq(Nat), rest : Seq(Nat)]
  PROVE  LET h == call.header
             r == call.rest
         IN  /\ Len(Frame(call)) \in Nat /\ Len(Frame(call)) >= LengthSize + 1
             /\ Len(h) < Limit =>
                  /\ Len(Frame(call)) = LengthSize + 1 + Len(h) + Len(r)
                  /\ Frame(call)[LengthSize + 1] = Len(h)
                  /\ \A i \in 1..Len(h) : Frame(call)[LengthSize + 1 + i] = h[i]
                  /\ \A i \in 1..Len(r) :
                       Frame(call)[LengthSize + 1 + Len(h) + i] = r[i]
<1> DEFINE h == call.header
           r == call.rest
           v == Varint(Len(h))
           vh == v \o h
           text == vh \o r
           four == <<0, 0, 0, Len(text)>>
<1>1. h \in Seq(Nat) /\ r \in Seq(Nat) /\ Len(h) \in Nat /\ Len(r) \in Nat
  BY LenProperties
<1>2. v \in Seq(Nat) /\ Len(v) \in Nat /\ Len(v) >= 1
  BY <1>1, VarintType DEF Varint
<1>3. Len(h) < Limit => Len(v) = 1 /\ v[1] = Len(h)
  BY <1>1 DEF Varint
<1>4. Frame(call) = four \o text
  BY DEF Frame
<1> HIDE DEF h, r, v
<1>5. /\ vh \in Seq(Nat) /\ Len(vh) = Len(v) + Len(h)
      /\ \A i \in 1..Len(v) + Len(h) : vh[i] = IF i <= Len(v) THEN v[i] ELSE h[i - Len(v)]
  BY <1>1, <1>2, ConcatProperties
<1> HIDE DEF vh
<1>6. /\ text \in Seq(Nat) /\ Len(text) = Len(vh) + Len(r)
      /\ \A i \in 1..Len(vh) + Len(r) :
           text[i] = IF i <= Len(vh) THEN vh[i] ELSE r[i - Len(vh)]
  <2>1. vh \in Seq(Nat) /\ r \in Seq(Nat)
    BY <1>1, <1>5
  <2>2. QED
    BY <2>1, ConcatProperties
<1> HIDE DEF text
<1>7. four \in Seq(Nat) /\ Len(four) = 4
  BY <1>6, LenProperties
<1> HIDE DEF four
<1>8. /\ Len(Frame(call)) = 4 + Len(text)
      /\ \A i \in 1..4 + Len(text) :
           Frame(call)[i] = IF i <= 4 THEN four[i] ELSE text[i - 4]
  <2>1. text \in Seq(Nat) /\ four \in Seq(Nat)
    BY <1>6, <1>7
  <2>2. /\ Len(four \o text) = Len(four) + Len(text)
        /\ \A i \in 1..Len(four) + Len(text) :
             (four \o text)[i] = IF i <= Len(four) THEN four[i] ELSE text[i - Len(four)]
    BY <2>1, ConcatProperties
  <2>3. QED
    BY <1>4, <1>7, <2>2
<1>9. Len(Frame(call)) \in Nat /\ Len(Frame(call)) >= LengthSize + 1
  BY <1>1, <1>2, <1>5, <1>6, <1>8
<1>10. ASSUME Len(h) < Limit
       PROVE  /\ Len(Frame(call)) = LengthSize + 1 + Len(h) + Len(r)
              /\ Frame(call)[LengthSize + 1] = Len(h)
              /\ \A i \in 1..Len(h) : Frame(call)[LengthSize + 1 + i] = h[i]
              /\ \A i \in 1..Len(r) : Frame(call)[LengthSize + 1 + Len(h) + i] = r[i]
  <2>1. Len(v) = 1 /\ v[1] = Len(h) /\ Len(vh) = 1 + Len(h)
        /\ Len(text) = 1 + Len(h) + Len(r)
    BY <1>1, <1>3, <1>5, <1>6, <1>10
  <2>2. \A i \in 1..1 + Len(h) + Len(r) : Frame(call)[4 + i] = text[i]
    <3>1. ASSUME NEW i \in 1..1 + Len(h) + Len(r)
          PROVE  4 + i \in 1..4 + Len(text) /\ ~(4 + i <= 4) /\ (4 + i) - 4 = i
      BY <1>1, <2>1, <3>1
    <3>2. QED
      BY <1>8, <3>1
  <2>3. text[1] = Len(h)
    BY <1>1, <1>5, <1>6, <2>1
  <2>4. \A i \in 1..Len(h) : text[1 + i] = h[i]
    <3>1. ASSUME NEW i \in 1..Len(h)
          PROVE  /\ 1 + i \in 1..Len(vh) + Len(r) /\ 1 + i <= Len(vh)
                 /\ 1 + i \in 1..Len(v) + Len(h) /\ ~(1 + i <= Len(v))
                 /\ (1 + i) - Len(v) = i
      BY <1>1, <2>1, <3>1
    <3>2. QED
      BY <1>5, <1>6, <3>1
  <2>5. \A i \in 1..Len(r) : text[1 + Len(h) + i] = r[i]
    <3>1. ASSUME NEW i \in 1..Len(r)
          PROVE  /\ 1 + Len(h) + i \in 1..Len(vh) + Len(r)
                 /\ ~(1 + Len(h) + i <= Len(vh)) /\ (1 + Len(h) + i) - Len(vh) = i
      BY <1>1, <2>1, <3>1
    <3>2. QED
      BY <1>6, <3>1
  <2>6. Frame(call)[4 + 1] = text[1]
    BY <1>1, <2>2
  <2>7. \A i \in 1..Len(h) : Frame(call)[4 + 1 + i] = h[i]
    <3>1. \A i \in 1..Len(h) : 4 + 1 + i = 4 + (1 + i) /\ 1 + i \in 1..1 + Len(h) + Len(r)
      BY <1>1
    <3>2. QED
      BY <2>2, <2>4, <3>1
  <2>8. \A i \in 1..Len(r) : Frame(call)[4 + 1 + Len(h) + i] = r[i]
    <3>1. \A i \in 1..Len(r) : /\ 4 + 1 + Len(h) + i = 4 + (1 + Len(h) + i)
                               /\ 1 + Len(h) + i \in 1..1 + Len(h) + Len(r)
      BY <1>1
    <3>2. QED
      BY <2>2, <2>5, <3>1
  <2>9. Len(Frame(call)) = 4 + 1 + Len(h) + Len(r)
    BY <1>1, <1>8, <2>1
  <2>10. QED
    BY <2>3, <2>6, <2>7, <2>8, <2>9, Zenon
<1>11. QED
  BY <1>9, <1>10 DEF h, r

\* Frames end at positions; each is at least five bytes behind the one before.
LEMMA FrameEnds ==
  ASSUME TypeOK, FramesInv, NEW c \in Peers
  PROVE  /\ Len(starts[c]) \in Nat /\ Len(stream[c]) \in Nat /\ taken[c] \in Nat
         /\ Len(script[c]) \in Nat /\ Len(dispatched[c]) \in Nat
         /\ \A i \in 0..Len(starts[c]) : FrameEnd(c, i) \in Nat
         /\ \A i \in 1..Len(starts[c]) :
              /\ starts[c][i] = FrameEnd(c, i - 1) /\ i - 1 \in 0..Len(starts[c])
              /\ FrameEnd(c, i) >= FrameEnd(c, i - 1) + LengthSize + 1
              /\ FrameEnd(c, i) <= Len(stream[c])
<1>1. /\ Len(starts[c]) \in Nat /\ Len(stream[c]) \in Nat /\ taken[c] \in Nat
      /\ Len(script[c]) \in Nat /\ Len(dispatched[c]) \in Nat
  <2>1. script[c] \in Script
    BY DEF TypeOK
  <2>2. script[c] \in Seq([id : CallId, header : Seq(Nat), rest : Seq(Nat)])
    BY <2>1, ScriptAssumption
  <2>3. QED
    BY <2>2, LenProperties DEF TypeOK
<1>2. \A i \in 1..Len(starts[c]) : /\ Len(Frame(script[c][i])) \in Nat
                                   /\ Len(Frame(script[c][i])) >= LengthSize + 1
  <2>1. \A i \in 1..Len(starts[c]) : i \in 1..Len(script[c])
    BY <1>1 DEF FramesInv
  <2>2. QED
    BY <2>1, CallType, FrameBytes
<1>3. \A i \in 1..Len(starts[c]) : starts[c][i] \in Nat
  <2>1. starts[c] \in Seq(Nat)
    BY DEF TypeOK
  <2>2. QED
    BY <2>1, ElementOfSeq
<1>4. \A i \in 0..Len(starts[c]) : FrameEnd(c, i) \in Nat
  BY <1>1, <1>2, <1>3 DEF FrameEnd
<1>5. ASSUME NEW i \in 1..Len(starts[c])
      PROVE  /\ starts[c][i] = FrameEnd(c, i - 1) /\ i - 1 \in 0..Len(starts[c])
             /\ FrameEnd(c, i) >= FrameEnd(c, i - 1) + LengthSize + 1
             /\ FrameEnd(c, i) <= Len(stream[c])
  <2>1. starts[c][i] = FrameEnd(c, i - 1) /\ FrameEnd(c, i) <= Len(stream[c])
    BY DEF FramesInv
  <2>2. FrameEnd(c, i) = starts[c][i] + Len(Frame(script[c][i]))
    BY <1>1 DEF FrameEnd
  <2>3. QED
    BY <1>1, <1>2, <1>3, <2>1, <2>2
<1>6. QED
  BY <1>1, <1>4, <1>5

\* Where the fields of a plain call are in the stream.
LEMMA PlainFrame ==
  ASSUME Known, NEW c \in Peers, NEW k \in 1..Len(starts[c]), Plain(script[c][k])
  PROVE  LET call == script[c][k]
             h == Len(call.header)
             from == FrameEnd(c, k - 1) + LengthSize + 1
             two == call.id = CONNECTION_CONTEXT_CALL_ID \/ call.id >= 0
         IN  /\ call.id \in CallId /\ h \in 1..Limit - 1 /\ h \in Nat \ {0}
             /\ FrameEnd(c, k - 1) \in Nat /\ starts[c][k] = FrameEnd(c, k - 1)
             /\ stream[c][from] = h
             /\ SubSeq(stream[c], from + 1, from + h) = call.header
             /\ from + h <= Len(stream[c]) /\ FrameEnd(c, k) <= Len(stream[c])
             /\ ~two => FrameEnd(c, k) = from + h
             /\ two => /\ call.rest[1] \in Nat /\ call.rest[1] < Limit
                       /\ stream[c][from + h + 1] = call.rest[1]
                       /\ FrameEnd(c, k) = from + h + 1 + call.rest[1]
<1> DEFINE call == script[c][k]
           h == Len(call.header)
           b == FrameEnd(c, k - 1)
           e == FrameEnd(c, k)
           n == Len(call.rest)
           two == call.id = CONNECTION_CONTEXT_CALL_ID \/ call.id >= 0
<1>1. /\ Len(starts[c]) \in Nat /\ Len(stream[c]) \in Nat
      /\ b \in Nat /\ starts[c][k] = b /\ e <= Len(stream[c])
  BY FrameEnds DEF Known, TypeInv
<1>2. k \in 1..Len(script[c]) /\ k \in Nat \ {0}
  BY <1>1, FrameEnds DEF Known, TypeInv, FramesInv
<1>3. call \in [id : CallId, header : Seq(Nat), rest : Seq(Nat)]
  BY <1>2, CallType DEF Known, TypeInv
<1>4. e = b + Len(Frame(call))
  BY <1>1, <1>2 DEF FrameEnd
<1>5. \A j \in 1..Len(Frame(call)) : stream[c][b + j] = Frame(call)[j]
  <2>1. /\ starts[c][k] = b
        /\ \A j \in 1..Len(Frame(call)) : stream[c][starts[c][k] + j] = Frame(call)[j]
    BY <1>1 DEF Known, FramesInv
  <2>2. QED
    BY <2>1, Zenon
<1>6. Plain(call)
  OBVIOUS
<1> HIDE DEF call, b, e
<1>7. /\ h \in Nat /\ n \in Nat /\ call.header \in Seq(Nat) /\ call.rest \in Seq(Nat)
      /\ call.id \in CallId /\ Limit \in Nat
  BY <1>3, LimitAssumption, LenProperties
<1>8. h \in 1..Limit - 1 /\ h < Limit
  BY <1>6, <1>7 DEF Plain
<1> DEFINE f == Frame(call)
<1>9. /\ Len(f) = 5 + h + n
      /\ f[5] = h
      /\ \A i \in 1..h : f[5 + i] = call.header[i]
      /\ \A i \in 1..n : f[5 + h + i] = call.rest[i]
  <2>1. /\ Len(f) = LengthSize + 1 + h + n
        /\ f[LengthSize + 1] = h
        /\ \A i \in 1..h : f[LengthSize + 1 + i] = call.header[i]
        /\ \A i \in 1..n : f[LengthSize + 1 + h + i] = call.rest[i]
    BY <1>3, <1>8, FrameBytes, Zenon
  <2>2. LengthSize + 1 = 5
    OBVIOUS
  <2>3. QED
    BY <2>1, <2>2, Zenon
<1>10. /\ e = b + Len(f) /\ \A j \in 1..Len(f) : stream[c][b + j] = f[j]
       /\ h = Len(call.header) /\ n = Len(call.rest) /\ h \in Nat \ {0}
  BY <1>4, <1>5, <1>7, <1>8
<1> HIDE DEF h, n, f
<1>11. \A j \in 1..5 + h + n : stream[c][b + j] = f[j]
  BY <1>9, <1>10
<1>12. b + 5 + h <= Len(stream[c]) /\ e = b + 5 + h + n
  <2>1. e = b + Len(f) /\ Len(f) = 5 + h + n
    BY <1>9, <1>10, Zenon
  <2>2. b \in Nat /\ h \in Nat /\ n \in Nat /\ e <= Len(stream[c]) /\ Len(stream[c]) \in Nat
    BY <1>1, <1>7, Zenon
  <2>3. QED
    BY <2>1, <2>2
<1>13. stream[c][b + 5] = h
  <2>1. 5 \in 1..5 + h + n
    BY <1>7
  <2>2. QED
    BY <1>9, <1>11, <2>1
<1>14. SubSeq(stream[c], b + 5 + 1, b + 5 + h) = call.header
  <2> DEFINE piece == SubSeq(stream[c], b + 5 + 1, b + 5 + h)
  <2>1. stream[c] \in Seq(Nat)
    BY DEF Known, TypeInv, TypeOK
  <2>2. b + 5 + 1 \in Nat \ {0} /\ b + 5 + h \in Nat /\ b + 5 + h <= Len(stream[c])
    BY <1>1, <1>7, <1>12
  <2>3. \A i \in b + 5 + 1..b + 5 + h : stream[c][i] \in Nat
    <3>1. \A i \in b + 5 + 1..b + 5 + h : i \in 1..Len(stream[c])
      BY <1>1, <2>2
    <3>2. \A i \in 1..Len(stream[c]) : stream[c][i] \in Nat
      BY <2>1, ElementOfSeq
    <3>3. QED
      BY <3>1, <3>2, Zenon
  <2>4. (b + 5 + h) - (b + 5 + 1) + 1 = h /\ \A i \in 1..h : b + 5 + 1 + i - 1 = b + (5 + i)
    BY <1>1, <1>7
  <2>5. /\ piece \in Seq(Nat)
        /\ Len(piece) = h
        /\ \A i \in 1..h : piece[i] = stream[c][b + (5 + i)]
    <3>1. /\ piece \in Seq(Nat)
          /\ Len(piece) = IF b + 5 + 1 <= b + 5 + h
                          THEN (b + 5 + h) - (b + 5 + 1) + 1 ELSE 0
          /\ \A i \in 1..(b + 5 + h) - (b + 5 + 1) + 1 :
               piece[i] = stream[c][b + 5 + 1 + i - 1]
      BY <2>2, <2>3, SubSeqProperties, SMTT(30)
    <3>2. b + 5 + 1 <= b + 5 + h
      <4>1. h \in Nat \ {0} /\ b \in Nat
        BY <1>1, <1>10, Zenon
      <4>2. QED
        BY <4>1
    <3>3. QED
      BY <2>4, <3>1, <3>2
  <2>6. \A i \in 1..h : stream[c][b + (5 + i)] = call.header[i]
    <3>1. \A i \in 1..h : 5 + i \in 1..5 + h + n
      BY <1>7
    <3>2. QED
      BY <1>9, <1>11, <3>1
  <2> HIDE DEF piece
  <2>7. piece = call.header
    <3>1. Len(piece) = Len(call.header) /\ \A i \in 1..Len(call.header) : piece[i] = call.header[i]
      BY <1>10, <2>5, <2>6
    <3>2. QED
      BY <1>7, <2>5, <3>1, SeqEqual
  <2>8. QED
    BY <2>7 DEF piece
<1>15. ASSUME ~two PROVE e = b + 5 + h
  <2>1. call.rest = <<>>
    BY <1>6, <1>15 DEF Plain
  <2>2. n = 0
    BY <1>10, <2>1
  <2>3. QED
    BY <1>1, <1>7, <1>12, <2>2
<1>16. ASSUME two
       PROVE  /\ call.rest[1] \in Nat /\ call.rest[1] < Limit
              /\ stream[c][b + 5 + h + 1] = call.rest[1]
              /\ e = b + 5 + h + 1 + call.rest[1]
  <2>1. call.rest # <<>> /\ call.rest[1] < Limit /\ n = 1 + call.rest[1]
    BY <1>6, <1>10, <1>16 DEF Plain
  <2>2. n >= 1 /\ call.rest[1] \in Nat
    <3>1. n # 0
      BY <1>7, <1>10, <2>1, EmptySeq
    <3>2. n >= 1
      BY <1>7, <3>1
    <3>3. QED
      BY <1>7, <1>10, <3>2, ElementOfSeq
  <2>3. f[5 + h + 1] = call.rest[1] /\ 5 + h + 1 \in 1..5 + h + n
    BY <1>7, <1>9, <2>2
  <2>4. b + (5 + h + 1) = b + 5 + h + 1 /\ b + 5 + h + n = b + 5 + h + 1 + call.rest[1]
    BY <1>1, <1>7, <2>1, <2>2
  <2>5. stream[c][b + (5 + h + 1)] = f[5 + h + 1]
    BY <1>11, <2>3
  <2>6. QED
    BY <1>12, <2>1, <2>2, <2>3, <2>4, <2>5
<1>17. b + LengthSize + 1 = b + 5
  BY <1>1
<1>18. QED
  BY <1>1, <1>7, <1>8, <1>10, <1>12, <1>13, <1>14, <1>15, <1>16, <1>17 DEF call, b, e, h

\* The same of the call behind the d-th, up to the end of its header.
LEMMA NextHeader ==
  ASSUME Known, NEW c \in Peers, NEW d \in Nat, d + 1 \in 1..Len(starts[c]),
         Plain(script[c][d + 1])
  PROVE  LET call == script[c][d + 1]
             h == Len(call.header)
             from == FrameEnd(c, d) + LengthSize + 1
         IN  /\ call.id \in CallId /\ h \in Nat \ {0} /\ h < Limit
             /\ FrameEnd(c, d) \in Nat /\ starts[c][d + 1] = FrameEnd(c, d)
             /\ stream[c][from] = h
             /\ SubSeq(stream[c], from + 1, from + h) = call.header
             /\ from + h <= Len(stream[c])
             /\ ~(call.id = CONNECTION_CONTEXT_CALL_ID \/ call.id >= 0)
                  => FrameEnd(c, d + 1) = from + h
<1> DEFINE k == d + 1
           call == script[c][k]
           h == Len(call.header)
           from == FrameEnd(c, k - 1) + LengthSize + 1
           two == call.id = CONNECTION_CONTEXT_CALL_ID \/ call.id >= 0
<1>1. k \in 1..Len(starts[c]) /\ Plain(script[c][k]) /\ k - 1 = d
  OBVIOUS
<1> HIDE DEF k
<1>2. /\ call.id \in CallId /\ h \in Nat \ {0} /\ h \in 1..Limit - 1
      /\ FrameEnd(c, k - 1) \in Nat /\ starts[c][k] = FrameEnd(c, k - 1)
      /\ stream[c][from] = h
      /\ SubSeq(stream[c], from + 1, from + h) = call.header
      /\ from + h <= Len(stream[c])
      /\ ~two => FrameEnd(c, k) = from + h
  BY <1>1, PlainFrame, Zenon
<1>3. h < Limit
  <2> HIDE DEF h
  <2>1. QED
    BY <1>2, LimitAssumption
<1>4. QED
  BY <1>1, <1>2, <1>3 DEF k

\* The same of the d-th call, from its second message on.
LEMMA SecondMessage ==
  ASSUME Known, NEW c \in Peers, NEW d \in 1..Len(starts[c]), Plain(script[c][d]),
         script[c][d].id = CONNECTION_CONTEXT_CALL_ID \/ script[c][d].id >= 0
  PROVE  LET call == script[c][d]
             from == starts[c][d] + LengthSize + 1 + Len(call.header)
         IN  /\ from \in Nat /\ call.rest[1] \in Nat /\ call.rest[1] < Limit
             /\ stream[c][from + 1] = call.rest[1]
             /\ FrameEnd(c, d) = from + 1 + call.rest[1]
             /\ from + 1 + call.rest[1] <= Len(stream[c])
<1> DEFINE call == script[c][d]
           h == Len(call.header)
           b == FrameEnd(c, d - 1)
           from == b + LengthSize + 1
<1>1. /\ h \in Nat \ {0} /\ b \in Nat /\ starts[c][d] = b
      /\ FrameEnd(c, d) <= Len(stream[c])
      /\ call.rest[1] \in Nat /\ call.rest[1] < Limit
      /\ stream[c][from + h + 1] = call.rest[1]
      /\ FrameEnd(c, d) = from + h + 1 + call.rest[1]
  BY PlainFrame, Zenon
<1> HIDE DEF h, b, call
<1>2. from + h \in Nat
  BY <1>1
<1>3. QED
  BY <1>1, <1>2 DEF h, call

\* Bytes behind the d-th frame belong to the next call, which was sent whole
\* and is plain, or the client is astray.
LEMMA Partly ==
  ASSUME Known, NEW c \in Peers, NEW d \in Nat, d <= Len(starts[c]),
         Len(stream[c]) > FrameEnd(c, d)
  PROVE  Astray(c, d + 1) \/ (d + 1 \in 1..Len(starts[c]) /\ Plain(script[c][d + 1]))
<1>1. Len(starts[c]) \in Nat /\ Len(stream[c]) \in Nat /\ FrameEnd(c, d) \in Nat
  BY FrameEnds DEF Known, TypeInv
<1>2. CASE d < Len(starts[c])
  BY <1>1, <1>2 DEF Astray
<1>3. CASE d = Len(starts[c])
  <2>1. phase[c] \in {"idle", "connected", "calling", "left", "broken"}
    BY DEF Known, TypeInv, TypeOK
  <2>2. stream[c] # <<>>
    <3>1. Len(stream[c]) # 0
      BY <1>1
    <3>2. QED
      BY <3>1
  <2>3. phase[c] = "broken"
    BY <1>1, <1>3, <2>1, <2>2 DEF Known, EndInv
  <2>4. QED
    BY <1>1, <1>3, <2>3 DEF Astray
<1>4. QED
  BY <1>1, <1>2, <1>3

\* A client that is gone and has sent less than what comes next is astray, or
\* has left between two frames.
LEMMA NoMore ==
  ASSUME Known, NEW c \in Peers, NEW d \in Nat, d <= Len(starts[c]), Gone(c),
         FrameEnd(c, d) + LengthSize > Len(stream[c])
  PROVE  Astray(c, d + 1) \/ (phase[c] = "left" /\ Len(starts[c]) <= d)
<1>1. Len(starts[c]) \in Nat /\ Len(stream[c]) \in Nat /\ FrameEnd(c, d) \in Nat
  BY FrameEnds DEF Known, TypeInv
<1>2. ~(d + 1 <= Len(starts[c]))
  <2>1. ASSUME d + 1 <= Len(starts[c]) PROVE FALSE
    <3>1. d + 1 \in 1..Len(starts[c]) /\ (d + 1) - 1 = d
      BY <1>1, <2>1
    <3>2. /\ FrameEnd(c, d + 1) >= FrameEnd(c, (d + 1) - 1) + LengthSize + 1
          /\ FrameEnd(c, d + 1) <= Len(stream[c]) /\ FrameEnd(c, d + 1) \in Nat
      BY <1>1, <3>1, FrameEnds DEF Known, TypeInv
    <3>3. QED
      BY <1>1, <3>1, <3>2
  <2>2. QED
    BY <2>1
<1>3. QED
  BY <1>1, <1>2 DEF Gone, Astray

-----------------------------------------------------------------------------
(***************************************************************************)
(* The steps of the thread on a connection whose preamble was read: each   *)
(* takes one place to the next.  Clients do nothing meanwhile.             *)
(***************************************************************************)
Here(c, d) ==
  Known /\ c = conn /\ pc # "preamble" /\ d = Len(dispatched[c]) /\ Place(c, d)

\* A client that is astray stays so.
LEMMA AstrayOn ==
  ASSUME NEW c \in Peers, NEW k \in Nat, NEW n \in Nat, k <= n, Len(starts[c]) \in Nat,
         Astray(c, k)
  PROVE  Astray(c, n)
BY DEF Astray

\* What the two kinds of a read do.
LEMMA ReadKinds ==
  ASSUME TypeOK, conn \in Peers, NEW n \in Nat, Read(n), ~eof
  PROVE  \/ /\ Available(n) /\ ~CutShort(n)
            /\ taken'[conn] = taken[conn] + n /\ eof' = eof
         \/ /\ CutShort(n) /\ ~Available(n)
            /\ Gone(conn) /\ taken[conn] + n > Len(stream[conn]) /\ eof'
<1>1. Len(stream[conn]) \in Nat /\ taken[conn] + n \in Nat /\ taken \in [Peers -> Nat]
  BY DEF TypeOK
<1>2. QED
  BY <1>1 DEF Read, Available, CutShort

LEMMA ReadLengthPlace ==
  ASSUME NEW c \in Peers, NEW d \in Nat, Here(c, d), ReadLength
  PROVE  Place(c, d)'
<1>1. /\ pc = "top" /\ pc' = "size" /\ part' = "header" /\ conn = c
      /\ UNCHANGED <<script, phase, stream, starts>>
      /\ Read(LengthSize)
  BY DEF Here, ReadLength, clientVars
<1>2. CASE Astray(c, d + 1)
  BY <1>1, <1>2 DEF Place, Astray
<1>3. CASE AtHeader(c, d)
  <2>1. ~eof /\ d <= Len(starts[c]) /\ taken[c] = FrameEnd(c, d)
    BY <1>1, <1>3 DEF AtHeader, Behind
  <2>0. \/ taken'[c] = taken[c] + LengthSize /\ eof' = eof
        \/ Gone(c) /\ taken[c] + LengthSize > Len(stream[c]) /\ eof'
    BY <1>1, <2>1, ReadKinds DEF Here, Known, TypeInv
  <2>2. CASE taken'[c] = taken[c] + LengthSize /\ eof' = eof
    <3>1. AtHeader(c, d)'
      BY <1>1, <1>3, <2>1, <2>2 DEF AtHeader, Behind, FrameEnd
    <3>2. QED
      BY <3>1 DEF Place
  <2>3. CASE Gone(c) /\ taken[c] + LengthSize > Len(stream[c]) /\ eof'
    <3>1. Gone(c) /\ FrameEnd(c, d) + LengthSize > Len(stream[c]) /\ eof'
      BY <2>1, <2>3
    <3>2. Astray(c, d + 1) \/ (phase[c] = "left" /\ Len(starts[c]) <= d)
      BY <2>1, <3>1, NoMore DEF Here
    <3>3. QED
      BY <1>1, <3>1, <3>2 DEF Place, Astray, Over
  <2>4. QED
    BY <2>0, <2>2, <2>3
<1>4. CASE AtMessage(c, d)
  BY <1>1, <1>4 DEF AtMessage
<1>5. CASE Over(c, d)
  <2>1. eof'
    BY <1>1, <1>5 DEF Over, Read, readerVars
  <2>2. QED
    BY <1>1, <1>5, <2>1 DEF Over, Place
<1>6. QED
  BY <1>2, <1>3, <1>4, <1>5 DEF Here, Place

\* The byte that a read of one byte returns.
LEMMA NextByte ==
  ASSUME TypeOK, conn \in Peers, Available(1)
  PROVE  Upcoming(1)[1] = stream[conn][taken[conn] + 1]
<1>1. stream[conn] \in Seq(Nat) /\ taken[conn] \in Nat /\ taken[conn] + 1 <= Len(stream[conn])
  BY DEF TypeOK, Available
<1>2. QED
  BY <1>1, SubSeqProperties DEF Upcoming

\* The size that the thread is about to read is there, and is that of the
\* header or of the second message of a plain call, unless the client is
\* astray or the stream has ended before.
LEMMA SizeThere ==
  ASSUME NEW c \in Peers, NEW d \in Nat, Here(c, d), pc = "size"
  PROVE  \/ Astray(c, d + 1)
         \/ Over(c, d)
         \/ /\ AtHeader(c, d) /\ Available(1) /\ ~CutShort(1)
            /\ d + 1 \in 1..Len(starts[c]) /\ Plain(script[c][d + 1])
            /\ Upcoming(1)[1] = Len(script[c][d + 1].header) /\ Upcoming(1)[1] < Limit
         \/ /\ AtMessage(c, d) /\ Available(1) /\ ~CutShort(1)
            /\ Upcoming(1)[1] = script[c][d].rest[1] /\ Upcoming(1)[1] < Limit
<1>1. /\ Known /\ TypeOK /\ c = conn
      /\ Len(starts[c]) \in Nat /\ Len(stream[c]) \in Nat /\ taken[c] \in Nat
      /\ taken[c] <= Len(stream[c])
  BY FrameEnds DEF Here, Known, TypeInv, TakenInv
<1>2. ASSUME AtHeader(c, d)
      PROVE  \/ Astray(c, d + 1)
             \/ /\ Available(1) /\ ~CutShort(1)
                /\ d + 1 \in 1..Len(starts[c]) /\ Plain(script[c][d + 1])
                /\ Upcoming(1)[1] = Len(script[c][d + 1].header) /\ Upcoming(1)[1] < Limit
  <2>1. ~eof /\ d <= Len(starts[c]) /\ taken[c] = FrameEnd(c, d) + LengthSize
    BY <1>2 DEF AtHeader, Behind
  <2>2. FrameEnd(c, d) \in Nat
    BY <1>1, <2>1, FrameEnds DEF Known
  <2>3. \/ Astray(c, d + 1)
        \/ d + 1 \in 1..Len(starts[c]) /\ Plain(script[c][d + 1])
    BY <1>1, <2>1, <2>2, Partly
  <2>4. ASSUME d + 1 \in 1..Len(starts[c]), Plain(script[c][d + 1])
        PROVE  /\ Available(1) /\ ~CutShort(1)
               /\ Upcoming(1)[1] = Len(script[c][d + 1].header) /\ Upcoming(1)[1] < Limit
    <3> DEFINE h == Len(script[c][d + 1].header)
    <3>2. /\ h \in Nat /\ h < Limit
          /\ stream[c][FrameEnd(c, d) + LengthSize + 1] = h
          /\ FrameEnd(c, d) + LengthSize + 1 + h <= Len(stream[c])
      BY <1>1, <2>4, NextHeader, Zenon
    <3> HIDE DEF h
    <3>3. Available(1) /\ ~CutShort(1)
      BY <1>1, <2>1, <2>2, <3>2 DEF Available, CutShort
    <3>4. Upcoming(1)[1] = h
      BY <1>1, <2>1, <2>2, <3>2, <3>3, NextByte
    <3>5. QED
      BY <3>2, <3>3, <3>4 DEF h
  <2>5. QED
    BY <2>3, <2>4
<1>3. ASSUME AtMessage(c, d)
      PROVE  /\ Available(1) /\ ~CutShort(1)
             /\ Upcoming(1)[1] = script[c][d].rest[1] /\ Upcoming(1)[1] < Limit
  <2> DEFINE call == script[c][d]
             h == Len(call.header)
             from == starts[c][d] + LengthSize + 1 + h
  <2>1. /\ ~eof /\ d \in 1..Len(starts[c]) /\ Plain(call) /\ taken[c] = from
        /\ call.id = CONNECTION_CONTEXT_CALL_ID \/ call.id >= 0
    BY <1>1, <1>3 DEF AtMessage, Behind
  <2>2. /\ from \in Nat
        /\ call.rest[1] \in Nat /\ call.rest[1] < Limit
        /\ stream[c][from + 1] = call.rest[1]
        /\ from + 1 + call.rest[1] <= Len(stream[c])
    BY <1>1, <2>1, SecondMessage, Zenon
  <2> HIDE DEF call, from
  <2>3. Available(1) /\ ~CutShort(1)
    BY <1>1, <2>1, <2>2 DEF Available, CutShort
  <2>4. Upcoming(1)[1] = call.rest[1]
    BY <1>1, <2>1, <2>2, <2>3, NextByte
  <2>5. QED
    BY <2>2, <2>3, <2>4 DEF call
<1>4. QED
  BY <1>2, <1>3 DEF Here, Place

LEMMA ReadSizePlace ==
  ASSUME NEW c \in Peers, NEW d \in Nat, Here(c, d), ReadSize
  PROVE  Place(c, d)'
<1>1. /\ pc = "size" /\ pc' = "body" /\ part' = part /\ conn = c
      /\ UNCHANGED <<script, phase, stream, starts>>
      /\ Read(1) /\ taken \in [Peers -> Nat]
  BY DEF Here, Known, TypeInv, TypeOK, ReadSize, clientVars
<1>2. CASE Astray(c, d + 1)
  BY <1>1, <1>2 DEF Place, Astray
<1>3. CASE Over(c, d)
  <2>1. eof /\ eof' /\ size' = 0
    BY <1>1, <1>3 DEF Over, ReadSize, Read, Available, CutShort, readerVars
  <2>2. QED
    BY <1>1, <1>3, <2>1 DEF Over, Place
<1>4. ASSUME Available(1), ~CutShort(1)
      PROVE  taken'[c] = taken[c] + 1 /\ ~eof' /\ size' = Upcoming(1)[1]
  BY <1>1, <1>4 DEF Read, ReadSize, Available
<1>5. CASE /\ AtHeader(c, d) /\ Available(1) /\ ~CutShort(1)
           /\ d + 1 \in 1..Len(starts[c]) /\ Plain(script[c][d + 1])
           /\ Upcoming(1)[1] = Len(script[c][d + 1].header)
  <2>1. taken'[c] = FrameEnd(c, d) + LengthSize + 1 /\ ~eof' /\ part' = "header"
        /\ size' = Len(script[c][d + 1].header) /\ Behind(c, d)
    BY <1>1, <1>4, <1>5 DEF AtHeader
  <2>2. AtHeader(c, d)'
    BY <1>1, <1>5, <2>1 DEF AtHeader, Behind, FrameEnd
  <2>3. QED
    BY <2>2 DEF Place
<1>6. CASE /\ AtMessage(c, d) /\ Available(1) /\ ~CutShort(1)
           /\ Upcoming(1)[1] = script[c][d].rest[1]
  <2>1. ~eof' /\ size' = script[c][d].rest[1] /\ taken'[c] = taken[c] + 1
    BY <1>4, <1>6
  <2>2. AtMessage(c, d)'
    BY <1>1, <1>6, <2>1 DEF AtMessage, Behind
  <2>3. QED
    BY <2>2 DEF Place
<1>7. QED
  BY <1>1, <1>2, <1>3, <1>5, <1>6, SizeThere

LEMMA ReadBodyPlace ==
  ASSUME NEW c \in Peers, NEW d \in Nat, Here(c, d), ReadBody
  PROVE  Place(c, d)'
<1>1. /\ pc = "body" /\ conn = c /\ Known /\ TypeOK
      /\ UNCHANGED <<script, phase, stream, starts, part, size>>
      /\ taken[c] \in Nat /\ Len(stream[c]) \in Nat /\ Len(starts[c]) \in Nat
  BY FrameEnds DEF Here, Known, TypeInv, ReadBody, clientVars
<1>2. CASE Astray(c, d + 1)
  BY <1>1, <1>2 DEF Place, Astray
<1>3. CASE AtHeader(c, d)
  <2> DEFINE call == script[c][d + 1]
             h == Len(call.header)
             b == FrameEnd(c, d)
  <2>1. /\ part = "header" /\ ~eof /\ d + 1 \in 1..Len(starts[c]) /\ Plain(call)
        /\ size = h /\ taken[c] = b + LengthSize + 1
    BY <1>1, <1>3 DEF AtHeader, Behind
  <2>2. /\ call.id \in CallId /\ h \in Nat \ {0} /\ b \in Nat
        /\ SubSeq(stream[c], taken[c] + 1, taken[c] + h) = call.header
        /\ taken[c] + h <= Len(stream[c])
    BY <1>1, <2>1, NextHeader, Zenon
  <2>3. CallOf(call.header) = call.id
    <3>1. d + 1 \in 1..Len(script[c])
      <4>1. Len(starts[c]) <= Len(script[c]) /\ Len(script[c]) \in Nat
        BY <1>1, FrameEnds DEF Known, FramesInv
      <4>2. QED
        BY <1>1, <2>1, <4>1
    <3>2. QED
      BY <1>1, <3>1, CallType
  <2>4. Available(size) /\ ~CutShort(size) /\ ParsedId(Upcoming(size)) = call.id
    <3>1. Available(size) /\ ~CutShort(size)
      <4> HIDE DEF h, b, call
      <4>1. /\ ~eof /\ c = conn /\ size = h /\ taken[c] + h <= Len(stream[c])
            /\ Len(stream[c]) \in Nat /\ taken[c] \in Nat /\ h \in Nat \ {0}
        BY <1>1, <2>1, <2>2, Zenon
      <4>2. taken[conn] + size <= Len(stream[conn])
        BY <4>1, Zenon
      <4>3. ~(taken[conn] + size > Len(stream[conn]))
        BY <4>1, <4>2
      <4>4. QED
        BY <4>1, <4>2, <4>3, Zenon DEF Available, CutShort
    <3>2. Upcoming(size) = call.header
      BY <1>1, <2>1, <2>2 DEF Upcoming
    <3>3. QED
      BY <2>2, <2>3, <3>1, <3>2 DEF ParsedId
  <2>5. size # 0 /\ size > 0
    <3> HIDE DEF h
    <3>1. QED
      BY <2>1, <2>2
  <2>6. Read(size) /\ callid' = call.id /\ pc' = "dispatch"
    BY <2>1, <2>4, <2>5 DEF ReadBody
  <2>7. taken'[c] = b + LengthSize + 1 + h /\ ~eof'
    BY <1>1, <2>1, <2>4, <2>5, <2>6, ReadKinds DEF TypeOK
  <2>8. AtHeader(c, d)'
    <3>1. Behind(c, d)' /\ FrameEnd(c, d)' = FrameEnd(c, d)
      BY <1>1, <1>3, <2>7 DEF AtHeader, Behind, FrameEnd
    <3>2. d + 1 <= Len(starts[c])
      BY <1>1, <2>1
    <3>3. QED
      BY <1>1, <2>1, <2>6, <2>7, <3>1, <3>2 DEF AtHeader
  <2>9. QED
    BY <2>8 DEF Place
<1>4. CASE AtMessage(c, d)
  <2> DEFINE r == script[c][d].rest[1]
  <2>1. /\ part # "header" /\ ~eof /\ d \in 1..Len(starts[c]) /\ Plain(script[c][d])
        /\ script[c][d].id = CONNECTION_CONTEXT_CALL_ID \/ script[c][d].id >= 0
        /\ size = r
        /\ taken[c] = starts[c][d] + LengthSize + 1 + Len(script[c][d].header) + 1
    BY <1>1, <1>4 DEF AtMessage, Behind
  <2>2. r \in Nat /\ FrameEnd(c, d) = taken[c] + r /\ taken[c] + r <= Len(stream[c])
    BY <1>1, <2>1, SecondMessage, Zenon
  <2> HIDE DEF r
  <2>3. Available(size) /\ ~CutShort(size)
    BY <1>1, <2>1, <2>2 DEF Available, CutShort
  <2>4. taken'[c] = taken[c] + r /\ ~eof' /\ pc' = "top"
    <3>1. CASE size = 0
      BY <1>1, <2>1, <2>2, <3>1 DEF ReadBody, readerVars
    <3>2. CASE size # 0
      <4>1. Read(size) /\ size \in Nat
        BY <2>1, <2>2, <3>2 DEF ReadBody
      <4>2. QED
        BY <1>1, <2>1, <2>3, <4>1, ReadKinds DEF ReadBody
    <3>3. QED
      BY <3>1, <3>2
  <2>5. AtHeader(c, d)'
    BY <1>1, <1>4, <2>2, <2>4 DEF AtHeader, AtMessage, Behind, FrameEnd
  <2>6. QED
    BY <2>5 DEF Place
<1>5. CASE Over(c, d)
  <2>1. size = 0 /\ part = "header" /\ eof
    BY <1>1, <1>5 DEF Over
  <2>2. callid' = NoCall /\ eof' = eof /\ pc' = "dispatch"
    BY <2>1 DEF ReadBody, readerVars
  <2>3. QED
    BY <1>1, <1>5, <2>1, <2>2 DEF Over, Place
<1>6. QED
  BY <1>2, <1>3, <1>4, <1>5 DEF Here, Place

\* A dispatch takes the thread from the d-th call to the next one; what it
\* acts upon is that call, unless the client is astray.
LEMMA DispatchPlace ==
  ASSUME NEW c \in Peers, NEW d \in Nat, Here(c, d), DispatchMessage \/ DispatchOther
  PROVE  \/ UNCHANGED dispatched /\ Place(c, d)'
         \/ /\ callid # NoCall /\ dispatched' = Dispatched /\ Place(c, d + 1)'
            /\ \/ Astray(c, d + 1)
               \/ d + 1 <= Len(starts[c]) /\ callid = script[c][d + 1].id
<1>1. /\ pc = "dispatch" /\ conn = c /\ Known /\ TypeOK
      /\ UNCHANGED <<script, phase, stream, starts, eof, taken, callid>>
      /\ Len(starts[c]) \in Nat
      /\ UNCHANGED dispatched \/ (callid # NoCall /\ dispatched' = Dispatched)
  BY FrameEnds DEF Here, Known, TypeInv, DispatchMessage, DispatchOther, clientVars,
     readerVars, messageVars
<1>2. CASE Astray(c, d + 1)
  <2>1. Astray(c, d + 1)' /\ Astray(c, d + 2)'
    BY <1>1, <1>2 DEF Astray
  <2>2. (d + 1) + 1 = d + 2
    OBVIOUS
  <2>3. QED
    BY <1>1, <1>2, <2>1, <2>2 DEF Place
<1>3. CASE AtHeader(c, d)
  <2> DEFINE call == script[c][d + 1]
             h == Len(call.header)
             b == FrameEnd(c, d)
  <2>1. /\ ~eof /\ d + 1 \in 1..Len(starts[c]) /\ Plain(call)
        /\ callid = call.id /\ taken[c] = b + LengthSize + 1 + h
    BY <1>1, <1>3 DEF AtHeader, Behind
  <2>2. /\ call.id \in CallId /\ h \in Nat \ {0} /\ b \in Nat
        /\ starts[c][d + 1] = b
        /\ ~(call.id = CONNECTION_CONTEXT_CALL_ID \/ call.id >= 0)
             => FrameEnd(c, d + 1) = taken[c]
    BY <1>1, <2>1, NextHeader, Zenon
  <2>3. callid # NoCall /\ callid \in Int
    BY <2>1, <2>2, CallAssumption
  <2>4. Behind(c, d + 1)'
    <3>1. \A j \in 1..d + 1 : j \in 1..d \/ j = d + 1
      OBVIOUS
    <3>2. \A j \in 1..d : Plain(script[c][j])
      BY <1>3 DEF AtHeader, Behind
    <3>3. \A j \in 1..d + 1 : Plain(script[c][j])
      BY <2>1, <3>1, <3>2
    <3>4. QED
      BY <1>1, <2>1, <3>3 DEF Behind
  <2>5. CASE DispatchMessage
    <3>1. /\ pc' = "size" /\ part' # "header" /\ dispatched' = Dispatched
          /\ call.id = CONNECTION_CONTEXT_CALL_ID \/ call.id >= 0
      BY <2>1, <2>5 DEF DispatchMessage
    <3>2. AtMessage(c, d + 1)'
      BY <1>1, <2>1, <2>2, <2>4, <3>1 DEF AtMessage
    <3>3. QED
      BY <1>1, <2>1, <2>3, <3>1, <3>2 DEF Place
  <2>6. CASE DispatchOther
    <3>1. pc' = "top" /\ dispatched' = Dispatched /\ callid < PING_CALL_ID
      BY <2>3, <2>6 DEF DispatchOther
    <3>2. ~(call.id = CONNECTION_CONTEXT_CALL_ID \/ call.id >= 0)
      BY <2>1, <2>3, <3>1 DEF PING_CALL_ID, CONNECTION_CONTEXT_CALL_ID
    <3>3. FrameEnd(c, d + 1)' = taken'[c]
      BY <1>1, <2>2, <3>2 DEF FrameEnd
    <3>4. AtHeader(c, d + 1)'
      BY <2>4, <3>1, <3>3 DEF AtHeader
    <3>5. QED
      BY <1>1, <2>1, <2>3, <3>1, <3>4 DEF Place
  <2>7. QED
    BY <2>5, <2>6
<1>4. CASE AtMessage(c, d)
  BY <1>1, <1>4 DEF AtMessage
<1>5. CASE Over(c, d)
  <2>1. callid = NoCall /\ part = "header"
    BY <1>1, <1>5 DEF Over
  <2>2. UNCHANGED dispatched /\ pc' = "top"
    BY <2>1 DEF DispatchMessage, DispatchOther
  <2>3. Over(c, d)'
    BY <1>1, <1>5, <2>2 DEF Over
  <2>4. QED
    BY <2>2, <2>3 DEF Place
<1>6. QED
  BY <1>2, <1>3, <1>4, <1>5 DEF Here, Place

\* Behind the preamble the first frame begins.
LEMMA GetHeaderPlace ==
  ASSUME NEW c \in Peers, Known, AcceptInv, c = conn, GetHeader
  PROVE  UNCHANGED dispatched /\ dispatched[c] = <<>> /\ Place(c, 0)'
<1>1. /\ pc = "preamble" /\ pc' = "top" /\ Read(PreambleSize) /\ TypeOK
      /\ UNCHANGED <<script, phase, stream, starts, dispatched>>
      /\ taken[c] = 0 /\ dispatched[c] = <<>> /\ ~eof
      /\ Len(starts[c]) \in Nat /\ Len(stream[c]) \in Nat
  BY FrameEnds DEF GetHeader, clientVars, AcceptInv, Unread, Known, TypeInv
<1>2. FrameEnd(c, 0) = PreambleSize /\ FrameEnd(c, 0)' = PreambleSize
  BY DEF FrameEnd
<1>3. CASE taken'[c] = taken[c] + PreambleSize /\ eof' = eof
  <2>1. AtHeader(c, 0)'
    BY <1>1, <1>2, <1>3 DEF AtHeader, Behind
  <2>2. QED
    BY <1>1, <2>1 DEF Place
<1>4. CASE Gone(c) /\ taken[c] + PreambleSize > Len(stream[c]) /\ eof'
  <2>1. Len(stream[c]) < FrameEnd(c, 0)
    BY <1>1, <1>2, <1>4
  <2>2. ~(1 <= Len(starts[c]))
    <3>1. ASSUME 1 <= Len(starts[c]) PROVE FALSE
      <4>1. 1 \in 1..Len(starts[c]) /\ 1 - 1 = 0
        BY <1>1, <3>1
      <4>2. /\ FrameEnd(c, 1) >= FrameEnd(c, 1 - 1) + LengthSize + 1
            /\ FrameEnd(c, 1) <= Len(stream[c]) /\ FrameEnd(c, 1) \in Nat
        BY <1>1, <4>1, FrameEnds DEF Known
      <4>3. QED
        BY <1>1, <1>2, <2>1, <4>1, <4>2
    <3>2. QED
      BY <3>1
  <2>3. Len(starts[c]) = 0
    BY <1>1, <2>2
  <2>4. phase[c] = "left"
    BY <1>1, <1>2, <1>4, <2>1, <2>3 DEF Gone, Known, EndInv
  <2>5. Over(c, 0)'
    BY <1>1, <1>4, <2>3, <2>4 DEF Over
  <2>6. QED
    BY <1>1, <2>5 DEF Place
<1>5. QED
  BY <1>1, <1>3, <1>4, ReadKinds

-----------------------------------------------------------------------------
(***************************************************************************)
(* Every step keeps the invariant                                          *)
(***************************************************************************)

\* The steps of the thread that read or dispatch.
Moves == GetHeader \/ ReadLength \/ ReadSize \/ ReadBody \/ DispatchMessage \/ DispatchOther

\* The steps by which the process ends.
Ends == ReadSizeExits \/ DispatchExits \/ SocketFails \/ ExitElsewhere

\* The steps of clients.
Acts(c) == \/ ClientConnect(c) \/ ClientSendPreamble(c) \/ ClientSendCall(c)
           \/ ClientLeave(c) \/ ClientBreak(c)

LEMMA StepKinds ==
  [Next]_vars => \/ Moves \/ Ends \/ Listen \/ AcceptClientConnection \/ Restart
                 \/ UNCHANGED vars \/ \E c \in Peers : Acts(c)
BY DEF Next, MasterStep, Moves, Ends, Acts

\* What clients have sent is left alone by all others.
LEMMA ClientsStill ==
  FramesInv /\ EndInv /\ UNCHANGED clientVars => FramesInv' /\ EndInv'
BY DEF FramesInv, EndInv, FrameEnd, clientVars

LEMMA MoveKeeps ==
  ASSUME Known, Moves
  PROVE  /\ conn \in Peers /\ conn' = conn /\ pc' # "preamble"
         /\ UNCHANGED <<clientVars, backlog>>
         /\ \A c \in Peers : c # conn => taken'[c] = taken[c] /\ dispatched'[c] = dispatched[c]
         /\ TakenInv'
<1>1. /\ conn \in Peers /\ conn' = conn /\ pc' # "preamble"
      /\ UNCHANGED <<clientVars, backlog>>
  BY DEF Known, TypeInv, TypeOK, Moves, GetHeader, ReadLength, ReadSize, ReadBody,
     DispatchMessage, DispatchOther
<1>2. /\ taken \in [Peers -> Nat] /\ dispatched \in [Peers -> Seq(CallId)]
      /\ size \in Nat /\ Len(stream[conn]) \in Nat
  BY <1>1 DEF Known, TypeInv, TypeOK
<1>3. ASSUME NEW n \in Nat, Read(n)
      PROVE  /\ \A c \in Peers : c # conn => taken'[c] = taken[c]
             /\ taken'[conn] <= Len(stream[conn])
  BY <1>1, <1>2, <1>3 DEF Read, Available, CutShort, readerVars, Known, TakenInv
<1>4. ASSUME UNCHANGED taken
      PROVE  /\ \A c \in Peers : c # conn => taken'[c] = taken[c]
             /\ taken'[conn] <= Len(stream[conn])
  BY <1>1, <1>4 DEF Known, TakenInv
<1>5. \/ UNCHANGED taken \/ \E n \in Nat : Read(n)
  <2>1. PreambleSize \in Nat /\ LengthSize \in Nat /\ 1 \in Nat
    OBVIOUS
  <2>2. QED
    BY <1>2, <2>1 DEF Moves, GetHeader, ReadLength, ReadSize, ReadBody, DispatchMessage,
         DispatchOther, readerVars
<1>6. /\ \A c \in Peers : c # conn => taken'[c] = taken[c]
      /\ taken'[conn] <= Len(stream[conn])
  BY <1>3, <1>4, <1>5
<1>7. TakenInv'
  BY <1>1, <1>6 DEF Known, TakenInv, clientVars
<1>8. \A c \in Peers : c # conn => dispatched'[c] = dispatched[c]
  BY <1>2 DEF Moves, GetHeader, ReadLength, ReadSize, ReadBody, DispatchMessage,
     DispatchOther, Dispatched
<1>9. QED
  BY <1>1, <1>6, <1>7, <1>8

\* Where the thread is after such a step, and what it has dispatched.
LEMMA MovePlace ==
  ASSUME OrderInv, Moves, NEW c \in Peers, NEW d \in Nat, c = conn,
         d = Len(dispatched[c])
  PROVE  \/ UNCHANGED dispatched /\ Place(c, d)'
         \/ /\ callid # NoCall /\ dispatched' = Dispatched /\ Place(c, d + 1)'
            /\ \/ Astray(c, d + 1)
               \/ d + 1 <= Len(starts[c]) /\ callid = script[c][d + 1].id
<1>1. CASE GetHeader
  <2>1. dispatched[c] = <<>> /\ UNCHANGED dispatched /\ Place(c, 0)'
    BY <1>1, GetHeaderPlace DEF OrderInv
  <2>2. d = 0
    BY <2>1
  <2>3. QED
    BY <2>1, <2>2
<1>2. CASE ~GetHeader
  <2>1. pc # "preamble"
    BY <1>2 DEF Moves, ReadLength, ReadSize, ReadBody, DispatchMessage, DispatchOther
  <2>2. Here(c, d)
    BY <2>1 DEF OrderInv, PlaceInv, Here
  <2>3. CASE ReadLength \/ ReadSize \/ ReadBody
    <3>1. UNCHANGED dispatched
      BY <2>3 DEF ReadLength, ReadSize, ReadBody
    <3>2. QED
      BY <2>2, <2>3, <3>1, ReadLengthPlace, ReadSizePlace, ReadBodyPlace
  <2>4. QED
    BY <1>2, <2>2, <2>3, DispatchPlace DEF Moves
<1>3. QED
  BY <1>1, <1>2

LEMMA PlaceOf ==
  ASSUME NEW c \in Peers, NEW n \in Nat, n = Len(dispatched'[c]), Place(c, n)'
  PROVE  Place(c, Len(dispatched[c]))'
<1>1. CASE Astray(c, n + 1)'
  BY <1>1 DEF Place, Astray
<1>2. CASE AtHeader(c, n)'
  BY <1>2 DEF Place, AtHeader, Behind, FrameEnd
<1>3. CASE AtMessage(c, n)'
  BY <1>3 DEF Place, AtMessage, Behind
<1>4. CASE Over(c, n)'
  BY <1>4 DEF Place, Over
<1>5. QED
  BY <1>1, <1>2, <1>3, <1>4 DEF Place

LEMMA MoveStep == OrderInv /\ Moves /\ TypeInv' => OrderInv'
<1> SUFFICES ASSUME OrderInv, Moves, TypeInv' PROVE OrderInv'
  OBVIOUS
<1>1. /\ conn \in Peers /\ conn' = conn /\ pc' # "preamble" /\ Known /\ TypeOK
      /\ UNCHANGED <<script, phase, stream, starts, backlog>>
      /\ \A c \in Peers : c # conn => taken'[c] = taken[c] /\ dispatched'[c] = dispatched[c]
      /\ TakenInv' /\ FramesInv' /\ EndInv'
  BY MoveKeeps, ClientsStill DEF OrderInv, Known, TypeInv, clientVars
<1>2. AcceptInv'
  <2>1. ~Unread(conn)' /\ \A c \in Peers : Unread(c)' => Unread(c)
    BY <1>1 DEF OrderInv, AcceptInv, Unread, Waiting
  <2>2. QED
    BY <1>1, <2>1 DEF OrderInv, AcceptInv, Waiting
<1>3. PICK c \in Peers, d \in Nat : c = conn /\ d = Len(dispatched[c])
  BY <1>1, FrameEnds DEF Known
<1>4. /\ dispatched[c] \in Seq(CallId) /\ dispatched \in [Peers -> Seq(CallId)]
      /\ Len(starts[c]) \in Nat
  BY <1>1, FrameEnds DEF Known, TypeOK
<1>5. ASSUME NEW n \in Nat, Len(dispatched'[c]) = n, Place(c, n)'
      PROVE  PlaceInv'
  <2>1. conn' = c
    BY <1>1, <1>3
  <2>2. Place(c, Len(dispatched[c]))'
    BY <1>5, PlaceOf
  <2>3. ASSUME NEW e \in Peers, e = conn'
        PROVE  Place(e, Len(dispatched[e]))'
    BY <2>1, <2>2, <2>3
  <2>4. QED
    BY <2>3 DEF PlaceInv
<1>6. \A e \in Peers : e # c => dispatched'[e] = dispatched[e]
  <2>1. \A e \in Peers : e # conn => dispatched'[e] = dispatched[e]
    BY <1>1
  <2>2. QED
    BY <1>3, <2>1
<1>7. \A e \in Peers, k \in Nat : Astray(e, k)' <=> Astray(e, k)
  BY <1>1 DEF Astray
<1>8. ASSUME UNCHANGED dispatched, Place(c, d)'
      PROVE  PlaceInv' /\ DispatchInv'
  <2>1. PlaceInv'
    BY <1>3, <1>5, <1>8
  <2>2. DispatchInv'
    BY <1>1, <1>8 DEF OrderInv, DispatchInv, Astray
  <2>3. QED
    BY <2>1, <2>2
<1>9. ASSUME callid # NoCall, dispatched' = Dispatched, Place(c, d + 1)',
             \/ Astray(c, d + 1)
             \/ d + 1 <= Len(starts[c]) /\ callid = script[c][d + 1].id
      PROVE  PlaceInv' /\ DispatchInv'
  <2>1. callid \in CallId
    BY <1>1, <1>9 DEF TypeOK
  <2>2. dispatched'[c] = Append(dispatched[c], callid)
    BY <1>3, <1>4, <1>9 DEF Dispatched
  <2>3. /\ Len(dispatched'[c]) = d + 1
        /\ \A i \in 1..d : dispatched'[c][i] = dispatched[c][i]
        /\ dispatched'[c][d + 1] = callid
    BY <1>3, <1>4, <2>1, <2>2, AppendProperties
  <2>4. PlaceInv'
    BY <1>5, <1>9, <2>3
  <2>5. ASSUME NEW e \in Peers, NEW i \in 1..Len(dispatched'[e])
        PROVE  \/ Astray(e, i)'
               \/ i <= Len(starts'[e]) /\ dispatched'[e][i] = script'[e][i].id
    <3>1. CASE e = c /\ i = d + 1
      BY <1>1, <1>7, <1>9, <2>3, <3>1
    <3>2. CASE e = c /\ i # d + 1
      <4>1. i \in 1..Len(dispatched[e]) /\ dispatched'[e][i] = dispatched[e][i] /\ i \in Nat
        BY <1>3, <2>3, <3>2
      <4>2. QED
        BY <1>1, <1>7, <4>1 DEF OrderInv, DispatchInv
    <3>3. CASE e # c
      <4>1. i \in 1..Len(dispatched[e]) /\ dispatched'[e][i] = dispatched[e][i] /\ i \in Nat
        BY <1>6, <3>3
      <4>2. QED
        BY <1>1, <1>7, <4>1 DEF OrderInv, DispatchInv
    <3>4. QED
      BY <3>1, <3>2, <3>3
  <2>6. DispatchInv'
    BY <2>5 DEF DispatchInv
  <2>7. QED
    BY <2>4, <2>6
<1>10. PlaceInv' /\ DispatchInv'
  BY <1>3, <1>8, <1>9, MovePlace
<1>11. QED
  BY <1>1, <1>2, <1>10 DEF OrderInv, Known

\* What an end of the process, and what is done without a connection, keep.
LEMMA StillStep ==
  OrderInv /\ (Ends \/ Listen \/ AcceptClientConnection \/ Restart \/ UNCHANGED vars)
    /\ TypeInv' => OrderInv'
<1> SUFFICES ASSUME OrderInv,
                    Ends \/ Listen \/ AcceptClientConnection \/ Restart \/ UNCHANGED vars,
                    TypeInv'
             PROVE  OrderInv'
  OBVIOUS
<1>1. UNCHANGED <<script, phase, stream, starts, taken, dispatched>>
  BY DEF Ends, ReadSizeExits, DispatchExits, SocketFails, ExitElsewhere, Die, Listen,
     AcceptClientConnection, Restart, vars, clientVars, readerVars
<1>2. FramesInv' /\ EndInv' /\ TakenInv'
  BY <1>1, ClientsStill DEF OrderInv, Known, TakenInv, clientVars
<1>3. DispatchInv'
  BY <1>1 DEF OrderInv, DispatchInv, Astray
<1>4. PlaceInv' /\ AcceptInv'
  <2>1. CASE Ends
    <3>1. conn' = NoPeer /\ backlog' = <<>> /\ pc' = "top"
      BY <2>1 DEF Ends, ReadSizeExits, DispatchExits, SocketFails, ExitElsewhere, Die
    <3>2. \A c \in Peers : c # conn' /\ Waiting(c)' = {}
      BY <3>1, PeerAssumption DEF Waiting
    <3>3. QED
      BY <1>1, <3>1, <3>2 DEF OrderInv, PlaceInv, AcceptInv, Unread
  <2>2. CASE Listen
    <3>1. conn = NoPeer /\ UNCHANGED <<conn, backlog>> /\ pc' # "preamble"
      BY <2>2 DEF Listen, OrderInv, Known, TypeInv, TypeOK
    <3>2. \A c \in Peers : c # conn
      BY <3>1, PeerAssumption
    <3>3. QED
      BY <1>1, <3>1, <3>2 DEF OrderInv, PlaceInv, AcceptInv, Unread, Waiting
  <2>3. CASE AcceptClientConnection
    <3>1. /\ backlog # <<>> /\ backlog \in Seq(Peers) /\ pc' = "preamble" /\ ~eof'
          /\ conn' = Head(backlog) /\ backlog' = Tail(backlog)
      BY <2>3 DEF AcceptClientConnection, OrderInv, Known, TypeInv, TypeOK
    <3>2. Len(backlog) \in Nat \ {0} /\ DOMAIN backlog = 1..Len(backlog)
      BY <3>1, EmptySeq, LenProperties
    <3>3. /\ conn' = backlog[1]
          /\ DOMAIN backlog' = 1..Len(backlog) - 1
          /\ \A i \in DOMAIN backlog' : backlog'[i] = backlog[i + 1]
      BY <3>1, <3>2, HeadTailProperties, LenProperties
    <3>4. \A c \in Peers : \A i \in Waiting(c)' : i + 1 \in Waiting(c) /\ i \in Nat \ {0}
      BY <3>2, <3>3 DEF Waiting
    <3>5. \A c \in Peers : c = conn' => 1 \in Waiting(c)
      BY <3>2, <3>3 DEF Waiting
    <3>6. ASSUME NEW c \in Peers
          PROVE  /\ \A i, k \in Waiting(c)' : i = k
                 /\ Waiting(c)' # {} => c # conn' /\ phase[c] # "idle"
                 /\ c = conn' => phase[c] # "idle"
                 /\ Unread(c)' => Unread(c)
      <4>1. \A i, k \in Waiting(c) : i = k
        BY DEF OrderInv, AcceptInv
      <4>2. \A i, k \in Waiting(c)' : i + 1 = k + 1 /\ i \in Nat /\ k \in Nat
        BY <3>4, <4>1
      <4>3. Waiting(c)' # {} => c # conn'
        <5>1. ASSUME NEW i \in Waiting(c)', c = conn' PROVE FALSE
          <6>1. i + 1 = 1 /\ i \in Nat \ {0}
            BY <3>4, <3>5, <4>1, <5>1
          <6>2. QED
            BY <6>1
        <5>2. QED
          BY <5>1
      <4>4. Waiting(c)' # {} => Waiting(c) # {}
        BY <3>4
      <4>5. c = conn' => Waiting(c) # {}
        BY <3>5
      <4>6. QED
        BY <1>1, <4>2, <4>3, <4>4, <4>5 DEF OrderInv, AcceptInv, Unread
    <3>7. AcceptInv'
      BY <1>1, <3>1, <3>6 DEF OrderInv, AcceptInv
    <3>8. QED
      BY <3>1, <3>7 DEF PlaceInv
  <2>4. CASE Restart \/ UNCHANGED vars
    <3>1. UNCHANGED <<backlog, conn, pc, connectionHeaderRead, eof, part, size, callid>>
      BY <2>4 DEF Restart, vars, readerVars, messageVars
    <3>2. QED
      BY <1>1, <3>1 DEF OrderInv, PlaceInv, AcceptInv, Unread, Waiting, Place, Astray,
         AtHeader, AtMessage, Over, Behind, FrameEnd
  <2>5. QED
    BY <2>1, <2>2, <2>3, <2>4
<1>5. QED
  BY <1>2, <1>3, <1>4 DEF OrderInv, Known

\* What e has sent by a step is what it had sent, and perhaps more.
Grows(e) ==
  /\ Len(starts[e]) <= Len(starts'[e]) /\ Len(starts'[e]) \in Nat
  /\ \A i \in 1..Len(starts[e]) : starts'[e][i] = starts[e][i]
  /\ Len(stream[e]) <= Len(stream'[e]) /\ Len(stream'[e]) \in Nat
  /\ \A i \in 1..Len(stream[e]) : stream'[e][i] = stream[e][i]
  /\ phase[e] = "left" => phase'[e] = "left" /\ starts'[e] = starts[e]
  /\ phase[e] = "broken" => phase'[e] = "broken" /\ starts'[e] = starts[e]

\* A call is sent: its frame comes behind the stream.
LEMMA SendCallStream ==
  ASSUME Known, NEW c \in Peers, ClientSendCall(c), NEW n \in Nat, n = Len(starts[c])
  PROVE  LET f == Frame(script[c][n + 1])
         IN  /\ n + 1 \in 1..Len(script[c])
             /\ Len(f) \in Nat
             /\ Len(starts'[c]) = n + 1 /\ starts'[c][n + 1] = Len(stream[c])
             /\ \A i \in 1..n : starts'[c][i] = starts[c][i]
             /\ Len(stream'[c]) = Len(stream[c]) + Len(f)
             /\ \A i \in 1..Len(stream[c]) : stream'[c][i] = stream[c][i]
             /\ \A i \in 1..Len(f) : stream'[c][Len(stream[c]) + i] = f[i]
<1> DEFINE f == Frame(script[c][n + 1])
<1>1. /\ stream[c] \in Seq(Nat) /\ starts[c] \in Seq(Nat)
      /\ stream \in [Peers -> Seq(Nat)] /\ starts \in [Peers -> Seq(Nat)]
      /\ Len(stream[c]) \in Nat /\ n \in Nat /\ Len(script[c]) \in Nat
  BY FrameEnds DEF Known, TypeInv, TypeOK
<1>2. f \in Seq(Nat) /\ n + 1 \in 1..Len(script[c])
  BY <1>1, NextFrameType DEF Known, TypeInv, ClientSendCall, NextCall, MoreCalls
<1>3. starts'[c] = Append(starts[c], Len(stream[c])) /\ stream'[c] = stream[c] \o f
  BY <1>1 DEF ClientSendCall, NextCall
<1> HIDE DEF f
<1>4. /\ Len(starts'[c]) = n + 1 /\ starts'[c][n + 1] = Len(stream[c])
      /\ \A i \in 1..n : starts'[c][i] = starts[c][i]
  BY <1>1, <1>3, AppendProperties
<1>5. /\ Len(stream'[c]) = Len(stream[c]) + Len(f) /\ Len(f) \in Nat
      /\ \A i \in 1..Len(stream[c]) + Len(f) :
           stream'[c][i] = IF i <= Len(stream[c]) THEN stream[c][i] ELSE f[i - Len(stream[c])]
  BY <1>1, <1>2, <1>3, ConcatProperties, LenProperties
<1>6. \A i \in 1..Len(stream[c]) : stream'[c][i] = stream[c][i]
  BY <1>1, <1>5
<1>7. ASSUME NEW i \in 1..Len(f)
      PROVE  stream'[c][Len(stream[c]) + i] = f[i]
  <2>1. /\ Len(stream[c]) + i \in 1..Len(stream[c]) + Len(f)
        /\ ~(Len(stream[c]) + i <= Len(stream[c]))
        /\ (Len(stream[c]) + i) - Len(stream[c]) = i
    BY <1>1, <1>5, <1>7
  <2>2. QED
    BY <1>5, <2>1
<1>8. QED
  BY <1>2, <1>4, <1>5, <1>6, <1>7 DEF f

\* A call is broken off: a part of its frame comes behind the stream.
LEMMA BreakStream ==
  ASSUME Known, NEW c \in Peers, ClientBreak(c)
  PROVE  /\ Len(stream'[c]) \in Nat /\ Len(stream'[c]) >= Len(stream[c])
         /\ \A i \in 1..Len(stream[c]) : stream'[c][i] = stream[c][i]
<1> DEFINE f == Frame(NextCall(c))
<1>1. /\ stream[c] \in Seq(Nat) /\ stream \in [Peers -> Seq(Nat)] /\ Len(stream[c]) \in Nat
  BY FrameEnds DEF Known, TypeInv, TypeOK
<1>2. f \in Seq(Nat)
  BY NextFrameType DEF Known, TypeInv, ClientBreak
<1>3. PICK n \in 1..Len(f) - 1 : stream' = [stream EXCEPT ![c] = @ \o SubSeq(f, 1, n)]
  BY DEF ClientBreak
<1> DEFINE g == SubSeq(f, 1, n)
<1>4. g \in Seq(Nat) /\ stream'[c] = stream[c] \o g
  <2>1. g \in Seq(Nat)
    BY <1>2, SubSeqProperties
  <2>2. stream'[c] = stream[c] \o g
    <3> HIDE DEF g
    <3>1. stream' = [stream EXCEPT ![c] = @ \o g]
      BY <1>3 DEF g
    <3>2. QED
      BY <1>1, <3>1
  <2>3. QED
    BY <2>1, <2>2
<1> HIDE DEF g
<1>5. /\ Len(stream'[c]) = Len(stream[c]) + Len(g) /\ Len(g) \in Nat
      /\ \A i \in 1..Len(stream[c]) + Len(g) :
           stream'[c][i] = IF i <= Len(stream[c]) THEN stream[c][i] ELSE g[i - Len(stream[c])]
  BY <1>1, <1>4, ConcatProperties, LenProperties
<1>6. \A i \in 1..Len(stream[c]) : i \in 1..Len(stream[c]) + Len(g) /\ i <= Len(stream[c])
  BY <1>1, <1>5
<1>7. \A i \in 1..Len(stream[c]) : stream'[c][i] = stream[c][i]
  BY <1>5, <1>6, Zenon
<1>8. Len(stream'[c]) \in Nat /\ Len(stream'[c]) >= Len(stream[c])
  BY <1>1, <1>5
<1>9. QED
  BY <1>7, <1>8

LEMMA PreambleStream ==
  ASSUME Known, NEW c \in Peers, ClientSendPreamble(c)
  PROVE  /\ stream[c] = <<>> /\ starts[c] = <<>> /\ Len(stream'[c]) = PreambleSize
         /\ Len(stream[c]) = 0 /\ Len(starts[c]) = 0
<1>1. stream[c] = <<>> /\ starts[c] = <<>>
  BY DEF Known, EndInv, ClientSendPreamble
<1>2. stream'[c] = Preamble
  BY DEF Known, TypeInv, TypeOK, ClientSendPreamble
<1>3. Len(Preamble) = PreambleSize
  <2>1. Preamble \in Seq(Nat) /\ DOMAIN Preamble = 1..PreambleSize
    BY IsASeq DEF Preamble
  <2>2. QED
    BY <2>1, LenProperties
<1>4. QED
  BY <1>1, <1>2, <1>3

\* A client acts alone, sends behind what it has sent, and after its end nothing.
LEMMA ActKeeps ==
  ASSUME Known, NEW c \in Peers, Acts(c)
  PROVE  /\ UNCHANGED <<script, serverVars>>
         /\ \A e \in Peers : /\ Grows(e)
                             /\ phase'[e] = "idle" => phase[e] = "idle"
                             /\ e # c => UNCHANGED <<phase[e], stream[e], starts[e]>>
<1>1. UNCHANGED <<script, serverVars>>
  BY DEF Acts, ClientConnect, ClientSendPreamble, ClientSendCall, ClientLeave, ClientBreak
<1>2. /\ phase[c] \in {"idle", "connected", "calling"} /\ phase'[c] # "idle"
      /\ \A e \in Peers : e # c => UNCHANGED <<phase[e], stream[e], starts[e]>>
  BY DEF Acts, ClientConnect, ClientSendPreamble, ClientSendCall, ClientLeave,
     ClientBreak, Known, TypeInv, TypeOK
<1>3. \A e \in Peers : Len(starts[e]) \in Nat /\ Len(stream[e]) \in Nat
  BY FrameEnds DEF Known, TypeInv
<1>4. \A e \in Peers : UNCHANGED <<phase[e], stream[e], starts[e]>> => Grows(e)
  BY <1>3 DEF Grows
<1>5. Grows(c)
  <2>1. CASE ClientConnect(c) \/ ClientLeave(c)
    <3>1. UNCHANGED <<stream, starts>>
      BY <2>1 DEF ClientConnect, ClientLeave
    <3>2. QED
      BY <1>2, <1>3, <3>1 DEF Grows
  <2>2. CASE ClientSendPreamble(c)
    <3>1. UNCHANGED starts
      BY <2>2 DEF ClientSendPreamble
    <3>2. QED
      BY <1>2, <1>3, <2>2, <3>1, PreambleStream DEF Grows
  <2>3. CASE ClientSendCall(c)
    <3>1. PICK n \in Nat : n = Len(starts[c])
      BY <1>3
    <3> DEFINE k == Len(Frame(script[c][n + 1]))
    <3>2. /\ k \in Nat /\ Len(starts'[c]) = n + 1
          /\ \A i \in 1..n : starts'[c][i] = starts[c][i]
          /\ Len(stream'[c]) = Len(stream[c]) + k
          /\ \A i \in 1..Len(stream[c]) : stream'[c][i] = stream[c][i]
      BY <2>3, <3>1, SendCallStream
    <3> HIDE DEF k
    <3>3. QED
      BY <1>2, <1>3, <3>1, <3>2 DEF Grows
  <2>4. CASE ClientBreak(c)
    <3>1. UNCHANGED starts
      BY <2>4 DEF ClientBreak
    <3>2. QED
      BY <1>2, <1>3, <2>4, <3>1, BreakStream DEF Grows
  <2>5. QED
    BY <2>1, <2>2, <2>3, <2>4 DEF Acts
<1>6. QED
  BY <1>1, <1>2, <1>4, <1>5

\* Frames that were sent stay where they are.
LEMMA OldFrames ==
  ASSUME Known, NEW e \in Peers, Grows(e), UNCHANGED script
  PROVE  /\ \A i \in 0..Len(starts[e]) : FrameEnd(e, i)' = FrameEnd(e, i)
         /\ \A i \in 1..Len(starts[e]) :
              /\ starts'[e][i] = FrameEnd(e, i - 1)'
              /\ FrameEnd(e, i)' <= Len(stream'[e])
              /\ \A j \in 1..Len(Frame(script'[e][i])) :
                   stream'[e][starts'[e][i] + j] = Frame(script'[e][i])[j]
<1>1. /\ Len(starts[e]) \in Nat /\ Len(stream[e]) \in Nat /\ Len(script[e]) \in Nat
      /\ Len(starts[e]) <= Len(script[e])
  BY FrameEnds DEF Known, TypeInv, FramesInv
<1>2. \A i \in 0..Len(starts[e]) : FrameEnd(e, i)' = FrameEnd(e, i)
  <2>1. \A i \in 0..Len(starts[e]) : i # 0 => i \in 1..Len(starts[e])
    BY <1>1
  <2>2. QED
    BY <2>1 DEF FrameEnd, Grows
<1>3. ASSUME NEW i \in 1..Len(starts[e])
      PROVE  /\ starts'[e][i] = FrameEnd(e, i - 1)'
             /\ FrameEnd(e, i)' <= Len(stream'[e])
             /\ \A j \in 1..Len(Frame(script'[e][i])) :
                  stream'[e][starts'[e][i] + j] = Frame(script'[e][i])[j]
  <2>1. /\ starts[e][i] = FrameEnd(e, i - 1) /\ FrameEnd(e, i) <= Len(stream[e])
        /\ i - 1 \in 0..Len(starts[e]) /\ i \in 0..Len(starts[e])
        /\ FrameEnd(e, i) \in Nat /\ FrameEnd(e, i - 1) \in Nat
    <3>1. i - 1 \in 0..Len(starts[e]) /\ i \in 0..Len(starts[e])
      BY <1>1
    <3>2. TypeOK /\ FramesInv
      BY DEF Known, TypeInv
    <3>3. /\ \A k \in 0..Len(starts[e]) : FrameEnd(e, k) \in Nat
          /\ starts[e][i] = FrameEnd(e, i - 1) /\ FrameEnd(e, i) <= Len(stream[e])
      BY <3>2, FrameEnds
    <3>4. QED
      BY <3>1, <3>3, Zenon
  <2>2. starts'[e][i] = starts[e][i] /\ script'[e][i] = script[e][i]
    BY DEF Grows
  <2>3. starts'[e][i] = FrameEnd(e, i - 1)'
    BY <1>2, <2>1, <2>2
  <2>4. FrameEnd(e, i)' <= Len(stream'[e])
    BY <1>1, <1>2, <2>1 DEF Grows
  <2>5. ASSUME NEW j \in 1..Len(Frame(script[e][i]))
        PROVE  stream'[e][starts[e][i] + j] = Frame(script[e][i])[j]
    <3>1. i \in 1..Len(script[e])
      BY <1>1
    <3>2. Len(Frame(script[e][i])) \in Nat
      BY <3>1, CallType, FrameBytes DEF Known, TypeInv
    <3>3. FrameEnd(e, i) = starts[e][i] + Len(Frame(script[e][i]))
      BY <1>1 DEF FrameEnd
    <3>4. starts[e][i] + j \in 1..Len(stream[e])
      BY <1>1, <2>1, <3>2, <3>3
    <3>5. stream[e][starts[e][i] + j] = Frame(script[e][i])[j]
      BY DEF Known, FramesInv
    <3>6. QED
      BY <3>4, <3>5 DEF Grows
  <2>6. QED
    BY <2>2, <2>3, <2>4, <2>5
<1>4. QED
  BY <1>2, <1>3

LEMMA LastEnd ==
  ASSUME NEW e \in Peers, NEW n \in Nat, n = Len(starts'[e])
  PROVE  FrameEnd(e, Len(starts[e]))' = FrameEnd(e, n)'
BY DEF FrameEnd

LEMMA ActFrames ==
  ASSUME Known, NEW c \in Peers, Acts(c)
  PROVE  FramesInv' /\ EndInv'
<1>1. /\ UNCHANGED script
      /\ \A e \in Peers : /\ Grows(e)
                          /\ e # c => UNCHANGED <<phase[e], stream[e], starts[e]>>
  BY ActKeeps
<1>2. \A e \in Peers : Len(starts[e]) \in Nat /\ Len(stream[e]) \in Nat
                       /\ Len(script[e]) \in Nat /\ Len(starts[e]) <= Len(script[e])
  BY FrameEnds DEF Known, TypeInv, FramesInv
<1>3. ASSUME NEW e \in Peers
      PROVE  /\ \A i \in 0..Len(starts[e]) : FrameEnd(e, i)' = FrameEnd(e, i)
             /\ \A i \in 1..Len(starts[e]) :
                  /\ starts'[e][i] = FrameEnd(e, i - 1)'
                  /\ FrameEnd(e, i)' <= Len(stream'[e])
                  /\ \A j \in 1..Len(Frame(script'[e][i])) :
                       stream'[e][starts'[e][i] + j] = Frame(script'[e][i])[j]
  <2>1. Grows(e) /\ UNCHANGED script
    BY <1>1
  <2>2. QED
    BY <2>1, OldFrames
<1>4. ASSUME NEW e \in Peers, UNCHANGED starts[e]
      PROVE  FrameEnd(e, Len(starts[e]))' = FrameEnd(e, Len(starts[e]))
  <2>1. PICK n \in Nat : n = Len(starts[e])
    BY <1>2
  <2>2. FrameEnd(e, n)' = FrameEnd(e, n)
    BY <1>3, <2>1
  <2>3. n = Len(starts'[e])
    BY <1>4, <2>1
  <2>4. FrameEnd(e, Len(starts[e]))' = FrameEnd(e, n)'
    BY <2>3, LastEnd
  <2>5. QED
    BY <2>1, <2>2, <2>4
<1>5. \A e \in Peers : e # c =>
        /\ UNCHANGED <<phase[e], stream[e], starts[e]>>
        /\ FrameEnd(e, Len(starts[e]))' = FrameEnd(e, Len(starts[e]))
  BY <1>1, <1>4
<1>6. phase \in [Peers -> {"idle", "connected", "calling", "left", "broken"}]
  BY DEF Known, TypeInv, TypeOK
<1>7. CASE ClientSendCall(c)
  <2>1. PICK n \in Nat : n = Len(starts[c])
    BY <1>2
  <2> DEFINE f == Frame(script[c][n + 1])
  <2>2. /\ n + 1 \in 1..Len(script[c])
        /\ Len(f) \in Nat
        /\ Len(starts'[c]) = n + 1 /\ starts'[c][n + 1] = Len(stream[c])
        /\ Len(stream'[c]) = Len(stream[c]) + Len(f)
        /\ \A i \in 1..Len(f) : stream'[c][Len(stream[c]) + i] = f[i]
    BY <1>7, <2>1, SendCallStream
  <2>3. /\ Len(stream[c]) = FrameEnd(c, n) /\ phase[c] = "calling"
        /\ UNCHANGED phase
    BY <1>7, <2>1 DEF Known, EndInv, ClientSendCall
  <2>4. FrameEnd(c, n + 1)' = Len(stream'[c])
    <3>1. FrameEnd(c, n + 1)' = starts'[c][n + 1] + Len(Frame(script'[c][n + 1]))
      BY <2>1 DEF FrameEnd
    <3>2. QED
      BY <1>1, <2>2, <3>1
  <2> HIDE DEF f
  <2>5. ASSUME NEW i \in 1..Len(starts'[c])
        PROVE  /\ starts'[c][i] = FrameEnd(c, i - 1)'
               /\ FrameEnd(c, i)' <= Len(stream'[c])
               /\ \A j \in 1..Len(Frame(script'[c][i])) :
                    stream'[c][starts'[c][i] + j] = Frame(script'[c][i])[j]
    <3>1. CASE i \in 1..n
      BY <1>3, <2>1, <3>1
    <3>2. CASE i = n + 1
      <4>1. i - 1 = n /\ n \in 0..Len(starts[c])
        BY <2>1, <3>2
      <4>2. FrameEnd(c, n)' = FrameEnd(c, n)
        BY <1>3, <4>1
      <4>3. starts'[c][n + 1] = FrameEnd(c, n)'
        BY <2>2, <2>3, <4>2
      <4>4. FrameEnd(c, n + 1)' <= Len(stream'[c])
        <5>1. Len(stream'[c]) \in Nat
          BY <1>1 DEF Grows
        <5>2. QED
          BY <2>4, <5>1
      <4>5. \A j \in 1..Len(f) : stream'[c][starts'[c][n + 1] + j] = f[j]
        BY <2>2 DEF f
      <4>6. starts'[c][i] = FrameEnd(c, i - 1)' /\ FrameEnd(c, i)' <= Len(stream'[c])
        BY <3>2, <4>1, <4>3, <4>4 DEF FrameEnd
      <4>7. QED
        BY <1>1, <3>2, <4>5, <4>6 DEF f
    <3>3. QED
      BY <2>1, <2>2, <3>1, <3>2
  <2>6. ASSUME NEW e \in Peers
        PROVE  /\ Len(starts'[e]) <= Len(script'[e])
               /\ \A i \in 1..Len(starts'[e]) :
                    /\ starts'[e][i] = FrameEnd(e, i - 1)'
                    /\ FrameEnd(e, i)' <= Len(stream'[e])
                    /\ \A j \in 1..Len(Frame(script'[e][i])) :
                         stream'[e][starts'[e][i] + j] = Frame(script'[e][i])[j]
    <3>1. CASE e = c
      BY <1>1, <1>2, <2>2, <2>5, <3>1
    <3>2. CASE e # c
      <4>1. starts'[e] = starts[e] /\ script'[e] = script[e]
        BY <1>1, <3>2
      <4>2. Len(starts'[e]) <= Len(script'[e])
        BY <1>2, <4>1
      <4>3. \A i \in 1..Len(starts'[e]) : i \in 1..Len(starts[e])
        BY <4>1
      <4>4. QED
        BY <1>3, <4>2, <4>3
    <3>3. QED
      BY <3>1, <3>2
  <2>7. FramesInv'
    BY <2>6 DEF FramesInv
  <2>8. phase'[c] = "calling" /\ Len(stream'[c]) = FrameEnd(c, Len(starts[c]))'
    <3>1. FrameEnd(c, Len(starts[c]))' = FrameEnd(c, n + 1)'
      BY <2>2, LastEnd
    <3>2. QED
      BY <2>3, <2>4, <3>1
  <2>9. EndInv'
    BY <1>5, <2>8 DEF Known, EndInv
  <2>10. QED
    BY <2>7, <2>9
<1>8. CASE ~ClientSendCall(c)
  <2>1. UNCHANGED starts /\ FrameEnd(c, Len(starts[c]))' = FrameEnd(c, Len(starts[c]))
    <3>1. UNCHANGED starts
      BY <1>8 DEF Acts, ClientConnect, ClientSendPreamble, ClientLeave, ClientBreak
    <3>2. QED
      BY <1>4, <3>1
  <2>2. FramesInv'
    BY <1>1, <1>2, <1>3, <2>1 DEF FramesInv
  <2>3. /\ phase'[c] \in {"idle", "connected"} => stream'[c] = <<>> /\ starts'[c] = <<>>
        /\ phase'[c] = "calling" => Len(stream'[c]) = FrameEnd(c, Len(starts[c]))'
        /\ phase'[c] = "left" => \/ Len(stream'[c]) = FrameEnd(c, Len(starts[c]))'
                                 \/ stream'[c] = <<>> /\ starts'[c] = <<>>
        /\ phase'[c] = "broken" => Len(stream'[c]) >= FrameEnd(c, Len(starts[c]))'
    <3>1. CASE ClientConnect(c)
      BY <1>6, <3>1 DEF ClientConnect, Known, EndInv
    <3>2. CASE ClientSendPreamble(c)
      <4>1. phase'[c] = "calling" /\ Len(stream'[c]) = PreambleSize /\ Len(starts[c]) = 0
        BY <1>6, <3>2, PreambleStream DEF ClientSendPreamble
      <4>2. FrameEnd(c, Len(starts[c])) = PreambleSize
        BY <4>1 DEF FrameEnd
      <4>3. QED
        BY <2>1, <4>1, <4>2
    <3>3. CASE ClientLeave(c)
      BY <1>6, <2>1, <3>3 DEF ClientLeave, Known, EndInv
    <3>4. CASE ClientBreak(c)
      <4>1. phase'[c] = "broken" /\ Len(stream'[c]) >= Len(stream[c])
            /\ Len(stream[c]) = FrameEnd(c, Len(starts[c]))
        BY <1>6, <3>4, BreakStream DEF ClientBreak, Known, EndInv
      <4>2. QED
        BY <2>1, <4>1
    <3>5. QED
      BY <1>8, <3>1, <3>2, <3>3, <3>4 DEF Acts
  <2>4. EndInv'
    BY <1>5, <2>3 DEF Known, EndInv
  <2>5. QED
    BY <2>2, <2>4
<1>9. QED
  BY <1>7, <1>8

LEMMA ActAccepts ==
  ASSUME OrderInv, NEW c \in Peers, Acts(c)
  PROVE  AcceptInv'
<1>1. /\ UNCHANGED <<conn, pc, eof, taken, dispatched>> /\ TypeOK
      /\ \A e \in Peers : /\ phase'[e] = "idle" => phase[e] = "idle"
                          /\ e # c => phase'[e] = phase[e]
  BY ActKeeps DEF OrderInv, Known, TypeInv, serverVars, readerVars
<1>2. CASE ClientConnect(c)
  <2>1. phase[c] = "idle" /\ phase'[c] = "connected" /\ backlog' = Append(backlog, c)
    BY <1>1, <1>2 DEF ClientConnect, TypeOK
  <2>2. backlog \in Seq(Peers) /\ Len(backlog) \in Nat /\ DOMAIN backlog = 1..Len(backlog)
    BY <1>1, LenProperties DEF TypeOK
  <2>3. /\ DOMAIN backlog' = 1..Len(backlog) + 1
        /\ \A i \in 1..Len(backlog) : backlog'[i] = backlog[i]
        /\ backlog'[Len(backlog) + 1] = c
    BY <2>1, <2>2, AppendProperties, LenProperties
  <2>4. \A e \in Peers : e # c => Waiting(e)' = Waiting(e)
    BY <2>2, <2>3 DEF Waiting
  <2>5. Waiting(c) = {} /\ c # conn /\ taken[c] = 0 /\ dispatched[c] = <<>>
    BY <2>1 DEF OrderInv, AcceptInv, Unread
  <2>6. Waiting(c)' = {Len(backlog) + 1}
    <3>1. \A i \in DOMAIN backlog' : backlog'[i] = c <=> i = Len(backlog) + 1
      BY <2>2, <2>3, <2>5 DEF Waiting
    <3>2. QED
      BY <2>2, <2>3, <3>1 DEF Waiting
  <2>7. QED
    BY <1>1, <2>1, <2>4, <2>5, <2>6 DEF OrderInv, AcceptInv, Unread
<1>3. CASE ~ClientConnect(c)
  <2>1. UNCHANGED backlog
    BY <1>3 DEF Acts, ClientSendPreamble, ClientSendCall, ClientLeave, ClientBreak
  <2>2. \A e \in Peers : Waiting(e)' = Waiting(e)
    BY <2>1 DEF Waiting
  <2>3. QED
    BY <1>1, <2>2 DEF OrderInv, AcceptInv, Unread
<1>4. QED
  BY <1>2, <1>3

\* Nothing a client sends moves the place of the thread in what it sent before.
LEMMA ActPlace ==
  ASSUME OrderInv, NEW c \in Peers, Acts(c), NEW e \in Peers, e = conn,
         NEW d \in Nat, Place(e, d)
  PROVE  Place(e, d)'
<1>1. /\ UNCHANGED <<script, conn, pc, eof, taken, part, size, callid, dispatched>>
      /\ Grows(e) /\ Known
  BY ActKeeps DEF OrderInv, serverVars, readerVars, messageVars
<1>2. /\ Len(starts[e]) \in Nat /\ Len(starts'[e]) \in Nat /\ Len(starts[e]) <= Len(starts'[e])
      /\ \A i \in 0..Len(starts[e]) : FrameEnd(e, i)' = FrameEnd(e, i)
  BY <1>1, FrameEnds, OldFrames DEF Known, TypeInv, Grows
<1>3. CASE Astray(e, d + 1)
  <2>1. Astray(e, d + 1)'
    BY <1>1, <1>2, <1>3 DEF Astray, Grows
  <2>2. QED
    BY <2>1 DEF Place
<1>4. ASSUME Behind(e, d)
      PROVE  Behind(e, d)' /\ FrameEnd(e, d)' = FrameEnd(e, d)
  BY <1>1, <1>2, <1>4 DEF Behind
<1>5. CASE AtHeader(e, d)
  <2>1. Behind(e, d)' /\ FrameEnd(e, d)' = FrameEnd(e, d)
    BY <1>4, <1>5 DEF AtHeader
  <2>2. AtHeader(e, d)'
    BY <1>1, <1>2, <1>5, <2>1 DEF AtHeader
  <2>3. QED
    BY <2>2 DEF Place
<1>6. CASE AtMessage(e, d)
  <2>1. Behind(e, d)' /\ d \in 1..Len(starts[e])
    BY <1>2, <1>4, <1>6 DEF AtMessage, Behind
  <2>2. starts'[e][d] = starts[e][d]
    BY <1>1, <2>1 DEF Grows
  <2>3. AtMessage(e, d)'
    BY <1>1, <1>6, <2>1, <2>2 DEF AtMessage
  <2>4. QED
    BY <2>3 DEF Place
<1>7. CASE Over(e, d)
  <2>1. Over(e, d)'
    BY <1>1, <1>7 DEF Over, Grows
  <2>2. QED
    BY <2>1 DEF Place
<1>8. QED
  BY <1>3, <1>5, <1>6, <1>7 DEF Place

LEMMA ActStep ==
  ASSUME OrderInv, NEW c \in Peers, Acts(c), TypeInv'
  PROVE  OrderInv'
<1>1. /\ UNCHANGED <<script, conn, pc, taken, dispatched>> /\ Known
      /\ \A e \in Peers : Grows(e)
  BY ActKeeps DEF OrderInv, serverVars, readerVars
<1>2. \A e \in Peers : /\ taken[e] \in Nat /\ Len(stream[e]) \in Nat /\ Len(starts[e]) \in Nat
                       /\ Len(dispatched[e]) \in Nat
  BY <1>1, FrameEnds DEF Known, TypeInv
<1>3. FramesInv' /\ EndInv' /\ AcceptInv'
  BY <1>1, ActFrames, ActAccepts
<1>4. TakenInv'
  BY <1>1, <1>2 DEF Known, TakenInv, Grows
<1>5. PlaceInv'
  <2>1. ASSUME NEW e \in Peers, e = conn, pc # "preamble"
        PROVE  Place(e, Len(dispatched[e]))'
    <3>1. PICK d \in Nat : d = Len(dispatched[e])
      BY <1>2
    <3>2. Place(e, d)
      BY <2>1, <3>1 DEF OrderInv, PlaceInv
    <3>3. Place(e, d)'
      BY <2>1, <3>2, ActPlace
    <3>4. d = Len(dispatched'[e])
      BY <1>1, <3>1
    <3>5. QED
      BY <3>3, <3>4, PlaceOf
  <2>2. QED
    BY <1>1, <2>1 DEF PlaceInv
<1>6. DispatchInv'
  <2>1. ASSUME NEW e \in Peers, NEW i \in 1..Len(dispatched[e])
        PROVE  \/ Astray(e, i)'
               \/ i <= Len(starts'[e]) /\ dispatched[e][i] = script[e][i].id
    <3>1. CASE Astray(e, i)
      BY <1>1, <1>2, <3>1 DEF Astray, Grows
    <3>2. CASE i <= Len(starts[e]) /\ dispatched[e][i] = script[e][i].id
      BY <1>1, <1>2, <3>2 DEF Grows
    <3>3. QED
      BY <3>1, <3>2 DEF OrderInv, DispatchInv
  <2>2. QED
    BY <1>1, <2>1 DEF DispatchInv
<1>7. QED
  BY <1>3, <1>4, <1>5, <1>6 DEF OrderInv, Known

-----------------------------------------------------------------------------
(***************************************************************************)
(* The theorems                                                            *)
(***************************************************************************)

LEMMA OrderInit == Init => OrderInv
<1> SUFFICES ASSUME Init PROVE OrderInv
  OBVIOUS
<1>1. TypeInv
  BY TypeInit
<1>2. \A c \in Peers : /\ phase[c] = "idle" /\ stream[c] = <<>> /\ starts[c] = <<>>
                       /\ taken[c] = 0 /\ dispatched[c] = <<>>
  BY DEF Init
<1>3. Len(<<>>) = 0
  OBVIOUS
<1>4. FramesInv
  <2>1. \A c \in Peers : Len(script[c]) \in Nat
    <3>1. \A c \in Peers : script[c] \in Seq([id : CallId, header : Seq(Nat), rest : Seq(Nat)])
      BY <1>1, ScriptAssumption DEF TypeInv, TypeOK
    <3>2. QED
      BY <3>1, LenProperties
  <2>2. \A c \in Peers : 1..Len(starts[c]) = {} /\ Len(starts[c]) <= Len(script[c])
    <3>1. \A c \in Peers : Len(starts[c]) = 0
      BY <1>2, <1>3, Zenon
    <3>2. 1..0 = {} /\ \A n \in Nat : 0 <= n
      OBVIOUS
    <3>3. QED
      BY <2>1, <3>1, <3>2, Zenon
  <2>3. QED
    BY <2>2 DEF FramesInv
<1>5. EndInv /\ TakenInv
  BY <1>2, <1>3 DEF EndInv, TakenInv
<1>6. AcceptInv
  <2>1. \A c \in Peers : Waiting(c) = {} /\ c # conn
    <3>1. backlog = <<>> /\ DOMAIN <<>> = {} /\ conn = NoPeer
      BY DEF Init
    <3>2. QED
      BY <3>1, PeerAssumption DEF Waiting
  <2>2. QED
    BY <1>2, <2>1 DEF Init, AcceptInv
<1>7. PlaceInv /\ DispatchInv
  BY <1>2, <1>3, PeerAssumption DEF Init, PlaceInv, DispatchInv
<1>8. QED
  BY <1>1, <1>4, <1>5, <1>6, <1>7 DEF OrderInv, Known

LEMMA OrderStep == OrderInv /\ [Next]_vars => OrderInv'
<1> SUFFICES ASSUME OrderInv, [Next]_vars PROVE OrderInv'
  OBVIOUS
<1>1. TypeInv'
  BY TypeNext DEF OrderInv, Known
<1>2. QED
  BY <1>1, StepKinds, MoveStep, StillStep, ActStep

\* The master acts on the calls of a client in the order they were made, each
\* once, for as long as they are plain: whatever the client does behind them,
\* and however the arrival of its bytes and the reads of serverMain interleave.
THEOREM DispatchOrder == Spec => []CallsInOrder
<1>1. ASSUME OrderInv PROVE CallsInOrder
  <2>1. ASSUME NEW c \in Peers, NEW i \in DOMAIN dispatched[c], PlainUpTo(c, i)
        PROVE  dispatched[c][i] = script[c][i].id
    <3>1. i \in 1..Len(dispatched[c]) /\ Len(starts[c]) \in Nat
      BY <1>1, LenProperties DEF OrderInv, Known, TypeInv, TypeOK
    <3>2. ~Astray(c, i)
      BY <2>1, <3>1 DEF PlainUpTo, Astray
    <3>3. QED
      BY <1>1, <3>1, <3>2 DEF OrderInv, DispatchInv
  <2>2. QED
    BY <2>1 DEF CallsInOrder
<1>2. QED
  BY <1>1, OrderInit, OrderStep, PTL DEF Spec

\* Once it has a connection, the master's thread ends the process only for a
\* client that broke off in a call, or made one that is reserved or not plain:
\* one that leaves between two calls, or makes the calls of Hadoop, ends nobody's
\* session.
THEOREM ExitCause == Spec => ExitsForCause
<1> DEFINE Cause == \/ phase[conn] = "broken"
                    \/ \E i \in 1..Len(starts[conn]) :
                         ~Plain(script[conn][i]) \/ script[conn][i].id \in Reserved
<1>1. ASSUME NEW c \in Peers, NEW k \in Nat, c = conn, Astray(c, k)
      PROVE  Cause
  BY <1>1 DEF Astray
<1>2. ASSUME OrderInv, ReadSizeExits \/ DispatchExits
      PROVE  /\ conn \in Peers /\ pc \in {"size", "dispatch"}
             /\ \E d \in Nat : Here(conn, d)
  <2>1. /\ pc \in {"size", "dispatch"} /\ conn \in Peers
        /\ Len(dispatched[conn]) \in Nat /\ Known
    BY <1>2, FrameEnds DEF ReadSizeExits, DispatchExits, OrderInv, Known, TypeInv, TypeOK
  <2>2. QED
    BY <1>2, <2>1 DEF OrderInv, PlaceInv, Here
<1>3. ASSUME OrderInv, ReadSizeExits
      PROVE  Cause
  <2>1. PICK c \in Peers, d \in Nat : c = conn /\ Here(c, d)
    BY <1>2, <1>3
  <2>2. pc = "size" /\ (CutShort(1) \/ (Available(1) /\ ~(Upcoming(1)[1] < Limit)))
    <3>1. TypeOK /\ conn \in Peers
      BY <2>1 DEF Here, Known, TypeInv
    <3>2. Available(1) => Upcoming(1)[1] \in Nat
      BY <3>1, UpcomingType
    <3>3. QED
      BY <1>3, <3>2, LimitAssumption DEF ReadSizeExits
  <2>3. Astray(c, d + 1) \/ Over(c, d)
    BY <2>1, <2>2, SizeThere
  <2>4. ~Over(c, d)
    BY <2>2 DEF Over, CutShort, Available
  <2>5. QED
    BY <1>1, <2>1, <2>3, <2>4
<1>4. ASSUME OrderInv, DispatchExits
      PROVE  Cause
  <2>1. PICK c \in Peers, d \in Nat : c = conn /\ Here(c, d)
    BY <1>2, <1>4
  <2>2. pc = "dispatch" /\ callid \in Reserved
    BY <1>4 DEF DispatchExits
  <2>3. callid # NoCall
    BY <2>2, CallAssumption
      DEF Reserved, AUTHORIZATION_FAILED_CALL_ID, INVALID_CALL_ID, PING_CALL_ID
  <2>4. CASE Astray(c, d + 1)
    BY <1>1, <2>1, <2>4
  <2>5. CASE AtHeader(c, d)
    <3>1. d + 1 <= Len(starts[c]) /\ callid = script[c][d + 1].id /\ Len(starts[c]) \in Nat
      BY <2>1, <2>2, <2>5, FrameEnds DEF AtHeader, Here, Known, TypeInv
    <3>2. d + 1 \in 1..Len(starts[c])
      BY <3>1
    <3>3. QED
      BY <2>1, <2>2, <3>1, <3>2
  <2>6. ~AtMessage(c, d) /\ ~Over(c, d)
    BY <2>2, <2>3 DEF AtMessage, Over
  <2>7. QED
    BY <2>1, <2>4, <2>5, <2>6 DEF Here, Place
<1>5. OrderInv /\ [Next]_vars => [ReadSizeExits \/ DispatchExits => Cause]_vars
  BY <1>3, <1>4
<1>6. QED
  BY <1>5, OrderInit, OrderStep, PTL DEF Spec, ExitsForCause
=============================================================================
