--------------------------- MODULE MessageProof ---------------------------
(***************************************************************************)
(* What deserialize, serialize and string(buffer) return, for every text,  *)
(* message and buffer.                                                     *)
(***************************************************************************)
EXTENDS Message, CharBuffer, TLAPS, SequenceTheorems, FiniteSetTheorems

\* Min is the least element of any set of numbers that has an element
\* (the positions strtok and string(buffer) search for).
LEMMA MinOfNats ==
  ASSUME NEW S \in SUBSET Nat, S # {}
  PROVE  Min(S) \in S /\ \A x \in S : Min(S) <= x
<1> DEFINE Below(x) == 0..x
           T == {Below(x) : x \in S}
           R == StrictSubsetOrdering(Nat)
<1>1. IsWellFoundedOn(R, FiniteSubsetsOf(Nat))
  BY FS_StrictSubsetOrderingWellFounded
<1>2. T \subseteq FiniteSubsetsOf(Nat) /\ T # {}
  <2>1. \A x \in S : IsFiniteSet(Below(x)) /\ Below(x) \subseteq Nat
    BY FS_Interval
  <2>2. QED
    BY <2>1 DEF FiniteSubsetsOf
<1> HIDE DEF R
<1>3. \E t \in T : \A u \in T : ~(<<u, t>> \in R)
  <2> HIDE DEF T
  <2>1. QED
    BY <1>1, <1>2, WFMin
<1>4. PICK x \in S : \A y \in S : ~(<<Below(y), Below(x)>> \in R)
  BY <1>3
<1>5. \A y \in S : x <= y
  <2>1. SUFFICES ASSUME NEW y \in S, y < x PROVE FALSE
    OBVIOUS
  <2>2. Below(y) \subseteq Below(x) /\ Below(y) # Below(x)
    BY <2>1
  <2>3. Below(y) \in SUBSET Nat /\ Below(x) \in SUBSET Nat
    OBVIOUS
  <2>4. <<Below(y), Below(x)>> \in R
    <3> HIDE DEF Below
    <3>1. QED
      BY <2>2, <2>3 DEF R, StrictSubsetOrdering
  <2>5. QED
    BY <1>4, <2>4
<1>6. QED
  BY <1>5 DEF Min

\* strtok finds the first token behind a position: a run of units that begins
\* at the first one that is not a separator.
LEMMA StrtokType ==
  ASSUME NEW U, NEW text \in Seq(U), NEW from \in Nat \ {0}
  PROVE  /\ strtok(text, from).token \in Seq(U)
         /\ strtok(text, from).next \in Nat \ {0}
<1>1. CASE TokenStarts(text, from) = {}
  BY <1>1 DEF strtok
<1>2. CASE TokenStarts(text, from) # {}
  <2> DEFINE first == Min(TokenStarts(text, from))
             last  == Min(TokenEnds(text, first))
  <2>1. TokenStarts(text, from) \in SUBSET Nat
    BY DEF TokenStarts
  <2>2. first \in TokenStarts(text, from)
    BY <1>2, <2>1, MinOfNats
  <2>3. first \in Nat \ {0} /\ first <= Len(text)
    BY <2>2 DEF TokenStarts
  <2>4. TokenEnds(text, first) \in SUBSET Nat /\ Len(text) \in TokenEnds(text, first)
    BY <2>3 DEF TokenEnds
  <2>5. last \in TokenEnds(text, first)
    BY <2>4, MinOfNats
  <2>6. last \in first..Len(text)
    BY <2>5 DEF TokenEnds
  <2>7. SubSeq(text, first, last) \in Seq(U)
    <3>1. \A i \in first..last : text[i] \in U
      BY <2>3, <2>6, ElementOfSeq
    <3>2. QED
      BY <2>3, <2>6, <3>1, SubSeqProperties
  <2>8. QED
    BY <1>2, <2>3, <2>6, <2>7 DEF strtok
<1>3. QED
  BY <1>1, <1>2

\* Every token becomes a message type.
LEMMA TypeOfToken == \A token : getMessageType(token) \in MessageType
BY DEF getMessageType, Verb, MessageType

\* deserialize returns a message whose strings are made of what the text is
\* made of.
LEMMA DeserializeType ==
  ASSUME NEW U, NEW text \in Seq(U)
  PROVE  deserialize(text) \in MessageOver(U)
<1> DEFINE t == getMessageType(TypeToken(text).token)
<1>1. TypeToken(text).next \in Nat \ {0}
  BY StrtokType DEF TypeToken
<1>2. Token0(text).token \in Seq(U) /\ Token0(text).next \in Nat \ {0}
  BY <1>1, StrtokType DEF Token0
<1>3. Token1(text).token \in Seq(U)
  BY <1>2, StrtokType DEF Token1
<1>4. t \in MessageType
  BY TypeOfToken
<1>5. <<>> \in Seq(U)
  BY EmptySeq
<1>6. EmptyMessage(t) \in MessageOver(U)
  <2> HIDE DEF t
  <2>1. QED
    BY <1>4, <1>5 DEF EmptyMessage, MessageOver
<1>7. t \in {"READ", "WRITE", "UPLOAD", "STATUS", "DOWNLOAD", "CSDISCOVER",
             "LIST", "EXIT", "HELP", "INVALID"}
  BY <1>4 DEF MessageType
<1>8. QED
  BY <1>2, <1>3, <1>4, <1>5, <1>7 DEF deserialize, EmptyMessage, MessageOver

\* The text of a message is made of verbs, separators and what its strings are
\* made of.
LEMMA SerializeOver ==
  ASSUME NEW U, Verb \subseteq U, Sep \in U, NEW m \in MessageOver(U)
  PROVE  serialize(m) \in Seq(U) /\ Len(serialize(m)) >= 1
<1> DEFINE verb == <<messageTypeString[m.mtype]>>
           rest == CASE m.mtype \in {"READ", "WRITE", "UPLOAD"} -> <<Sep>> \o m.remoteFileName
                     [] m.mtype = "STATUS"     -> <<Sep>> \o m.statusString
                     [] m.mtype = "DOWNLOAD"   -> <<Sep>> \o m.remoteFileName
                                                  \o <<Sep>> \o m.localFileName
                     [] m.mtype = "CSDISCOVER" -> <<Sep>> \o m.chunkServerHostName
                                                  \o <<Sep>> \o m.chunkServerPortNum
                     [] m.mtype \in {"LIST", "EXIT", "HELP", "INVALID"} -> <<>>
<1>1. /\ m.mtype \in MessageType
      /\ m.remoteFileName \in Seq(U) /\ m.localFileName \in Seq(U)
      /\ m.statusString \in Seq(U) /\ m.chunkServerHostName \in Seq(U)
      /\ m.chunkServerPortNum \in Seq(U)
  BY DEF MessageOver
<1>2. verb \in Seq(U) /\ Len(verb) = 1
  BY <1>1 DEF Verb
<1>3. ASSUME NEW a \in Seq(U) PROVE <<Sep>> \o a \in Seq(U)
  BY ConcatProperties
<1>4. ASSUME NEW a \in Seq(U), NEW b \in Seq(U)
      PROVE  <<Sep>> \o a \o <<Sep>> \o b \in Seq(U)
  <2>1. <<Sep>> \in Seq(U)
    OBVIOUS
  <2>2. <<Sep>> \o a \in Seq(U)
    BY <1>3
  <2>3. (<<Sep>> \o a) \o <<Sep>> \in Seq(U)
    BY <2>1, <2>2, ConcatProperties
  <2>4. QED
    BY <2>3, ConcatProperties
<1>5. rest \in Seq(U)
  <2>1. CASE m.mtype \in {"READ", "WRITE", "UPLOAD"}
    BY <1>1, <1>3, <2>1
  <2>2. CASE m.mtype = "STATUS"
    BY <1>1, <1>3, <2>2
  <2>3. CASE m.mtype = "DOWNLOAD"
    BY <1>1, <1>4, <2>3
  <2>4. CASE m.mtype = "CSDISCOVER"
    BY <1>1, <1>4, <2>4
  <2>5. CASE m.mtype \in {"LIST", "EXIT", "HELP", "INVALID"}
    BY <2>5, EmptySeq
  <2>6. QED
    BY <1>1, <2>1, <2>2, <2>3, <2>4, <2>5 DEF MessageType
<1>6. serialize(m) = verb \o rest
  BY DEF serialize
<1> HIDE DEF verb, rest
<1>7. QED
  BY <1>2, <1>5, <1>6, ConcatProperties, LenProperties

\* The text of a request is made of its verb, separators and name pieces.
LEMMA SerializeType ==
  ASSUME NEW m \in Message, m.mtype \in {"READ", "UPLOAD", "DOWNLOAD"}
  PROVE  /\ serialize(m) \in Seq(Part \cup Verb \cup {Sep})
         /\ Len(serialize(m)) >= 2
<1> DEFINE U == Part \cup Verb \cup {Sep}
<1>1. /\ <<messageTypeString[m.mtype]>> \in Seq(U)
      /\ Len(<<messageTypeString[m.mtype]>>) = 1
  BY DEF Verb, Message, MessageType
<1>2. <<Sep>> \in Seq(U) /\ Len(<<Sep>>) = 1
  OBVIOUS
<1>3. m.remoteFileName \in Seq(U) /\ m.localFileName \in Seq(U)
  <2>1. Part \subseteq U
    OBVIOUS
  <2>2. m.remoteFileName \in Seq(Part) /\ m.localFileName \in Seq(Part)
    BY DEF Message
  <2>3. QED
    BY <2>1, <2>2, SeqMonotonic
<1>4. CASE m.mtype \in {"READ", "UPLOAD"}
  <2>1. serialize(m) =
          <<messageTypeString[m.mtype]>> \o (<<Sep>> \o m.remoteFileName)
    BY <1>4 DEF serialize
  <2> HIDE DEF U
  <2>2. <<Sep>> \o m.remoteFileName \in Seq(U) /\ Len(<<Sep>> \o m.remoteFileName) >= 1
    BY <1>2, <1>3, ConcatProperties, LenProperties
  <2>3. QED
    BY <1>1, <2>1, <2>2, ConcatProperties, LenProperties DEF U
<1>5. CASE m.mtype = "DOWNLOAD"
  <2> DEFINE verb == <<messageTypeString[m.mtype]>>
             a == <<Sep>> \o m.remoteFileName
             b == a \o <<Sep>>
             c == b \o m.localFileName
  <2>1. serialize(m) = verb \o c
    BY <1>5 DEF serialize
  <2>2. verb \in Seq(U) /\ Len(verb) = 1
    BY <1>1
  <2> HIDE DEF U, verb
  <2>3. a \in Seq(U) /\ Len(a) >= 1
    BY <1>2, <1>3, ConcatProperties, LenProperties
  <2> HIDE DEF a
  <2>4. b \in Seq(U) /\ Len(b) >= 1
    BY <1>2, <2>3, ConcatProperties, LenProperties
  <2> HIDE DEF b
  <2>5. c \in Seq(U) /\ Len(c) >= 1
    BY <1>3, <2>4, ConcatProperties, LenProperties
  <2> HIDE DEF c
  <2>6. serialize(m) \in Seq(U) /\ Len(serialize(m)) >= 2
    BY <2>1, <2>2, <2>5, ConcatProperties, LenProperties
  <2>7. QED
    BY <2>6 DEF U
<1>6. QED
  BY <1>4, <1>5

-----------------------------------------------------------------------------
(***************************************************************************)
(* string(buffer)                                                          *)
(***************************************************************************)

\* The string holds the leading cells that are not NUL, and ends with the
\* first one that is.
LEMMA CStringsOf ==
  ASSUME NEW U, BufSize \in Nat, Junk \in U,
         NEW cells \in [1..BufSize -> U], NEW text \in CStrings(cells),
         NEW n \in 0..BufSize, \A i \in 1..n : cells[i] # Nul
  PROVE  /\ text \in Seq(U)
         /\ Len(text) \in Nat /\ Len(text) >= n
         /\ \A i \in 1..n : text[i] = cells[i]
         /\ n < BufSize /\ cells[n + 1] = Nul => Len(text) = n
<1>1. \A k \in 0..BufSize : /\ Leading(cells, k) \in Seq(U)
                            /\ Len(Leading(cells, k)) = k
                            /\ \A i \in 1..k : Leading(cells, k)[i] = cells[i]
  <2>1. ASSUME NEW k \in 0..BufSize
        PROVE  /\ Leading(cells, k) \in Seq(U)
               /\ Len(Leading(cells, k)) = k
               /\ \A i \in 1..k : Leading(cells, k)[i] = cells[i]
    <3>1. k \in Nat /\ \A i \in 1..k : cells[i] \in U
      OBVIOUS
    <3>2. Leading(cells, k) \in Seq(U) /\ Len(Leading(cells, k)) = k
      BY <3>1, IsASeq, LenProperties DEF Leading
    <3>3. QED
      BY <3>2 DEF Leading
  <2>2. QED
    BY <2>1
<1>2. CASE Nuls(cells) = {}
  <2> DEFINE all == Leading(cells, BufSize)
  <2>1. BufSize \in 0..BufSize /\ BufSize \in Nat /\ Junk \in U
    OBVIOUS
  <2>2. /\ all \in Seq(U) /\ Len(all) = BufSize
        /\ \A i \in 1..BufSize : all[i] = cells[i]
    BY <1>1, <2>1
  <2>3. text = all \/ text = Append(all, Junk)
    BY <1>2 DEF CStrings
  <2> HIDE DEF all
  <2>4. /\ text \in Seq(U) /\ Len(text) \in Nat /\ Len(text) >= BufSize
        /\ \A i \in 1..BufSize : text[i] = cells[i]
    BY <2>1, <2>2, <2>3, AppendProperties
  <2>5. n < BufSize => cells[n + 1] # Nul
    BY <1>2 DEF Nuls
  <2>6. QED
    BY <2>1, <2>4, <2>5
<1>3. CASE Nuls(cells) # {}
  <2> DEFINE first == Min(Nuls(cells))
  <2>1. Nuls(cells) \in SUBSET Nat
    BY DEF Nuls
  <2>2. first \in Nuls(cells) /\ \A i \in Nuls(cells) : first <= i
    BY <1>3, <2>1, MinOfNats
  <2>3. text = Leading(cells, first - 1)
    BY <1>3 DEF CStrings
  <2> HIDE DEF first
  <2>4. first \in 1..BufSize /\ cells[first] = Nul
    BY <2>2 DEF Nuls
  <2>5. first > n /\ first - 1 \in 0..BufSize
    BY <2>4
  <2>6. n < BufSize /\ cells[n + 1] = Nul => first = n + 1
    <3>1. ASSUME n < BufSize, cells[n + 1] = Nul PROVE n + 1 \in Nuls(cells)
      BY <3>1 DEF Nuls
    <3>2. QED
      BY <2>2, <2>4, <2>5, <3>1
  <2>7. QED
    BY <1>1, <2>3, <2>4, <2>5, <2>6
<1>4. QED
  BY <1>2, <1>3

\* The string of a buffer is made of what the buffer is made of.
LEMMA CStringsType ==
  ASSUME NEW U, BufSize \in Nat, Junk \in U,
         NEW cells \in [1..BufSize -> U], NEW text \in CStrings(cells)
  PROVE  text \in Seq(U)
<1>1. 0 \in 0..BufSize /\ \A i \in 1..0 : cells[i] # Nul
  OBVIOUS
<1>2. QED
  BY <1>1, CStringsOf

-----------------------------------------------------------------------------
(***************************************************************************)
(* Tokens.  A text is Free when it has no separator.                       *)
(***************************************************************************)
Free(a) == \A k \in 1..Len(a) : a[k] # Sep

\* The n units of a lie behind p units of the text, between separators, and
\* nothing but separators comes before them from a position on.
LiesAt(text, from, p, a, n) ==
  /\ Len(a) = n /\ from <= p + 1 /\ p + n <= Len(text)
  /\ \A k \in from..p : text[k] = Sep
  /\ \A k \in 1..n : text[p + k] = a[k]
  /\ p + n < Len(text) => text[p + n + 1] = Sep

\* A run of units between separators is a token.
LEMMA TokenAt ==
  ASSUME NEW U, NEW text \in Seq(U), NEW a \in Seq(U), Free(a),
         NEW from \in Nat \ {0}, NEW p \in Nat, NEW n \in Nat \ {0},
         LiesAt(text, from, p, a, n)
  PROVE  strtok(text, from).token = a /\ strtok(text, from).next = p + n + 1
<1>0. /\ Len(a) = n /\ from <= p + 1 /\ p + n <= Len(text)
      /\ \A k \in from..p : text[k] = Sep
      /\ \A k \in 1..n : text[p + k] = a[k]
      /\ p + n < Len(text) => text[p + n + 1] = Sep
  BY DEF LiesAt
<1> DEFINE i == p + 1
           j == p + n
<1>1. Len(text) \in Nat /\ i \in Nat \ {0} /\ from <= i
  BY <1>0, LenProperties
<1>2. j \in Nat /\ i <= j /\ j <= Len(text)
  BY <1>0, <1>1
<1>3. \A k \in i..j : text[k] # Sep
  <2>1. ASSUME NEW k \in i..j PROVE text[k] # Sep
    <3>1. k - p \in 1..n /\ p + (k - p) = k
      BY <1>1, <1>2
    <3>2. text[p + (k - p)] = a[k - p] /\ a[k - p] # Sep
      BY <1>0, <3>1 DEF Free
    <3>3. QED
      BY <3>1, <3>2
  <2>2. QED
    BY <2>1
<1>4. j < Len(text) => text[j + 1] = Sep
  BY <1>0, <1>2
<1>5. SubSeq(text, i, j) = a
  <2>1. \A k \in i..j : text[k] \in U
    BY <1>1, <1>2, ElementOfSeq
  <2>2. /\ SubSeq(text, i, j) \in Seq(U) /\ Len(SubSeq(text, i, j)) = j - i + 1
        /\ \A k \in 1..j - i + 1 : SubSeq(text, i, j)[k] = text[i + k - 1]
    BY <1>2, <2>1, SubSeqProperties
  <2>3. j - i + 1 = n /\ \A k \in 1..n : i + k - 1 = p + k
    BY <1>1, <1>2
  <2> DEFINE b == SubSeq(text, i, j)
  <2>4. b \in Seq(U) /\ Len(b) = Len(a) /\ \A k \in 1..Len(b) : b[k] = a[k]
    BY <1>0, <2>2, <2>3
  <2> HIDE DEF b
  <2>5. b = a
    BY <2>4, SeqEqual
  <2>6. QED
    BY <2>5 DEF b
<1>10. \A k \in from..i - 1 : text[k] = Sep
  BY <1>0, <1>1
<1>11. j + 1 = p + n + 1
  OBVIOUS
<1> HIDE DEF j, i
<1>6. TokenStarts(text, from) \in SUBSET Nat /\ i \in TokenStarts(text, from)
  BY <1>1, <1>2, <1>3 DEF TokenStarts
<1>7. Min(TokenStarts(text, from)) = i
  <2> DEFINE first == Min(TokenStarts(text, from))
  <2>1. first \in TokenStarts(text, from) /\ first <= i
    BY <1>6, MinOfNats
  <2>2. first \in from..Len(text) /\ text[first] # Sep
    BY <2>1 DEF TokenStarts
  <2> HIDE DEF first
  <2>3. first = i
    BY <1>1, <1>10, <2>1, <2>2
  <2>4. QED
    BY <2>3 DEF first
<1>8. TokenEnds(text, i) \in SUBSET Nat /\ j \in TokenEnds(text, i)
  BY <1>1, <1>2, <1>4 DEF TokenEnds
<1>9. Min(TokenEnds(text, i)) = j
  <2> DEFINE last == Min(TokenEnds(text, i))
  <2>1. last \in TokenEnds(text, i) /\ last <= j
    BY <1>8, MinOfNats
  <2>2. last \in i..Len(text) /\ (last = Len(text) \/ text[last + 1] = Sep)
    BY <2>1 DEF TokenEnds
  <2> HIDE DEF last
  <2>3. last < j => last + 1 \in i..j
    BY <1>1, <1>2, <2>2
  <2>4. last = j
    BY <1>1, <1>2, <1>3, <2>1, <2>2, <2>3
  <2>5. QED
    BY <2>4 DEF last
<1>12. QED
  BY <1>5, <1>11, <1>6, <1>7, <1>9 DEF strtok

\* No token has a separator in it.
LEMMA TokenFree ==
  ASSUME NEW U, NEW text \in Seq(U), NEW from \in Nat \ {0}
  PROVE  Free(strtok(text, from).token)
<1>1. CASE TokenStarts(text, from) = {}
  BY <1>1 DEF strtok, Free
<1>2. CASE TokenStarts(text, from) # {}
  <2> DEFINE first == Min(TokenStarts(text, from))
             last  == Min(TokenEnds(text, first))
             token == SubSeq(text, first, last)
  <2>1. TokenStarts(text, from) \in SUBSET Nat /\ Len(text) \in Nat
    BY LenProperties DEF TokenStarts
  <2>2. first \in TokenStarts(text, from)
    BY <1>2, <2>1, MinOfNats
  <2>3. first \in Nat \ {0} /\ first <= Len(text) /\ text[first] # Sep
    BY <2>2 DEF TokenStarts
  <2>4. TokenEnds(text, first) \in SUBSET Nat /\ Len(text) \in TokenEnds(text, first)
    BY <2>1, <2>3 DEF TokenEnds
  <2>5. last \in TokenEnds(text, first) /\ \A j \in TokenEnds(text, first) : last <= j
    BY <2>4, MinOfNats
  <2>6. last \in first..Len(text)
    BY <2>5 DEF TokenEnds
  <2>7. strtok(text, from).token = token
    BY <1>2 DEF strtok
  <2> HIDE DEF first, last
  <2>8. ASSUME NEW k \in first..last PROVE text[k] # Sep
    <3>1. CASE k = first
      BY <2>3, <3>1
    <3>2. CASE k # first
      <4>1. k - 1 \in first..Len(text) /\ k - 1 < last /\ (k - 1) + 1 = k
        BY <2>1, <2>3, <2>6, <3>2
      <4>2. k - 1 \notin TokenEnds(text, first)
        BY <2>5, <2>6, <4>1
      <4>3. QED
        BY <4>1, <4>2 DEF TokenEnds
    <3>3. QED
      BY <3>1, <3>2
  <2>9. /\ Len(token) = last - first + 1
        /\ \A k \in 1..last - first + 1 : token[k] = text[first + k - 1]
    <3>1. \A k \in first..last : text[k] \in U
      BY <2>1, <2>3, <2>6, ElementOfSeq
    <3>2. QED
      BY <2>3, <2>6, <3>1, SubSeqProperties
  <2>10. ASSUME NEW k \in 1..Len(token) PROVE token[k] # Sep
    <3> HIDE DEF token
    <3>1. k \in 1..last - first + 1 /\ first + k - 1 \in first..last
      BY <2>3, <2>6, <2>9
    <3>2. QED
      BY <2>8, <2>9, <3>1
  <2>11. QED
    BY <2>7, <2>10 DEF Free
<1>3. QED
  BY <1>1, <1>2

\* No string of a message that was deserialized has a separator in it.
LEMMA DeserializeFree ==
  ASSUME NEW U, NEW text \in Seq(U)
  PROVE  deserialize(text) \in MessageOver(U \ {Sep})
<1> DEFINE t == getMessageType(TypeToken(text).token)
           V == U \ {Sep}
<1>1. ASSUME NEW a \in Seq(U), Free(a) PROVE a \in Seq(V)
  <2>1. /\ Len(a) \in Nat /\ DOMAIN a = 1..Len(a)
        /\ \A i \in 1..Len(a) : a[i] \in U /\ a[i] # Sep
    BY <1>1, LenProperties, ElementOfSeq DEF Free
  <2>2. a \in [1..Len(a) -> V]
    BY <1>1, <2>1, SeqDef
  <2>3. QED
    BY <2>1, <2>2, SeqDef
<1>2. TypeToken(text).next \in Nat \ {0}
  BY StrtokType DEF TypeToken
<1>3. /\ Token0(text).token \in Seq(U) /\ Token0(text).next \in Nat \ {0}
      /\ Free(Token0(text).token)
  BY <1>2, StrtokType, TokenFree DEF Token0
<1>4. Token1(text).token \in Seq(U) /\ Free(Token1(text).token)
  BY <1>3, StrtokType, TokenFree DEF Token1
<1>5. Token0(text).token \in Seq(V) /\ Token1(text).token \in Seq(V)
  BY <1>1, <1>3, <1>4
<1>6. t \in MessageType
  BY TypeOfToken
<1> HIDE DEF V
<1>7. <<>> \in Seq(V)
  BY EmptySeq
<1>8. deserialize(text) \in MessageOver(V)
  <2>1. t \in {"READ", "WRITE", "UPLOAD", "STATUS", "DOWNLOAD", "CSDISCOVER",
               "LIST", "EXIT", "HELP", "INVALID"}
    BY <1>6 DEF MessageType
  <2>2. QED
    BY <1>5, <1>6, <1>7, <2>1 DEF deserialize, EmptyMessage, MessageOver
<1>9. QED
  BY <1>8 DEF V

-----------------------------------------------------------------------------
(***************************************************************************)
(* Serialized and deserialized.  A message arrives as it was sent when its *)
(* fields are there and have no separators.                                *)
(***************************************************************************)

\* The fields of a message that serialize writes.
Carried(m) ==
  LET t == m.mtype
      e == EmptyMessage(t)
  IN  CASE t \in {"READ", "WRITE", "UPLOAD"} ->
             [e EXCEPT !.remoteFileName = m.remoteFileName]
        [] t = "STATUS" -> [e EXCEPT !.statusString = m.statusString]
        [] t = "DOWNLOAD" -> [e EXCEPT !.remoteFileName = m.remoteFileName,
                                       !.localFileName = m.localFileName]
        [] t = "CSDISCOVER" ->
             [e EXCEPT !.chunkServerHostName = m.chunkServerHostName,
                       !.chunkServerPortNum = m.chunkServerPortNum]
        [] OTHER -> e

IsField(a) == a # <<>> /\ Free(a)

\* A message that can be told from its text.
Legible(m) ==
  /\ m.mtype \in {"READ", "WRITE", "UPLOAD", "DOWNLOAD"} => IsField(m.remoteFileName)
  /\ m.mtype = "STATUS" => IsField(m.statusString)
  /\ m.mtype = "DOWNLOAD" => IsField(m.localFileName)
  /\ m.mtype = "CSDISCOVER" => /\ IsField(m.chunkServerHostName)
                               /\ IsField(m.chunkServerPortNum)

\* The verb of a type names that type and no other.
LEMMA VerbNames ==
  ASSUME NEW t \in MessageType
  PROVE  /\ messageTypeString[t] \in Verb /\ messageTypeString[t] # Sep
         /\ getMessageType(<<messageTypeString[t]>>) = t
<1>1. messageTypeString[t] \in Verb
  BY DEF Verb
<1>2. \A u \in MessageType : messageTypeString[u] = messageTypeString[t] => u = t
  BY DEF MessageType, messageTypeString
<1>3. <<messageTypeString[t]>>[1] = messageTypeString[t]
  OBVIOUS
<1>4. QED
  BY <1>1, <1>2, <1>3, PieceAssumption DEF getMessageType

\* The verb at the beginning of a text, and the field behind it.
LEMMA VerbFirst ==
  ASSUME NEW U, NEW text \in Seq(U), NEW v \in U, v # Sep,
         1 <= Len(text), text[1] = v, 1 < Len(text) => text[2] = Sep
  PROVE  TypeToken(text).token = <<v>> /\ TypeToken(text).next = 2
<1> DEFINE w == <<v>>
<1>1. w \in Seq(U) /\ Len(w) = 1 /\ w[1] = v
  OBVIOUS
<1> HIDE DEF w
<1>2. Free(w)
  BY <1>1 DEF Free
<1>3. LiesAt(text, 1, 0, w, 1)
  <2>1. \A k \in 1..1 : text[0 + k] = w[k]
    BY <1>1
  <2>2. \A k \in 1..0 : text[k] = Sep
    OBVIOUS
  <2>3. Len(text) \in Nat
    BY LenProperties
  <2>4. 0 + 1 < Len(text) => text[0 + 1 + 1] = Sep
    BY <2>3
  <2>5. QED
    BY <1>1, <2>1, <2>2, <2>3, <2>4 DEF LiesAt
<1>4. strtok(text, 1).token = w /\ strtok(text, 1).next = 0 + 1 + 1
  BY <1>1, <1>2, <1>3, TokenAt
<1>5. QED
  BY <1>4 DEF TypeToken, w

LEMMA FirstField ==
  ASSUME NEW U, NEW text \in Seq(U), NEW v \in U, v # Sep,
         NEW a \in Seq(U), IsField(a), NEW n \in Nat \ {0},
         LiesAt(text, 2, 2, a, n), text[1] = v, text[2] = Sep
  PROVE  /\ TypeToken(text).token = <<v>>
         /\ Token0(text).token = a /\ Token0(text).next = 2 + n + 1
<1>1. Len(text) \in Nat /\ 1 <= Len(text)
  BY LenProperties DEF LiesAt
<1>2. TypeToken(text).token = <<v>> /\ TypeToken(text).next = 2
  BY <1>1, VerbFirst
<1>3. strtok(text, 2).token = a /\ strtok(text, 2).next = 2 + n + 1
  BY TokenAt DEF IsField
<1>4. QED
  BY <1>2, <1>3 DEF Token0

\* A text with one field, and one with two.
LEMMA OneField ==
  ASSUME NEW U, Sep \in U, NEW v \in U, v # Sep, NEW a \in Seq(U), IsField(a)
  PROVE  LET text == <<v>> \o (<<Sep>> \o a)
         IN  /\ TypeToken(text).token = <<v>> /\ Token0(text).token = a
<1> DEFINE b == <<Sep>> \o a
           text == <<v>> \o b
<1>1. PICK n \in Nat \ {0} : Len(a) = n
  BY EmptySeq DEF IsField
<1>2. <<Sep>> \in Seq(U) /\ Len(<<Sep>>) = 1 /\ <<Sep>>[1] = Sep
      /\ <<v>> \in Seq(U) /\ Len(<<v>>) = 1 /\ <<v>>[1] = v
  OBVIOUS
<1>3. /\ b \in Seq(U) /\ Len(b) = 1 + n
      /\ \A i \in 1..1 + n : b[i] = IF i <= 1 THEN <<Sep>>[i] ELSE a[i - 1]
  BY <1>1, <1>2, ConcatProperties
<1> HIDE DEF b
<1>4. /\ text \in Seq(U) /\ Len(text) = 1 + (1 + n)
      /\ \A i \in 1..1 + (1 + n) : text[i] = IF i <= 1 THEN <<v>>[i] ELSE b[i - 1]
  BY <1>1, <1>2, <1>3, ConcatProperties
<1> HIDE DEF text
<1>5. text[1] = v /\ text[2] = Sep /\ Len(text) = 2 + n
  BY <1>1, <1>2, <1>3, <1>4
<1>6. \A k \in 1..n : text[2 + k] = a[k]
  <2>1. ASSUME NEW k \in 1..n PROVE text[2 + k] = a[k]
    <3>1. text[2 + k] = b[1 + k]
      BY <1>4
    <3>2. b[1 + k] = a[k]
      BY <1>3
    <3>3. QED
      BY <3>1, <3>2
  <2>2. QED
    BY <2>1
<1>7. LiesAt(text, 2, 2, a, n)
  BY <1>1, <1>5, <1>6 DEF LiesAt
<1>8. TypeToken(text).token = <<v>> /\ Token0(text).token = a
  BY <1>1, <1>4, <1>5, <1>7, FirstField, SMTT(30)
<1>9. QED
  BY <1>8 DEF text, b

LEMMA TwoFields ==
  ASSUME NEW U, Sep \in U, NEW v \in U, v # Sep,
         NEW a \in Seq(U), IsField(a), NEW b \in Seq(U), IsField(b)
  PROVE  LET text == <<v>> \o (((<<Sep>> \o a) \o <<Sep>>) \o b)
         IN  /\ TypeToken(text).token = <<v>>
             /\ Token0(text).token = a /\ Token1(text).token = b
<1> DEFINE c == <<Sep>> \o a
           d == c \o <<Sep>>
           e == d \o b
           text == <<v>> \o e
<1>1. PICK n \in Nat \ {0} : Len(a) = n
  BY EmptySeq DEF IsField
<1>2. PICK m \in Nat \ {0} : Len(b) = m
  BY EmptySeq DEF IsField
<1>3. <<Sep>> \in Seq(U) /\ Len(<<Sep>>) = 1 /\ <<Sep>>[1] = Sep
      /\ <<v>> \in Seq(U) /\ Len(<<v>>) = 1 /\ <<v>>[1] = v
  OBVIOUS
<1>4. /\ c \in Seq(U) /\ Len(c) = 1 + n
      /\ \A i \in 1..1 + n : c[i] = IF i <= 1 THEN <<Sep>>[i] ELSE a[i - 1]
  BY <1>1, <1>3, ConcatProperties
<1> HIDE DEF c
<1>5. /\ d \in Seq(U) /\ Len(d) = (1 + n) + 1
      /\ \A i \in 1..(1 + n) + 1 :
           d[i] = IF i <= 1 + n THEN c[i] ELSE <<Sep>>[i - (1 + n)]
  BY <1>3, <1>4, ConcatProperties
<1>6. Len(d) = 2 + n
  BY <1>5
<1> HIDE DEF d
<1>7. /\ e \in Seq(U) /\ Len(e) = Len(d) + Len(b)
      /\ \A i \in 1..Len(d) + Len(b) :
           e[i] = IF i <= Len(d) THEN d[i] ELSE b[i - Len(d)]
  BY <1>5, ConcatProperties
<1>8. Len(e) = 2 + n + m
  BY <1>2, <1>6, <1>7
<1> HIDE DEF e
<1>9. /\ text \in Seq(U) /\ Len(text) = 1 + Len(e)
      /\ \A i \in 1..1 + Len(e) : text[i] = IF i <= 1 THEN <<v>>[i] ELSE e[i - 1]
  <2>1. /\ text \in Seq(U) /\ Len(text) = Len(<<v>>) + Len(e)
        /\ \A i \in 1..Len(<<v>>) + Len(e) :
             text[i] = IF i <= Len(<<v>>) THEN <<v>>[i] ELSE e[i - Len(<<v>>)]
    BY <1>3, <1>7, ConcatProperties
  <2> HIDE DEF text
  <2>2. QED
    BY <1>3, <2>1
<1> HIDE DEF text
<1>10. Len(text) = 3 + n + m
  BY <1>8, <1>9
<1>11. text[1] = v /\ text[2] = Sep /\ text[2 + n + 1] = Sep
  <2>1. text[1] = v
    BY <1>3, <1>8, <1>9
  <2>2. text[2] = e[1] /\ text[2 + n + 1] = e[2 + n]
    BY <1>8, <1>9
  <2>3. e[1] = d[1] /\ e[2 + n] = d[2 + n]
    BY <1>2, <1>6, <1>7
  <2>4. d[1] = c[1] /\ d[2 + n] = <<Sep>>[1]
    BY <1>5
  <2>5. c[1] = <<Sep>>[1]
    BY <1>4
  <2>6. QED
    BY <1>3, <2>1, <2>2, <2>3, <2>4, <2>5
<1>12. \A k \in 1..n : text[2 + k] = a[k]
  <2>1. ASSUME NEW k \in 1..n PROVE text[2 + k] = a[k]
    <3>1. text[2 + k] = e[1 + k]
      BY <1>8, <1>9
    <3>2. e[1 + k] = d[1 + k]
      BY <1>2, <1>6, <1>7
    <3>3. d[1 + k] = c[1 + k]
      BY <1>5
    <3>4. c[1 + k] = a[k]
      <4>1. 1 + k \in 1..1 + n /\ ~(1 + k <= 1) /\ (1 + k) - 1 = k
        OBVIOUS
      <4>2. QED
        BY <1>4, <4>1
    <3>5. QED
      BY <3>1, <3>2, <3>3, <3>4
  <2>2. QED
    BY <2>1
<1>13. \A k \in 1..m : text[3 + n + k] = b[k]
  <2>1. ASSUME NEW k \in 1..m PROVE text[3 + n + k] = b[k]
    <3>1. text[3 + n + k] = e[2 + n + k]
      BY <1>8, <1>9
    <3>2. 2 + n + k \in 1..Len(d) + Len(b) /\ ~(2 + n + k <= Len(d))
          /\ (2 + n + k) - Len(d) = k
      BY <1>2, <1>6
    <3>3. e[2 + n + k] = b[k]
      BY <1>7, <3>2
    <3>4. QED
      BY <3>1, <3>3
  <2>2. QED
    BY <2>1
<1>14. /\ TypeToken(text).token = <<v>>
       /\ Token0(text).token = a /\ Token0(text).next = 2 + n + 1
  <2>1. LiesAt(text, 2, 2, a, n)
    BY <1>1, <1>10, <1>11, <1>12 DEF LiesAt
  <2>2. QED
    BY <1>1, <1>9, <1>11, <2>1, FirstField
<1>15. strtok(text, 2 + n + 1).token = b
  <2> DEFINE from == 2 + n + 1
             p == 3 + n
  <2>1. from \in Nat \ {0} /\ p \in Nat /\ from = p
    OBVIOUS
  <2>2. \A k \in from..p : text[k] = Sep
    BY <1>11
  <2>3. \A k \in 1..m : text[p + k] = b[k]
    BY <1>13
  <2>4. p + m <= Len(text) /\ ~(p + m < Len(text))
    BY <1>10
  <2> HIDE DEF p, from
  <2>5. LiesAt(text, from, p, b, m)
    BY <1>2, <2>1, <2>2, <2>3, <2>4 DEF LiesAt
  <2>6. strtok(text, from).token = b
    BY <1>2, <1>9, <2>1, <2>5, TokenAt DEF IsField
  <2>7. QED
    BY <2>6 DEF from
<1>16. Token1(text).token = b
  BY <1>14, <1>15 DEF Token1
<1>17. QED
  BY <1>14, <1>16 DEF text, e, d, c

\* A legible message is in its text, with the fields that its type carries.
LEMMA LegibleArrives ==
  ASSUME NEW U, Verb \subseteq U, Sep \in U, NEW m \in MessageOver(U), Legible(m)
  PROVE  Deserializes(serialize(m)) /\ deserialize(serialize(m)) = Carried(m)
<1> DEFINE t == m.mtype
           v == messageTypeString[t]
           text == serialize(m)
<1>1. /\ t \in MessageType
      /\ m.remoteFileName \in Seq(U) /\ m.localFileName \in Seq(U)
      /\ m.statusString \in Seq(U) /\ m.chunkServerHostName \in Seq(U)
      /\ m.chunkServerPortNum \in Seq(U)
  BY DEF MessageOver
<1>2. v \in U /\ v # Sep /\ getMessageType(<<v>>) = t
  BY <1>1, VerbNames
<1>3. <<v>> # <<>>
  OBVIOUS
<1>4. CASE t \in {"READ", "WRITE", "UPLOAD"}
  <2>1. text = <<v>> \o (<<Sep>> \o m.remoteFileName)
    BY <1>4 DEF serialize
  <2>2. IsField(m.remoteFileName)
    BY <1>4 DEF Legible
  <2> HIDE DEF v, text
  <2>3. TypeToken(text).token = <<v>> /\ Token0(text).token = m.remoteFileName
    BY <1>1, <1>2, <2>1, <2>2, OneField
  <2>4. FieldCount(t) = 1
    BY <1>4 DEF FieldCount
  <2>5. Deserializes(text)
    BY <1>2, <1>3, <2>2, <2>3, <2>4 DEF Deserializes, IsField
  <2>6. deserialize(text) = [EmptyMessage(t) EXCEPT !.remoteFileName = m.remoteFileName]
    BY <1>2, <1>4, <2>3 DEF deserialize
  <2>7. Carried(m) = [EmptyMessage(t) EXCEPT !.remoteFileName = m.remoteFileName]
    BY <1>4 DEF Carried
  <2>8. QED
    BY <2>5, <2>6, <2>7 DEF text
<1>5. CASE t = "STATUS"
  <2>1. text = <<v>> \o (<<Sep>> \o m.statusString)
    BY <1>5 DEF serialize
  <2>2. IsField(m.statusString)
    BY <1>5 DEF Legible
  <2> HIDE DEF v, text
  <2>3. TypeToken(text).token = <<v>> /\ Token0(text).token = m.statusString
    BY <1>1, <1>2, <2>1, <2>2, OneField
  <2>4. FieldCount(t) = 1
    BY <1>5 DEF FieldCount
  <2>5. Deserializes(text)
    BY <1>2, <1>3, <2>2, <2>3, <2>4 DEF Deserializes, IsField
  <2>6. deserialize(text) = [EmptyMessage(t) EXCEPT !.statusString = m.statusString]
    BY <1>2, <1>5, <2>3 DEF deserialize
  <2>7. Carried(m) = [EmptyMessage(t) EXCEPT !.statusString = m.statusString]
    BY <1>5 DEF Carried
  <2>8. QED
    BY <2>5, <2>6, <2>7 DEF text
<1>6. CASE t = "DOWNLOAD"
  <2>1. text = <<v>> \o (((<<Sep>> \o m.remoteFileName) \o <<Sep>>) \o m.localFileName)
    BY <1>6 DEF serialize
  <2>2. IsField(m.remoteFileName) /\ IsField(m.localFileName)
    BY <1>6 DEF Legible
  <2> HIDE DEF v, text
  <2>3. /\ TypeToken(text).token = <<v>> /\ Token0(text).token = m.remoteFileName
        /\ Token1(text).token = m.localFileName
    BY <1>1, <1>2, <2>1, <2>2, TwoFields
  <2>4. FieldCount(t) = 2
    BY <1>6 DEF FieldCount
  <2>5. Deserializes(text)
    BY <1>2, <1>3, <2>2, <2>3, <2>4 DEF Deserializes, IsField
  <2>6. deserialize(text) = [EmptyMessage(t) EXCEPT !.remoteFileName = m.remoteFileName,
                                                    !.localFileName = m.localFileName]
    BY <1>2, <1>6, <2>3 DEF deserialize
  <2>7. Carried(m) = [EmptyMessage(t) EXCEPT !.remoteFileName = m.remoteFileName,
                                             !.localFileName = m.localFileName]
    BY <1>6 DEF Carried
  <2>8. QED
    BY <2>5, <2>6, <2>7 DEF text
<1>7. CASE t = "CSDISCOVER"
  <2>1. text = <<v>> \o (((<<Sep>> \o m.chunkServerHostName) \o <<Sep>>)
                         \o m.chunkServerPortNum)
    BY <1>7 DEF serialize
  <2>2. IsField(m.chunkServerHostName) /\ IsField(m.chunkServerPortNum)
    BY <1>7 DEF Legible
  <2> HIDE DEF v, text
  <2>3. /\ TypeToken(text).token = <<v>> /\ Token0(text).token = m.chunkServerHostName
        /\ Token1(text).token = m.chunkServerPortNum
    BY <1>1, <1>2, <2>1, <2>2, TwoFields
  <2>4. FieldCount(t) = 2
    BY <1>7 DEF FieldCount
  <2>5. Deserializes(text)
    BY <1>2, <1>3, <2>2, <2>3, <2>4 DEF Deserializes, IsField
  <2>6. deserialize(text) = [EmptyMessage(t) EXCEPT
                               !.chunkServerHostName = m.chunkServerHostName,
                               !.chunkServerPortNum = m.chunkServerPortNum]
    BY <1>2, <1>7, <2>3 DEF deserialize
  <2>7. Carried(m) = [EmptyMessage(t) EXCEPT
                        !.chunkServerHostName = m.chunkServerHostName,
                        !.chunkServerPortNum = m.chunkServerPortNum]
    BY <1>7 DEF Carried
  <2>8. QED
    BY <2>5, <2>6, <2>7 DEF text
<1>8. CASE t \in {"LIST", "EXIT", "HELP", "INVALID"}
  <2>1. text = <<v>> \o <<>>
    BY <1>8 DEF serialize
  <2>2. text = <<v>>
    BY <1>2, <2>1, ConcatEmptySeq
  <2>3. text \in Seq(U) /\ Len(text) = 1 /\ text[1] = v
    BY <1>2, <2>2
  <2> HIDE DEF v, text
  <2>4. TypeToken(text).token = <<v>>
    BY <1>2, <2>3, VerbFirst
  <2>5. FieldCount(t) = 0
    BY <1>8 DEF FieldCount
  <2>6. Deserializes(text)
    BY <1>2, <1>3, <2>4, <2>5 DEF Deserializes
  <2>7. deserialize(text) = EmptyMessage(t)
    BY <1>2, <1>8, <2>4 DEF deserialize
  <2>8. Carried(m) = EmptyMessage(t)
    BY <1>8 DEF Carried
  <2>9. QED
    BY <2>6, <2>7, <2>8 DEF text
<1>9. QED
  BY <1>1, <1>4, <1>5, <1>6, <1>7, <1>8 DEF MessageType

\* What deserialize makes of a text is legible, and it carries all of it.
LEMMA DeserializedLegible ==
  ASSUME NEW U, NEW text \in Seq(U), Deserializes(text)
  PROVE  Legible(deserialize(text)) /\ Carried(deserialize(text)) = deserialize(text)
<1> DEFINE t == getMessageType(TypeToken(text).token)
           a == Token0(text).token
           b == Token1(text).token
<1>1. TypeToken(text).next \in Nat \ {0}
  BY StrtokType DEF TypeToken
<1>2. Token0(text).next \in Nat \ {0} /\ Free(a)
  BY <1>1, StrtokType, TokenFree DEF Token0
<1>3. Free(b)
  BY <1>2, TokenFree DEF Token1
<1>4. t \in MessageType
  BY TypeOfToken
<1>5. FieldCount(t) >= 1 => IsField(a)
  BY <1>2 DEF Deserializes, IsField
<1>6. FieldCount(t) = 2 => IsField(b)
  BY <1>3 DEF Deserializes, IsField
<1>7. deserialize(text) =
        LET m == EmptyMessage(t)
        IN  CASE t \in {"READ", "WRITE", "UPLOAD"} -> [m EXCEPT !.remoteFileName = a]
              [] t = "STATUS" -> [m EXCEPT !.statusString = a]
              [] t = "DOWNLOAD" -> [m EXCEPT !.remoteFileName = a, !.localFileName = b]
              [] t = "CSDISCOVER" ->
                   [m EXCEPT !.chunkServerHostName = a, !.chunkServerPortNum = b]
              [] t \in {"LIST", "EXIT", "HELP", "INVALID"} -> m
  BY DEF deserialize
<1> HIDE DEF t, a, b
<1>8. CASE t \in {"READ", "WRITE", "UPLOAD"}
  <2>1. deserialize(text) = [EmptyMessage(t) EXCEPT !.remoteFileName = a]
    BY <1>7, <1>8
  <2>2. IsField(a)
    BY <1>5, <1>8 DEF FieldCount
  <2>3. QED
    BY <1>8, <2>1, <2>2 DEF EmptyMessage, Legible, Carried
<1>9. CASE t = "STATUS"
  <2>1. deserialize(text) = [EmptyMessage(t) EXCEPT !.statusString = a]
    BY <1>7, <1>9
  <2>2. IsField(a)
    BY <1>5, <1>9 DEF FieldCount
  <2>3. QED
    BY <1>9, <2>1, <2>2 DEF EmptyMessage, Legible, Carried
<1>10. CASE t = "DOWNLOAD"
  <2>1. deserialize(text) = [EmptyMessage(t) EXCEPT !.remoteFileName = a,
                                                    !.localFileName = b]
    BY <1>7, <1>10
  <2>2. IsField(a) /\ IsField(b)
    BY <1>5, <1>6, <1>10 DEF FieldCount
  <2>3. QED
    BY <1>10, <2>1, <2>2 DEF EmptyMessage, Legible, Carried
<1>11. CASE t = "CSDISCOVER"
  <2>1. deserialize(text) = [EmptyMessage(t) EXCEPT !.chunkServerHostName = a,
                                                    !.chunkServerPortNum = b]
    BY <1>7, <1>11
  <2>2. IsField(a) /\ IsField(b)
    BY <1>5, <1>6, <1>11 DEF FieldCount
  <2>3. QED
    BY <1>11, <2>1, <2>2 DEF EmptyMessage, Legible, Carried
<1>12. CASE t \in {"LIST", "EXIT", "HELP", "INVALID"}
  <2>1. deserialize(text) = EmptyMessage(t)
    BY <1>7, <1>12
  <2>2. QED
    BY <1>12, <2>1 DEF EmptyMessage, Legible, Carried
<1>13. QED
  BY <1>4, <1>8, <1>9, <1>10, <1>11, <1>12 DEF MessageType

\* A request that the client forwards arrives at the chunk server as the
\* client read it: to read a text, write the message and read it again loses
\* and adds nothing (simplehdfsclient.cc sends the serialized msgObj, and
\* message.cc deserializes it).
THEOREM ForwardedAlike ==
  ASSUME NEW U, NEW text \in Seq(U), Deserializes(text)
  PROVE  LET m == deserialize(text)
         IN  Deserializes(serialize(m)) /\ deserialize(serialize(m)) = m
<1> DEFINE m == deserialize(text)
           W == U \cup Verb \cup {Sep}
<1>1. text \in Seq(W)
  BY SeqMonotonic
<1>2. m \in MessageOver(W)
  BY <1>1, DeserializeType
<1>3. Legible(m) /\ Carried(m) = m
  BY DeserializedLegible
<1>4. Verb \subseteq W /\ Sep \in W
  OBVIOUS
<1> HIDE DEF m, W
<1>5. Deserializes(serialize(m)) /\ deserialize(serialize(m)) = m
  BY <1>2, <1>3, <1>4, LegibleArrives
<1>6. QED
  BY <1>5 DEF m
=============================================================================
