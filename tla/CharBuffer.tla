----------------------------- MODULE CharBuffer -----------------------------
(***************************************************************************)
(* A char array that a socket is read into and that is taken for a string: *)
(* TCPServer::buffer (tcpserver.h) and TCPClient::buffer                   *)
(* (simplehdfsclient.cc).  Neither is cleared between two reads.           *)
(***************************************************************************)
EXTENDS Naturals, Sequences, FiniteSetsExt

CONSTANTS
  Nul,      \* the NUL byte, which also fills a new buffer
  Junk,     \* whatever lies in memory behind a buffer without a NUL
  BufSize   \* 1024, in pieces

NewBuffer == [i \in 1..BufSize |-> Nul]

\* The read overwrites the first cells of the buffer and no others.
Overwritten(cells, text, from, n) ==
  [i \in 1..BufSize |-> IF i <= n THEN text[from + i] ELSE cells[i]]

\* The first n cells of a buffer.
Leading(cells, n) == [i \in 1..n |-> cells[i]]

Nuls(cells) == {i \in 1..BufSize : cells[i] = Nul}

\* Mutant of CStrings: the string ends one cell before the NUL.
CStringsCutShort(cells) ==
  IF Nuls(cells) \ {1} = {}
  THEN {Leading(cells, BufSize)}
  ELSE {Leading(cells, Min(Nuls(cells) \ {1}) - 2)}

\* string(buffer): the cells up to the first NUL, or past the buffer's end.
CStrings(cells) ==
  IF Nuls(cells) = {}
  THEN {Leading(cells, BufSize), Append(Leading(cells, BufSize), Junk)}
  ELSE {Leading(cells, Min(Nuls(cells)) - 1)}
=============================================================================
