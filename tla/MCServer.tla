------------------------------ MODULE MCServer ------------------------------
(***************************************************************************)
(* An instance of Server for TLC: one RPC client and one file client.      *)
(***************************************************************************)
EXTENDS Server

CONSTANTS p1, d1, d2

\* Headers of one byte name their call; all others carry no call id.
MCCallOf(text) ==
  CASE text = <<1>> -> -3 [] text = <<2>> -> 5 [] text = <<3>> -> -4
    [] text = <<4>> -> -33 [] Len(text) >= Limit -> 6 [] OTHER -> NoCall

MCCallId == {-33, -4, -3, 5, 6}

Call(id, header, rest) == [id |-> id, header |-> header, rest |-> rest]

Context == Call(-3, <<1>>, <<1, 0>>)
Ping == Call(-4, <<3>>, <<>>)
Sasl == Call(-33, <<4>>, <<1, 2>>)
Request == Call(5, <<2>>, <<1, 7>>)
\* The parameter of the request comes as another delimited message, which
\* serverMain does not read.
RequestWithParameter == Call(5, <<2>>, <<1, 7, 2, 1, 3>>)
LongHeader == Call(6, [i \in 1..Limit |-> 1], <<0>>)

Scripts == {<<Context, Request, Ping>>, <<Sasl, RequestWithParameter>>, <<LongHeader>>}

Text == INSTANCE Message

Upload(name, content) ==
  [req |-> [Text!EmptyMessage("UPLOAD") EXCEPT !.remoteFileName = name],
   content |-> content]

Jobs == {Upload(<<p1>>, <<d1>>)}
=============================================================================
