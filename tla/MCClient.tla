------------------------------ MODULE MCClient ------------------------------
(***************************************************************************)
(* An instance of Client for TLC.                                          *)
(***************************************************************************)
EXTENDS Client

CONSTANTS p1, p2, h, n1, n2

\* Every command of the client; one with separators to spare and a field too
\* many, one whose name has no separator in front of it; one without a name, and
\* an empty line.
Lines == {<<"read", Sep, p1>>, <<"upload", Sep, p1>>,
          <<"download", Sep, p1, Sep, p2>>, <<"list">>, <<"exit">>,
          <<Sep, "download", Sep, Sep, p1, p2, Sep, p2, Sep, p1>>,
          <<"read", p1, Sep, "read">>,
          <<"upload">>, <<>>}

AddressOf(port) == [EmptyMessage("CSDISCOVER") EXCEPT !.chunkServerHostName = <<h>>,
                                                      !.chunkServerPortNum = port]

\* Ports of one and of two pieces: the shorter is read over the longer.  The
\* answer with a port of three fills the buffer, and stoi throws for it.
Addresses == {AddressOf(<<n1>>), AddressOf(<<n1, n2>>), AddressOf(<<n1, n2, n1>>)}
=============================================================================
