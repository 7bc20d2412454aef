----------------------------- MODULE MCEditLog -----------------------------
(***************************************************************************)
(* The edit logs the reader is made for, for TLC.                          *)
(***************************************************************************)
EXTENDS HadoopLog, WrittenLog

LogFiles ==
  {LogFile(<<Start, op, EndSegment>>) :
     op \in {Add(0, 0), Add(1, 0), Add(0, 4), MkDir(4), AddBlock(4000), AddBlock(-4000),
             AddBlock(-200), Delete}}
  \cup {LogFile(<<GenStamp, Allocate, Rename, Invalid>>),
        LogFile(<<Close, MkDir(0)>>), LogFile(<<Start, Close>>)}
=============================================================================
