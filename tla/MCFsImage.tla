----------------------------- MODULE MCFsImage -----------------------------
(***************************************************************************)
(* Images for TLC, with the sections and messages that Hadoop's name node  *)
(* writes (FSImageFormatProtobuf), in its order; the one of the repository *)
(* (proto/fsimage_0000000000000000126) is of this form.                    *)
(***************************************************************************)
EXTENDS FsImage, TLC

CONSTANT MaxInodes   \* how many inodes there are below the root

Kinds == {"file", "empty", "open", "acl", "dir", "link"}

FileMessage(kind, id) ==
  (5 :> <<400 + id>>)
  @@ (IF kind = "empty" THEN Nothing ELSE 6 :> <<id * 10, id * 10 + 1>>)
  @@ (IF kind = "open" THEN 7 :> <<1 :> <<ToString(id)>> >> ELSE Nothing)
  @@ (IF kind = "acl" THEN 8 :> <<2 :> <<id * 100>> >> ELSE Nothing)

DirectoryMessage(id) == 4 :> <<700 + id>>

InodeMessage(kind, id) ==
  (2 :> <<id>>) @@ (3 :> <<IF id = 1 THEN "" ELSE kind>>)
  @@ CASE kind = "dir" -> (1 :> <<2>>) @@ (5 :> <<DirectoryMessage(id)>>)
       [] kind = "link" -> 1 :> <<3>>
       [] OTHER -> (1 :> <<1>>) @@ (4 :> <<FileMessage(kind, id)>>)

\* The inodes below the root have the numbers from 2 on; an inode lies in the
\* nearest directory before it.
Numbers(n) == [k \in 1..n |-> k]
ParentOf(kinds, k) ==
  LET before == {1} \cup {e \in 2..k - 1 : kinds[e - 1] = "dir"}
  IN  CHOOSE d \in before : \A e \in before : e <= d
EntryMessages(kinds) ==
  LET all == Numbers(Len(kinds) + 1)
      children(d) == SelectSeq(Tail(all), LAMBDA k : ParentOf(kinds, k) = d)
      parents == SelectSeq(all, LAMBDA d : children(d) # <<>>)
  IN  [i \in DOMAIN parents |-> (1 :> <<parents[i]>>) @@ (2 :> children(parents[i]))]

OpenMessages(kinds) ==
  LET open == SelectSeq(Tail(Numbers(Len(kinds) + 1)), LAMBDA k : kinds[k - 1] = "open")
  IN  [i \in DOMAIN open |-> (1 :> <<open[i]>>) @@ (2 :> <<47>>)]

Written(name, messages) == [name |-> name, messages |-> messages]

Table(kinds, snapshots, key) ==
  << Written("NS_INFO", <<(1 :> <<7>>) @@ (2 :> <<1000>>)>>),
     Written("INODE",
       <<(1 :> <<Len(kinds) + 1>>) @@ (2 :> <<Len(kinds) + 1>>), InodeMessage("dir", 1)>>
       \o [k \in DOMAIN kinds |-> InodeMessage(kinds[k], k + 1)]),
     Written("INODE_DIR", EntryMessages(kinds)),
     Written("FILES_UNDERCONSTRUCTION", OpenMessages(kinds)),
     Written("SNAPSHOT", <<(1 :> <<snapshots>>) @@ (3 :> <<0>>)>>),
     Written("SECRET_MANAGER", <<(1 :> <<key>>) @@ (2 :> <<0>>)>>),
     Written("CACHE_MANAGER", <<(1 :> <<1>>) @@ (2 :> <<0>>)>>),
     Written("STRING_TABLE",
       <<1 :> <<2>>, (1 :> <<2>>) @@ (2 :> <<"group">>), (1 :> <<1>>) @@ (2 :> <<"user">>)>>) >>

\* Behind the sections come the summary and its length.
Image(table) ==
  LET summary == (1 :> <<1>>) @@ (2 :> <<65>>)
      messages[i \in 0..Len(table)] ==
        IF i = 0 THEN <<>> ELSE messages[i - 1] \o table[i].messages
      offset(i) == Len(messages[i - 1]) + 1
  IN  [sections |-> [i \in DOMAIN table |-> [name |-> table[i].name, offset |-> offset(i)]],
       messages |-> messages[Len(table)] \o <<summary, Nothing>>]

MCImages ==
  {Image(Table(kinds, snapshots[1], snapshots[2])) :
     kinds \in UNION {[1..n -> Kinds] : n \in 0..MaxInodes}, snapshots \in {<<0, 0>>, <<2, 0>>, <<2, 1>>}}
  \cup {[sections |-> <<>>, messages |-> <<>>]}
=============================================================================
