----------------------------- MODULE ChunkStore -----------------------------
(***************************************************************************)
(* What the chunk server promises about its files, whatever its buffers,   *)
(* its reads and its clients do: one upload at a time, of one client that  *)
(* has not uploaded before, empties one file or none and then fills it, in *)
(* order and without gaps, with what that client sends.  The process may   *)
(* end in the middle of it; no other step touches a file.  That an upload  *)
(* empties its file is what the ofstream does; a comment in chunkserver.cc *)
(* (lines 125-126) has it append, see UploadsAppend of MCChunkServer.      *)
(***************************************************************************)
EXTENDS Naturals, Sequences, SequencesExt

CONSTANTS
  Client,   \* those who upload
  None,     \* no client
  Faults,   \* TRUE: a file may fail, and gets no more data
  Exits     \* TRUE: the process may end during an upload

VARIABLES
  unread,    \* unread[c]: what c has sent and the store has not read
  received,  \* received[c]: the data read of the upload of c
  writer,    \* the client whose upload runs
  failed,    \* its file has failed
  files      \* name -> the client it came from, and its data

vars == <<unread, received, writer, failed, files>>

Init ==
  /\ unread = [c \in Client |-> <<>>]
  /\ received = [c \in Client |-> <<>>]
  /\ writer = None
  /\ failed = FALSE
  /\ files = [name \in {} |-> <<>>]

\* The files that came from c, of which there is never more than one.
Of(c) == {name \in DOMAIN files : files[name].by = c}

Emptied(name, c) ==
  [n \in DOMAIN files \cup {name} |->
     IF n = name THEN [data |-> <<>>, by |-> c] ELSE files[n]]

\* Nothing of the upload of c was read, and no file came from it.
Fresh(c) == c # writer /\ received[c] = <<>> /\ Of(c) = {}

\* The file of c keeps its data and may get more of text, unless it fails.
Saves(c, text) ==
  /\ \/ files' = files
     \/ /\ ~failed
        /\ \E name \in Of(c) :
             \E k \in Len(files[name].data)..Len(text) :
               files' = [files EXCEPT ![name].data = SubSeq(text, 1, k)]
  /\ \/ failed' = failed
     \/ Faults /\ failed' = TRUE

Send(c) ==
  /\ IsPrefix(unread[c], unread'[c])
  /\ unread' = [unread EXCEPT ![c] = unread'[c]]
  /\ UNCHANGED <<received, writer, failed, files>>

\* The request is read, and possibly some of the data with it.
Request(c) ==
  /\ Fresh(c)
  /\ \E k \in 1..Len(unread[c]) :
       unread' = [unread EXCEPT ![c] = SubSeq(@, k + 1, Len(@))]
  /\ UNCHANGED <<received, writer, failed, files>>

Begin(c) ==
  /\ writer = None
  /\ Fresh(c)
  /\ writer' = c
  /\ \/ failed' = FALSE /\ \E name \in DOMAIN files' : files' = Emptied(name, c)
     \/ Faults /\ failed' = TRUE /\ files' = files
  /\ UNCHANGED <<unread, received>>

Receive ==
  /\ writer # None
  /\ \E k \in 1..Len(unread[writer]) :
       /\ received' = [received EXCEPT ![writer] = @ \o SubSeq(unread[writer], 1, k)]
       /\ unread' = [unread EXCEPT ![writer] = SubSeq(@, k + 1, Len(@))]
  /\ Saves(writer, received'[writer])
  /\ UNCHANGED writer

\* All that was received is in the file, unless it failed.
Finish ==
  /\ writer # None
  /\ Saves(writer, received[writer])
  /\ ~failed' => \E name \in Of(writer) : files'[name].data = received[writer]
  /\ writer' = None
  /\ UNCHANGED <<unread, received>>

\* Nobody is told of a failure.
Forget ==
  /\ writer = None
  /\ failed' = FALSE
  /\ UNCHANGED <<unread, received, writer, files>>

Exit ==
  /\ writer # None
  /\ Exits
  /\ writer' = None
  /\ failed' = FALSE
  /\ UNCHANGED <<unread, received, files>>

Next ==
  \/ \E c \in Client : Send(c) \/ Request(c) \/ Begin(c)
  \/ Receive \/ Finish \/ Forget \/ Exit

Spec == Init /\ [][Next]_vars
=============================================================================
