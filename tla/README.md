# A TLA+ model of the hdfslayer of projectC

projectC contains a small distributed file store in C++ (`src/hdfslayer`): a
process with a *master* thread and a *chunk server* thread, a command line
*client*, and readers for the files an HDFS name node leaves (edit log and
fsimage). This directory holds TLA+ modules that model it, configurations
with which TLC checks them on small instances, and proofs of theorems about
them that TLAPS checks for every value of the constants.

## 1. The system

| Component | Source | State | Operations | Status |
|---|---|---|---|---|
| Text messages | `message.cc`, `message.h` | none (value type) | `serialize`, `deserialize`, `getMessageType` | modelled: `Message` |
| TCP server | `tcpserver.cc` | `serverSocket`, `new_socket`, `buffer[1024]` | `acceptClientConnection`, `getMessage`, `getData`, `sendMessage`, `closeClientConnection` | modelled: `CharBuffer`, and in `ChunkServer` |
| Chunk server | `chunkserver.cc` | files on disk, the upload's `ofstream` | `chunkMain`, `uploadFile`, `readFile`, `createFolderTree`, `downloadFile` | modelled: `ChunkServer`, its promise: `ChunkStore` |
| Client | `simplehdfsclient.cc` | its sockets, its reply buffer | the command loop, `readMessage`, `uploadFile`, `readFile`, `downloadFile` | modelled: `Client`; many of them on a chunk server: `ChunkServer` |
| Master | `master.cc` | `connectionHeaderRead`, the RPC stream | `serverMain`, `getHeader` | modelled: `Master`; with the chunk server in one process: `Server` |
| Stream reader | `simplerw.cc`, `socketbuf.cc` | stream position, eofbit | the reads, codecs, `readDelimitedFrom` | modelled: `StreamReader`, and in `Master` over a socket |
| Edit log reader | `editlog.cc` | the file's position, the opcode | the loop over opcodes, the fields of each | modelled: `EditLog` |
| Fsimage reader | `proto/main.cc` | the table of sections, one protobuf object that is merged into | sections, inodes, strings, directories | modelled: `FsImage` |
| Name node metadata | `masterfsdata.cc`, `chunkfsdata.cc` | – | – | not modelled: not built |
| Logger | `logger.cc` | – | – | not modelled: no property is about it |

**How they interact.** A client asks the master where the chunk server is,
connects to it on a second socket, sends one text request (`UPLOAD|name`,
`READ|name`, ... with the blank as the separator), and, for an upload, sends
the file behind it in blocks. It closes the socket; no reply ends an upload.
The chunk server thread serves one connection at a time: accept, read once
(`getMessage`), deserialize, serve, close, listen again. Master and chunk
server are threads of one process (`master.cc`), so an `exit` in either of
them, or an exception nothing catches, ends both; only the disk is left when
it is started again.

**What is hard about it.**

* TCP does not keep the client's sends apart. A read returns any part of what
  has arrived: a request may be cut, or be read with file data behind it.
* `TCPServer::buffer` is never cleared and becomes a `string` up to its first
  NUL: what a longer request left there is part of the next one.
* `uploadFile` reads three times and no more, and each read is as long as the
  network happened to deliver.
* `deserialize` ends the process on input that is not a request, and a client
  that closes without sending produces such input.
* The process ends at any point, its own or the master's doing, with
  connections waiting and an `ofstream` that holds data.
* Folders, opens and writes fail, and nobody looks; a `listen` or an `accept`
  that fails ends the process, whichever thread it is in.
* A client that is connected and silent holds up all others: no timeout.
* In the master: the first RPC client is the only one a process ever accepts,
  even when it has left; the parameter of a call is not read, so framing is
  lost with the first call that has one; a header of 128 bytes ends the process.
* In the client: the buffer for the master's answers is not cleared either, an
  answer may come in parts, and a master that has closed looks like one that
  has answered as before.
* In the readers: the end of a file is noticed one read late, and then the
  last opcode is used again and its fields are variables nobody set; one
  protobuf object is reused and merged into; variable-length integers lose
  their sign; the directory loop of the fsimage reader knows no end of its
  section.

**What makes it correct**, component by component:

* Messages: what is deserialized and sent on stays the same message; a
  request that arrived is never rejected.
* TCP server: no connection is lost or served twice, every accepted connection
  is closed; what `getMessage` returns begins with what the client sent.
* Chunk server: a file holds what one client sent, in order and without gaps,
  also after failures and restarts; an upload that saw the end of the stream
  is complete.
* Clients: every client that connects is served or cut off in the end. A command
  goes to the address that was sent for it, and ends.
* Server: the process ends for a cause in one of its threads, and for no other.
* Master: plain calls are acted upon once, in the order sent, whatever follows
  them; the process ends for reserved calls, calls it cannot read, and broken
  connections only.
* Edit log reader: an operation that the file holds is read as it was written;
  at most one that it does not hold is read; the loop ends, for a cause.
* Fsimage reader: what is printed of an inode, a string or a directory is what
  was written of it, and all that was written is printed.

## 2. Modules

| Module | Content |
|---|---|
| `Message` | the text messages as pure operators over sequences of pieces |
| `CharBuffer` | the buffer that is read into and taken for a string; used by `ChunkServer` and `Client` |
| `ChunkServer` | the chunk server's thread, its socket, its clients, the disk |
| `ChunkStore` | the abstract promise: files that are filled in order by one client each |
| `MCChunkServer` | jobs of clients for TLC, symmetry, and what comments and log lines claim |
| `Client` | the command loop of the client, its connection to the master, and one per command to a chunk server |
| `MCClient` | what the user types, and answers with ports of different lengths |
| `Master` | the RPC listener: its reads, its dispatch on call ids, its exits, RPC clients |
| `Server` | the process: `Master` and `ChunkServer` (an instance, `Chunk`), composed on `alive` |
| `MCServer` | one RPC client with its scripts of calls, and one file client |
| `StreamReader` | how many bytes each read of `SimpleReader` takes and what it finds in them, as pure operators |
| `EditLog` | the loop of `editlog.cc` over a file that was cut at any byte (extends `StreamReader`) |
| `WrittenLog` | what an edit log is: the bytes of each field, and the fields the reader takes it for (extends `EditLog`) |
| `HadoopLog` | a writer of edit logs with Hadoop's encodings, for TLC |
| `MCEditLog` | logs with every operation, which TLC finds to be logs in the sense of `WrittenLog` |
| `FsImage` | the fsimage reader: sections, and messages that are merged |
| `MCFsImage` | images with the sections and messages of a name node |
| `MessageProof` | lemmas about `strtok`, `deserialize`, `serialize` and the buffer; a message that is sent on stays the same |
| `ChunkServerProof` | type correctness; no connection is lost; what uploads leave on disk; what of a request reaches `deserialize`, and that it is accepted; `ChunkServer` implements `ChunkStore` |
| `MasterProof` | type correctness of the master, the order in which it acts on calls, and the cause of its exits |
| `ServerProof` | the process ends for a cause |
| `ClientProof` | where the client's commands go, and that they arrive as they were typed |
| `EditLogProof` | operations of an edit log are read as they were written, at most one is made up, and the end comes for a cause |
| `FsImageProof` | what is printed of an fsimage: identities, contents, directory entries, strings |

### Message

A text is a sequence of *pieces*: `Sep` is the blank, a `Verb` is one of the
words of `messageTypeStringArr`, a `Part` is anything else without a blank. A
field is a sequence of parts, so that a longer name can leave a tail behind a
shorter one. `strtok` skips leading separators, so empty fields vanish and the
fields behind them move up, as in the code; `FieldCount` is how many tokens
`deserialize` asks for with `.at()` or `[]` per type, and `Deserializes` is
false where the code calls `exit(1)` or an exception is thrown.
`deserialize` fills exactly the fields that the code's `switch` fills.

### ChunkServer

`pc` is where the thread is (`listen`, `accept`, `message`, `decode`, `serve`,
`receive`, `finish`, `close`); each blocking call is a place of its own because
clients run in between. `conn` is `new_socket`, `buffer` the member buffer with
`Nul` where `new`ed memory is zero, `clientMessage` the local of `chunkMain`,
`round` the `i` of `uploadFile`, `fout` everything written to the `ofstream`
(what of it is on disk is chosen by `Flush`: any prefix not shorter than before
while the stream is open; all of it when it is closed; with `DiskFaults`, a
prefix and the fail bit). `stream[c]` is all that client `c` has sent,
`taken[c]` how much of it the server has read. `backlog` is the accept queue.
`high` and `seen` are history variables: no action reads them in a guard except
to pass on the text that was read.

| Code | Action |
|---|---|
| `acceptClientConnection`: `listen` / `accept`; one of them fails | `Listen`, `AcceptClientConnection`, `SocketFails` |
| `getMessage` with data / after the client's close | `GetMessage`, `GetMessageEmpty` |
| `Message::deserialize` returns / ends the process | `Decode`, `DecodeEnds` |
| `case READ` | `ReadFile` |
| `case WRITE, LIST, DOWNLOAD`, no case | `ServeOther` |
| `createFolderTree` throws | `FolderFails` |
| `uploadFile`: open, each `getData`, `break`, close | `UploadFileOpen`, `GetData`, `UploadFileBreak`, `UploadFileClose` |
| `closeClientConnection` | `CloseClientConnection` |
| an `exit` of the master's thread; a new process | `ExitElsewhere`, `Restart` |
| the client: connect, send the request, blocks, close, wait for the reply | `ClientConnect`, `ClientRefused`, `ClientSendRequest`, `ClientSendBlock`, `ClientClose`, `ClientReadReply` |
| a send on a closed connection; an interrupted client | `ClientCut`, `ClientAbort` |

A buffer without a NUL (a read that fills all of it) runs into whatever lies
behind it; `CStrings` then offers both outcomes, none or one unit of `Junk`.
The kernel may accept one connection more than the argument of `listen`;
`Backlog` counts what it holds in all.

### ChunkStore

What the chunk server shows of itself is `disk`, seen as files with their data
and the client they came from, and for every client what it has sent that is
still unread and what was received of its upload. `ChunkServer` maps its
variables to these at its end (`Store`): the thread's places, its buffer, the
queue, requests and replies vanish. `ChunkStore` allows one upload at a time; a
file is emptied when its upload begins and then only grows, along what its
client sends; an upload that ends without a failure has all it received in its
file; an end of the process may come at any point of it, and nothing else
touches a file. That an upload begins by emptying the file is what the code does
(`chunkserver.cc:129` opens it with `ofstream::binary`, which truncates); the
comment four lines above, "currently only append to the file; later support
inserts", has it otherwise. The two cannot both be promised: `ChunkStore` and
`StoredIsClientData` state what is done, and `UploadsAppend` (run `append`) what
is written.

### Client

`pc` is where the one thread of the client is; `master` is the other end of the
connection it makes when it starts and keeps. `buffer` is `TCPClient::buffer`,
which `CharBuffer` describes as it does the server's: a read overwrites its
first cells, and the string goes to the first `Nul`. The chunk server at the
other end is not a part of this module; that it may take a block or not, answer
or keep silent, or go away at any point is `SendBlock`, `ReadReply`,
`ChunkServerLost`. `send` waits as long as the chunk server reads nothing and its
queue is full, so `SendBlock` is not one of the steps that need nobody (`Runs`).

The master that answers is external, too: nothing in the repository serves the
port the client connects to (5646). The code that builds its answers
(`getCSDiscoverMessage`) is called from a comment in `serverMain` only, and the
thread that runs there today speaks Hadoop's protocol on another port.
`MasterAnswers` sends what that code would.

| Code | Action |
|---|---|
| the first `connectToServer` | `ConnectToMaster` |
| the prompt: `getline`, `deserialize`, the `switch`; `exit` and what ends the process there | `Type`, `TypeEnds` |
| the command is sent to the master; SIGPIPE | `Ask`, `AskEnds` |
| `readMessage` returns a string / the read fails | `ReadAnswer`, `ReadAnswerFails` |
| `deserialize` or `stoi` on the answer end the process | `DecodeEnds` |
| the connection to the chunk server, the file that is opened | `ConnectToChunkServer` |
| the command is sent there; SIGPIPE | `SendRequest`, `SendRequestEnds` |
| the loop of `uploadFile` | `SendBlock`, `FinishedUploading` |
| the reply of a read; the chunk server goes | `ReadReply`, `ChunkServerLost` |
| `close` | `CloseConnection` |
| the master (external) | `MasterAnswers`, `MasterCloses` |

### Master

`stream[c]` is every byte client `c` has sent, `taken[c]` how many of them were
read, `eof` the eofbit of the `istream` over `sockBuf`. A client sends a preamble
of `PreambleSize` bytes and frames: four bytes of length, a delimited header
that names the call, and the rest of the call. Bytes are numbers because the
reader, once it has lost its place, takes the bytes of one field for those of
another. `CallOf` stands for protobuf's parser: which call id it finds in the
bytes of a header.

| Code | Action |
|---|---|
| `acceptClientConnection`, as long as `connectionHeaderRead` is false; it fails | `Listen`, `AcceptClientConnection`, `SocketFails` |
| `getHeader` | `GetHeader` |
| the length, `readIntBigEndian` | `ReadLength` |
| `readVarint32` returns / calls `exit(1)` | `ReadSize`, `ReadSizeExits` |
| the body of `readDelimitedFrom` | `ReadBody` |
| the chain of `if`s on the call id: exits / reads a second message / only prints | `DispatchExits`, `DispatchMessage`, `DispatchOther` |
| an `exit` of the chunk server's thread; a new process | `ExitElsewhere`, `Restart` |
| Hadoop's client (external) | `ClientConnect`, `ClientSendPreamble`, `ClientSendCall`, `ClientLeave`, `ClientBreak` |

`Read(n)` is every read: `n` bytes, or what is left when the client is gone,
which sets the eofbit, or nothing once it is set. What a read did not fill has
any value, and so has then the call id that is parsed from it. A blocked read is
an action that is not enabled; the bytes of one read are taken together, since
nobody else reads the stream. The master sends nothing.

### Server

`serverMain` starts the chunk server's thread and goes on to be the master's.
`Server` extends `Master` and takes `ChunkServer` as the instance `Chunk`; the
variables of the two are apart, but for `alive`. A step of the process is a step
of one thread or of one of its clients that leaves `alive` as it is
(`MasterThread`, `ChunkThread`, `RpcClient`, `FileClient`), an exit in one
thread that is the `ExitElsewhere` of the other (`MasterExits`, `ChunkExits`, and
`SocketExits` for a `listen` or an `accept` that fails in either), or a new
process (`ProcessRestart`). `ProcessAssumption` says that `ExitElsewhere`
is switched on.

### StreamReader and EditLog

The edit log reader is one thread that reads a file, so all that can go wrong
lies in the file: `Init` cuts it at any byte, as a name node that stopped leaves
it, or it is not there. `todo` is the list of reads that the current turn of the
loop has still to do; `Fields(op)` gives them for each opcode, in the order of
the `read...` functions, which are sequences of field kinds with the functions'
names. A loop in the code (`readBlocks`, `readBlocksCompactArray`) puts further
reads in front (`More`), an exit in it is `Refused`. `Found` is what a variable
holds after its read: the value, or, for the fields that decide on what follows
and were not reached, anything (`AnyCount`), or zero where the code sets it to zero
before a read that finds nothing (`SetToZero`).

| Code | Action |
|---|---|
| log version and layout flags | `ReadLayout` |
| `readByte(&opcode)`, the end seen before / not | `EndOfFile`, `ReadOpcode` |
| length, txid, each field, the checksum; `exit(1)` in a field | `ReadField` |
| `OP_END_LOG_SEGMENT`, an unknown opcode | `Exit` |
| the end of the loop's body, the break for `OP_INVALID` | `EndOfTurn` |

`values` and `served` are histories: what the fields of the current operation
and of those before it were found to be.

A file is its bytes and, in `written`, what was written into them: for each
operation its opcode and its fields, a field being its kind, its value and the
place where its bytes end. `EditLog` itself asks nothing of the two;
`LogAssumption` of `WrittenLog` ties them together. The operations lie one
behind the other; the bytes of a field are the writer's encoding of its value
(`Encodes`); an operation that is `handled` has, one by one, the fields the
reader takes it for (`Reads`: what is still to be read behind each of them,
which for blocks depends on the number before them), and one that is not has
them up to a field or an opcode at which the reader exits. Without the last part
nothing could be said, since a reader and a writer that differ about the fields
of an operation have lost each other; whether they do is what TLC checks: the
logs of `MCEditLog` are written by `HadoopLog`, which names the fields of each
operation as Hadoop writes them and knows nothing of the reader, and
`LogAssumption` is evaluated for each. A directory with an ACL is the one record
of those the reader knows that does not meet it: `readMkDir` does not read the
entries of an ACL. The logs have an ACL of size zero there, and nothing is said
of others.

### FsImage

A protobuf message is a function from field numbers (those of `fsimage.proto`)
to the values written for the field. A parse *merges* what it finds into the
message it is given: repeated fields get longer, of a scalar the last value
counts, an embedded message is merged in its turn (`Merge`, `Scalar`,
`Embedded`). `main` parses every inode into one `INODE` message and so prints
what this makes of it (`PrintedInode`). An image is its table of sections and
its messages, one behind the other, the summary and its length last.
`ImageAssumption` and `SectionAssumption` say what kind of file a name node
writes: a section has a name of its own and begins at a message, the sections
that are read hold the inodes and strings their headers announce, the directory
section is not the last one, and an inode has its type, id and name and, by its
type, one message that is set once (`IsInode`). The reader checks none of this;
the images TLC is given have it.

| Code | Action |
|---|---|
| the table of sections, read from the end of the file | `ReadSummary` |
| the chain of `if`s on a section's name | `OpenInodes`, `OpenStrings`, `OpenDirectories`, `SkipSection` |
| the loop over inodes; the entry behind an ACL's last one checked for | `ReadInode`, `ReadInodeAborts` |
| the loop over strings | `ReadString` |
| the ends of these loops | `LoopEnds` |
| the loop over directory entries, its `break` | `ReadEntry`, `EntriesEnd` |
| `return` | `Return` |

`Beyond` is what may lie behind the entries of an ACL when protobuf was built
without its check; with it the process is aborted. The branch of `STRING_TABLE`
carries the comment "invalid right now" (`main.cc:253`). It does not say what is
invalid; the branch reads the section as its header announces it, and
`AllPrinted` holds of it as of the inodes.

## 3. Properties and runs

| Run | Question | Properties |
|---|---|---|
| `upload` | two clients on one file name; the process ends and folders, opens, writes and accepts fail anywhere: what do files hold, and is that what `ChunkStore` allows? | `TypeOK`, `NoConnectionLost`, `StoredIsClientData`, `UploadComplete`, `ImplementsStore` |
| `clients_end` | requests of different length in one buffer: what reaches `deserialize`, and is every client served or cut off? | `FaithfulText`, `RequestNeverKills`, `EveryClientEnds` |
| `client` | the client with a master that answers in parts, late, or closes | `TypeOK`, `AnswerIsForCommand`, `CommandArrivesAsTyped`, `EveryCommandEnds` |
| `server` | the process: an RPC client whose calls are plain, have a parameter, are reserved, unknown or long, and who leaves or breaks off anywhere, beside a file client | `TypeOK`, `CallsInOrder`, `ExitsForCause`, `ProcessEndsForCause`, `CallsDispatched` |
| `edit_log` | is every operation of an edit log read as it was written, wherever the log was cut? | `TypeOK`, `ServedAsWritten`, `OneTooMany`, `EndsForCause`, `Ends` |
| `fsimage` | what is printed of an image, with every order of files, open files, files with an ACL, directories and links? | `TypeOK`, `IdentityAsWritten`, `OwnContents`, `EntriesComplete`, `AllPrinted`, `Ends` |

The runs further below show where the code does not do what a line of the
repository says. In these cases, too, it goes wrong; the properties ask for what
a correct program does and leave the case out, but for the sign in the third:

* An inode is parsed into a message that still holds those before it, so a file
  is printed with the blocks of all files before it, and one that is closed with
  the client of the last open one. `OwnContents` asks that the blocks of the file
  itself come in order and last, and that the client of an open file is its own.
* The loop over an ACL goes one entry beyond the last, which is printed or aborts
  the process, and so for every file behind the first that has one.
  `OwnContents` asks for the entries of the file, in order, and for an abort only
  where an ACL was met.
* The sign of a negative number of several bytes of an edit log is lost (a block
  smaller than the one before it has such a difference). `ServedAsWritten` takes
  what is read of such a number, its complement, for the number (`Stands`), which
  says that nothing is lost but the sign, and asks for every other as it is.
* A directory with an ACL in an edit log is read out of place from the ACL on,
  although the line that is printed there ends in "Exiting now."
  (`editlog.cc:471`). No log of the run has one.
* The parameter of an RPC call is never read (`master.cc:238`), and the next
  length is taken from it. `CallsInOrder` and `ExitsForCause` ask nothing behind
  a call that has one.
* An answer of the master that is read in parts, together with the next, or over
  a longer one is not what the master sent. `AnswerIsForCommand` asks nothing
  then.
* When the first RPC client has left, no other is accepted. `CallsDispatched` is
  about the calls of the one that was.

Runs that find a violation; each property is what a comment, a definition of
the format or a log line of the repository says:

| Run | What the repository says | What the code does |
|---|---|---|
| `request_honoured` | the request decides what is done | the tail of an earlier request changes the name |
| `empty_message` | an empty message ends the client connection | it ends the process |
| `stored` | data is stored as it is received | three reads, the rest is dropped |
| `append` | "currently only append to the file; later support inserts" | a second upload of a name empties the file |
| `directories` | the entries are "ended at the boundary of the section" | the loop ends at the first message without a parent, and prints what lies before that as entries |
| `closed` | an empty reply is "Server connection closed." | the reply before is still in the buffer, and the command goes to the address in it |

**Bounds.** Two connections are enough for one upload to overwrite another, to be
interrupted by an end of the process and to be followed by a second one, and for
the tail of one request to lie behind the next.
`BufSize = 5` is longer than the longest request by at least one unit and is
filled when content follows the request, so both sides of the missing NUL occur.
`BlockSize = 2` with contents of up to four units makes uploads that need more
than three reads possible (reads of one unit) and such that do not; `Rounds = 3`
is the code's own number. `Backlog` is 1 or 2, so that a full queue occurs. The
counters of the model are bounded by the finite jobs; restarts are not, they add
no state.

For the master, `Limit = 9` stands for the 128 from which a size takes two
bytes; every header of a script but the long one is shorter, and every path of
the dispatch has a script. `server` has one client of either thread, since the
product of the two is large and one RPC client is all a process ever accepts;
that a second one is accepted after a restart is what the theorems about
`Master` cover, which hold for any number.

In `client` a line is any command as the usage text has it, one with separators
to spare and a field too many, one whose verb and name are glued together, one
without a name, or empty. Three commands go to the master (`MaxCommands`), which is one to
leave an answer in the buffer, one to read over it, and one after the master has
closed; ports of one and of more pieces make a shorter answer end inside a longer
one, and the answer with a port of three pieces fills `BufSize` without a NUL.
`MaxBlocks` bounds a file, and `MaxDigits = 2` makes the port of three pieces one
for which `stoi` throws. A read of `BufSize` units may hold an answer and the
beginning of the next.

The edit logs hold every operation the reader knows, one it does not know, ACL
and attribute entries, blocks that are smaller than those before them, and
padding; each is cut at every byte. `MaxServed` bounds the history, since a file
that is not there may be read for ever; it is larger than the longest log plus
one. A count that was never set is 0 or 1: the loops it drives do nothing when
the file has ended. The images have the root and up to three inodes of every
kind (`MaxInodes`), which is one before a file, the file, and one behind it, and
what follows the directory section has a parent or not; one image is the file
that is not there.

`CHECK_DEADLOCK FALSE` is set because a system whose clients all are gone may
stop in `accept`, which is where a server waits, and a program that has read its
file, or was left, stops.

**Fairness.** `EveryClientEnds` assumes weak fairness of the server's thread,
which the operating system schedules as long as the process lives, and of each
client's own steps after it has connected: `uploadFile` and `readFile` of the
client run to their end without waiting for anyone but the server. Nothing
else is fair: no client has to connect, nothing has to fail, nobody restarts
the process, nobody interrupts a client. Without the client's fairness the
property is false, since `getMessage` has no timeout. For `CallsDispatched` only
the master's thread is fair (`ServerSpec`), whatever the other thread does: what
has been sent is read, even when the client has left. For `EveryCommandEnds`
only the client's own steps are (`Runs`): nobody has to type, to answer, to take
a block, or to close, and the property names the three places where the client
may wait for ever: the answer of a master and the reply of a chunk server that
keep silent, and the send of a block to one that serves another client. Nowhere
does a call on a socket have to fail (`SocketFails` is under no fairness). For
`Ends`, of the edit log and of the fsimage, the program's one thread is. The
former holds for files that can be opened: `isEOF` looks at the eofbit alone, so
when the open fails the loop goes round on an opcode that was never set.

## 4. Theorems

All theorems hold for every set of connections, peers, jobs and scripts, every
size of the buffer, the blocks and the backlog, and with the faults of the disk
and of the sockets and the exits of the other thread switched on or off. They assume only the named
assumptions of `Message` (`PieceAssumption`: separator, verbs and parts are
distinct), of `Client` (the types of its
constants, and that commands and answers are messages whose fields are not
empty), of `ChunkServer` (`ConnAssumption`, `SizeAssumption`,
`UnitAssumption`, `SwitchAssumption`, and `JobAssumption`: a client's request has
its names), of `FsImage` (`ImageAssumption` and `SectionAssumption`: the file is
one that a name node writes), of `EditLog` and `WrittenLog` (`FileAssumption`:
types; `LogAssumption`: the log is one that Hadoop writes, and the history is
longer than it), of `Master` (`PeerAssumption`, `CallAssumption`: the absence of a
call id is no number, `LimitAssumption`, and `ScriptAssumption`: a call's id is
the one its header is parsed to), and of `Server` (`ProcessAssumption`, and
`ChunkAssumption`, which repeats for the instance `Chunk` what `ChunkServer`
assumes, since the assumptions of a module do not come with an instance of it).

| Theorem | Statement | Argument |
|---|---|---|
| `TypeCorrect` | `Spec => []TypeOK` | `TypeInv` adds three facts: a client that sends content has sent its request (so that what is left to send is a number); the third read ends the loop; a good `ofstream` has its file (so that `Flush` finds it on disk). |
| `ConnectionsKept` | `Spec => []NoConnectionLost` | `ConnInv` adds that a connection nobody has made is open and empty. The steps fall into kinds (`StepKinds`): quiet, ending, accept, close, client. |
| `StoredCorrect` | `Spec => []StoredIsClientData` | `StoreInv`: while an upload runs, the `ofstream` was given exactly what was read after `getMessage` (`FoutInv`), its file names the connection (`OwnInv`), and no file names a connection `getMessage` has yet to read (`UnreadInv`), since reading would move the place from which the file's data counts. That last part rests on `NoConnectionLost`: a connection served is not in the queue as well. Streams only grow (`ClientGrows`), so what was received stays received (`ReceivedStays`). |
| `UploadsComplete` | `Spec => []UploadComplete` | inductive relative to `StoreInv`, whose `EndInv` says that the loop ends early only at the end of the stream. |
| `StoreImplemented` | `Spec => ImplementsStore` | every step of `ChunkServer` is a step of `ChunkStore` or changes nothing it shows. Beside `StoreInv` this needs that the place behind the request lies within what was read (`CutsInv`), that a client that was not served has neither received data nor a file (`NewInv`), and that a client has one file (`OwnerInv`). |
| `RequestArrives` | `Spec => []FaithfulText` | `BufferInv`: a connection nobody has read from has nothing taken (`UntouchedInv`), a stream begins with its client's request (`RequestFirst`), and the cells above `high` are `Nul` (`CleanInv`), so that the string ends where the longest text so far did. |
| `RequestAccepted` | `Spec => []RequestNeverKills` | the text begins with the request; its pieces are no separators, so `strtok` finds the verb first and each name behind it (`StrtokFinds`, `RequestFields`), and whatever follows adds fields and takes none away. |
| `DecodeEndsForCause` | `Spec => [][DecodeEnds => ...]_vars` | the other side of `RequestAccepted`: less than the request had arrived (`cut`). What was read of a connection is at most the buffer (`CutFits`). |
| `TypeCorrect` (`MasterProof`) | `Spec => []TypeOK` of `Master` | `TypeInv` adds that behind the length of a frame the preamble was read, without which the thread could be back at the top without a connection. |
| `DispatchOrder` | `Spec => []CallsInOrder` | `OrderInv` says where in the client's stream the thread is. The stream is the preamble and the frames that were sent (`FramesInv`, `EndInv`); every connection is accepted once, with nothing read of it (`AcceptInv`); and then, with `d` calls dispatched (`PlaceInv`), the thread is at the header of call `d + 1` (`AtHeader`), at the second message of call `d` (`AtMessage`), or the client has left and the end was seen between two frames (`Over`), unless the client broke off or made a call that is not plain before (`Astray`), after which nothing is known. Each read moves this place to the next one (`ReadLengthPlace`, ..., `DispatchPlace`), and nothing that a client sends moves it (`ActPlace`). |
| `ExitCause` | `Spec => ExitsForCause` | in `OrderInv`, a size that ends the process is not where a plain call has one (`SizeThere`), and a reserved id is that of the call at this place. |
| `EndCause` | `ServerSpec => ProcessEndsForCause` | a step that ends the process is an exit of one thread or a call on a socket that failed in one (`AloneOrTogether`, a lemma: every step of the process is a step or a stutter of `Master` and of `ChunkServer`). Then `ExitCause` in the one thread, `DecodeEndsForCause` and a folder that fails in the other; and a thread is at `listen` or `accept` only while it has no connection. `Server` reaches `Message` twice, directly and through `Chunk`, so the operators of the two are first shown to agree (`SameDeserialize`, `SameNext`). |
| `ForwardedAlike` | `Deserializes(text)` gives the same for the text that `serialize` makes of the message | a token has no separator and `strtok` takes a token whole (`TokenFree`, `TokenAt`); so the fields that `serialize` sets apart are found again one by one (`OneField`, `TwoFields`), and the verb of a glued name is replaced by the verb alone. |
| `TypeCorrect` (`ClientProof`) | `Spec => []TypeOK` of `Client` | `CommandInv` adds that a command is one of the forwarded types and survives being sent on (`Forwards`), that `ask` is reached only below `MaxCommands`, and that a running command was sent to the master. |
| `RightServer` | `Spec => []AnswerIsForCommand` | `StreamInv`: the master's stream ends with its last answer and has no `Nul`; `BufferInv`: the buffer begins with the last read, and is `Nul` above that and above `high`. The premise then leaves only one text, that of the answer, and the address is read off it as it was written (`AnswerText`). |
| `CommandArrives` | `Spec => []CommandArrivesAsTyped` | what was sent to the chunk server is `serialize(command)`, and the command came from a line: `ForwardedAlike` says that it is read back (`TypedCommand`). |
| `TypeCorrect` (`FsImageProof`) | `Spec => []TypeOK` of `FsImage` | `Inv`: a loop runs in the section it is for (`TableInv`); `InodesInv`, `StringsInv` and `EntriesInv` tie the place of the stream, what the header left to read and what was printed to each other, before, in and behind each section. The loop over directory entries is always at a message, since the last one stops it. |
| `IdentityPrinted`, `ContentsPrinted` | `Spec => []IdentityAsWritten`, `[]OwnContents` | `HeldInv`: after `n` inodes the one protobuf object holds the blocks and the ACL entries of all `n`, one behind the other, and the client of the last open one. What is the file's own lies last in that (`OwnLast`, `BehindLies`). A merge keeps this (`InodeMerged`, `HeldNext`): an embedded message that was merged is the one before with the new fields behind its own (`EmbeddedMerged`), and a scalar that every inode of a type sets is replaced. |
| `EntriesPrinted`, `EverythingPrinted` | `Spec => []EntriesComplete`, `[]AllPrinted` | each step prints the message at its place (`EntriesOfStep`, `StringsOfStep`); the counts follow from `InodesInv`, `StringsInv` and `EntriesInv` at the end. |
| `TypeCorrect` (`EditLogProof`) | `Spec => []TypeOK` of `EditLog` | `TypeInv` adds that the bytes are bytes and that an operation is read only once there is an opcode. What `Extent` and `Value` return is typed for any bytes at all (`ExtentType`, `ValueType`), since a reader that has met the end reads rubbish. |
| `ReadAsWritten`, `OneBeyond`, `EndCause` | `Spec => []ServedAsWritten`, `[]OneTooMany`, `[]EndsForCause` | `PlaceInv` says where the reader is: in an operation it is `OnTrack`, behind the first `k` fields with their values read and `Reads(op)[k]` still to do, or `Astray`, that is, the end was met and the operation is not whole in the file; and it has served only whole operations (`OnlyWhole`), until, with the end seen, it has served all of them and at most one more (`AllWhole`; `NoneBehind`: no whole operation lies behind one that is not). `ServedInv` is the part of the property about what was served. A field that is there is found where it was written, with its extent and value (`FieldRead`, from `ExtentOfEncoded` and `ValueOfEncoded`: the codecs of `SimpleReader` undo those of the writer, but for the sign), so a read moves the place by one field (`AtField`), and `todo` is empty just behind the last (`AtEnd`). An exit is at the field the operation is refused for (`AtExit`). |

What `Merged` makes of any number of messages is defined by `FlattenSeq`, whose
recursive function TLAPS knows nothing about. That it exists (`FlattenExists`) and
what it does with one sequence more (`FlattenAppend`) is proved from the least
length for which it would not hold (`MinOfNats`). In the same way `EditLogProof`
shows that the functions behind `BigEndian` and `Reads` exist and what each step
of them is (`NoException`, `BigEndianExists`, `ReadsSteps`).

`MessageProof` proves what these rest on: every token of `strtok` is a piece
of its text without a separator, `deserialize` returns a message and `serialize`
a text of at least one piece, and of at least two for a request.

Only model-checked: `EveryClientEnds`, `CallsDispatched`, `EveryCommandEnds` and
`Ends` of either reader, since liveness under fairness is beyond the prover.
Every other property of a passing run is a theorem.

## 5. Plan

1. `Message`, `ChunkServer`, with `MessageProof`, `ChunkServerProof` – done: the part of the system that stores data.
2. `ChunkStore` – done: what it promises; `ChunkServerProof` shows the promise kept.
3. `Master`, `MasterProof` – done.
4. `Server`, `ServerProof` – done: the process.
5. `Client`, `ClientProof` – done.
6. `FsImage`, `FsImageProof` – done.
7. `StreamReader`, `EditLog`, `WrittenLog`, `EditLogProof` – done.

## 6. Abstractions and what is left out

* Bytes are units: a verb, a separator, a part of a name, a piece of content.
  A read can stop between units, not inside one.
* The path prefix that `uploadFile` puts before a name is left out: it is the
  same for all names. Folders are only their failure.
* TCP keeps order and loses nothing while both ends live; a connection that
  waits when the process ends is reset.
* A `listen` or an `accept` may fail whenever `SocketFaults` is set, in either
  thread, and ends the process (`SocketFails`, `SocketExits`). `socket`,
  `setsockopt` and `bind` come before anything is served: a failure of theirs is
  a process that does not start.
* In the model of the master a preamble or a length that is cut short behaves
  like any other read that is; their values are only printed.
* Of a long of eight bytes, and of the length and checksum of an operation, the
  edit log reader prints the value and uses nothing; they are compared as bytes.
* Numbers of an fsimage that are only printed (sizes, times, counts) are left
  out, and of its messages all fields but those a branch or a loop depends on and
  those that are told apart in print.
* When a `send` of the client waits is left open: `SendBlock` may come late or
  never.
* `stoi` in the client takes a port of more than `MaxDigits` pieces for too
  large; the address of a host is not resolved.
* Logging, `printMessage`, and the functions no one calls (`init`,
  `sendMessage` of the chunk server, `getByteArray`, `createWriteMessage` and
  `printReplyString` of the client, `readInt`, `readLong64` and `SimpleWriter`)
  are left out.

**Not modelled.** `masterfsdata.cc` is not in the Makefile and does not compile,
`chunkfsdata.cc` is a comment: neither is a part of the program. The logger holds
no state that a property is about. The `.proto` files are Hadoop's; their
messages are data of `FsImage` and of the clients of `Master`. Compressed images,
which `main.cc` would read as if they were not, are left out, since nothing says
what protobuf's parser finds in them.
