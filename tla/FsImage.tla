------------------------------ MODULE FsImage ------------------------------
(***************************************************************************)
(* The fsimage reader (proto/main.cc): it reads the table of sections from *)
(* the end of the file, and of each section it knows the messages that lie *)
(* at its offset, and prints them.                                         *)
(*                                                                         *)
(* A protobuf message is a function from field numbers to the values       *)
(* written for the field, one behind the other.  A parse adds what it      *)
(* finds to the message it is given.  The reader gives it the same INODE   *)
(* message for every inode, and a new one for all else.                    *)
(***************************************************************************)
EXTENDS Integers, Sequences, SequencesExt

CONSTANTS
  Images,   \* images: the table of sections, and the messages of the file
  Beyond    \* what may lie in memory behind the entries of an ACL

FILE == 1
DIRECTORY == 2

-----------------------------------------------------------------------------
(***************************************************************************)
(* Messages                                                                *)
(***************************************************************************)
Nothing == [f \in {} |-> <<>>]

Repeated(m, f) == IF f \in DOMAIN m THEN m[f] ELSE <<>>

\* A parse into m: what is there stays, and what is read comes behind it.
Merge(m, more) ==
  [f \in DOMAIN m \cup DOMAIN more |-> Repeated(m, f) \o Repeated(more, f)]

Has(m, f) == Repeated(m, f) # <<>>

\* Of a field that is not repeated the last value counts.
Scalar(m, f, default) == IF Has(m, f) THEN Last(Repeated(m, f)) ELSE default

\* What several parses leave in a new message.
Merged(written) ==
  [f \in UNION {DOMAIN written[i] : i \in DOMAIN written} |->
     FlattenSeq([i \in DOMAIN written |-> Repeated(written[i], f)])]

\* A field that is a message has all that was written for it.
Embedded(m, f) == Merged(Repeated(m, f))

-----------------------------------------------------------------------------
(***************************************************************************)
(* What is printed                                                         *)
(***************************************************************************)
Type(m) == Scalar(m, 1, FILE)
FileOf(m) == Embedded(m, 4)
DirectoryOf(m) == Embedded(m, 5)
HasAcl(m) == Type(m) = FILE /\ Has(FileOf(m), 8)

\* Mutant of Identity: the permission of a directory is taken from its file.
IdentityOfFile(m) ==
  [type |-> Type(m), id |-> Scalar(m, 2, 0), name |-> Scalar(m, 3, ""),
   permission |-> IF Type(m) \in {FILE, DIRECTORY}
                  THEN Scalar(FileOf(m), 5, 0) ELSE 0]

\* The fields every inode has, and the permission of files and directories.
Identity(m) ==
  [type |-> Type(m), id |-> Scalar(m, 2, 0), name |-> Scalar(m, 3, ""),
   permission |-> CASE Type(m) = FILE -> Scalar(FileOf(m), 5, 0)
                    [] Type(m) = DIRECTORY -> Scalar(DirectoryOf(m), 4, 0)
                    [] OTHER -> 0]

\* The blocks of a file, the client that has it open, and its ACL.
Contents(m) ==
  IF Type(m) = FILE
  THEN [blocks |-> Repeated(FileOf(m), 6),
        client |-> Scalar(Embedded(FileOf(m), 7), 1, ""),
        acl |-> Repeated(Embedded(FileOf(m), 8), 2)]
  ELSE [blocks |-> <<>>, client |-> "", acl |-> <<>>]

\* Mutant of AclPrinted: the loop begins at the second entry.
AclPrintedFromOne(m, beyond) ==
  IF HasAcl(m) THEN Tail(Append(Contents(m).acl, beyond)) ELSE <<>>

\* The loop over the entries goes one further.
AclPrinted(m, beyond) ==
  IF HasAcl(m) THEN Append(Contents(m).acl, beyond) ELSE <<>>

PrintedInode(m, beyond) ==
  [identity |-> Identity(m),
   contents |-> [Contents(m) EXCEPT !.acl = AclPrinted(m, beyond)]]

PrintedString(m) == [id |-> Scalar(m, 1, 0), str |-> Scalar(m, 2, "")]

Parent(m) == Scalar(m, 1, 0)

PrintedEntry(m) == [parent |-> Parent(m), children |-> Repeated(m, 2)]

-----------------------------------------------------------------------------
(***************************************************************************)
(* Images: what the name node writes, or a file that is not there          *)
(***************************************************************************)
IsSequence(s) == Len(s) \in Nat /\ s = [i \in 1..Len(s) |-> s[i]]
IsMessage(m) == \A f \in DOMAIN m : f \in Nat /\ IsSequence(m[f]) /\ m[f] # <<>>

IsOne(m, f) == \E one \in Range(Repeated(m, f)) :
                 Repeated(m, f) = <<one>> /\ IsMessage(one)

\* An inode has a type, an id and a name, and, if it is a file or a directory,
\* one message of that kind, which has a permission; what a file has of the
\* client that has it open and of its ACL is one message each.
IsInode(m) ==
  /\ Has(m, 1) /\ Has(m, 2) /\ Has(m, 3)
  /\ IF Type(m) = FILE
     THEN /\ IsOne(m, 4) /\ Has(FileOf(m), 5)
          /\ Has(FileOf(m), 7) =>
               IsOne(FileOf(m), 7) /\ Has(Embedded(FileOf(m), 7), 1)
          /\ Has(FileOf(m), 8) => IsOne(FileOf(m), 8)
     ELSE ~Has(m, 4)
  /\ IF Type(m) = DIRECTORY
     THEN IsOne(m, 5) /\ Has(DirectoryOf(m), 4)
     ELSE ~Has(m, 5)

\* A section begins at a message of the image, a name has one section, and
\* the last message, the length of the summary, has no field.
ASSUME ImageAssumption ==
  \A image \in Images :
    LET table == image.sections
    IN  /\ IsSequence(table) /\ IsSequence(image.messages)
        /\ \A p \in DOMAIN image.messages : IsMessage(image.messages[p])
        /\ image.messages # <<>> => Last(image.messages) = Nothing
        /\ \A i \in DOMAIN table : table[i].offset \in DOMAIN image.messages
        /\ \A i, j \in DOMAIN table : table[i].name = table[j].name => i = j

\* The sections that are read hold what their headers announce; the section
\* of directories, which has no header, is followed by another.
ASSUME SectionAssumption ==
  \A image \in Images : \A i \in DOMAIN image.sections :
    LET start  == image.sections[i].offset
        name   == image.sections[i].name
        header == image.messages[start]
    IN  /\ name = "INODE" =>
             /\ Scalar(header, 2, 0) \in Nat
             /\ start + Scalar(header, 2, 0) \in DOMAIN image.messages
             /\ \A p \in start + 1..start + Scalar(header, 2, 0) :
                  IsInode(image.messages[p])
        /\ name = "STRING_TABLE" =>
             /\ Scalar(header, 1, 0) \in Nat
             /\ start + Scalar(header, 1, 0) \in DOMAIN image.messages
        /\ name = "INODE_DIR" =>
             /\ i + 1 \in DOMAIN image.sections
             /\ \A p \in start..image.sections[i + 1].offset - 1 :
                  Parent(image.messages[p]) # 0

-----------------------------------------------------------------------------
VARIABLES
  image,      \* the file
  sections,   \* fsSummary, the table of sections
  section,    \* i, the section that is read
  position,   \* where the stream of the section is
  left,       \* how many messages the section's loop has to read, by its header
  inode,      \* the INODE message
  pc,         \* where main is
  inodes,     \* the inodes printed
  strings,    \* the strings printed
  entries     \* the directory entries printed

printed == <<inodes, strings, entries>>
vars == <<image, sections, section, position, left, inode, pc, printed>>

\* The message a stream is at.  At the end of the file a parse finds nothing.
Upcoming == IF position \in DOMAIN image.messages THEN image.messages[position]
            ELSE Nothing

Onward == IF position \in DOMAIN image.messages THEN position + 1 ELSE position

-----------------------------------------------------------------------------
(***************************************************************************)
(* main                                                                    *)
(***************************************************************************)
Init ==
  /\ image \in Images
  /\ sections = <<>>
  /\ section = 1
  /\ position = 1
  /\ left = 0
  /\ inode = Nothing
  /\ pc = "summary"
  /\ inodes = <<>> /\ strings = <<>> /\ entries = <<>>

\* Of a file that is not there the table is empty.
ReadSummary ==
  /\ pc = "summary"
  /\ sections' = image.sections
  /\ pc' = "section"
  /\ UNCHANGED <<image, section, position, left, inode, printed>>

At(name) ==
  pc = "section" /\ section \in DOMAIN sections /\ sections[section].name = name

OpenInodes ==
  /\ At("INODE")
  /\ LET header == image.messages[sections[section].offset]
     IN  left' = Scalar(header, 2, 0)
  /\ position' = sections[section].offset + 1
  /\ inode' = Nothing
  /\ pc' = "inode"
  /\ UNCHANGED <<image, sections, section, printed>>

\* Mutant of OpenStrings: the header is taken for an entry.
OpenStringsAtHeader ==
  /\ At("STRING_TABLE")
  /\ LET header == image.messages[sections[section].offset]
     IN  left' = Scalar(header, 1, 0)
  /\ position' = sections[section].offset
  /\ pc' = "string"
  /\ UNCHANGED <<image, sections, section, inode, printed>>

OpenStrings ==
  /\ At("STRING_TABLE")
  /\ LET header == image.messages[sections[section].offset]
     IN  left' = Scalar(header, 1, 0)
  /\ position' = sections[section].offset + 1
  /\ pc' = "string"
  /\ UNCHANGED <<image, sections, section, inode, printed>>

\* Mutant of OpenDirectories: the first entry is taken for a header.
OpenDirectoriesBehind ==
  /\ At("INODE_DIR")
  /\ position' = sections[section].offset + 1
  /\ pc' = "entry"
  /\ UNCHANGED <<image, sections, section, left, inode, printed>>

OpenDirectories ==
  /\ At("INODE_DIR")
  /\ position' = sections[section].offset
  /\ pc' = "entry"
  /\ UNCHANGED <<image, sections, section, left, inode, printed>>

\* Sections that have no branch, or an empty one.
SkipSection ==
  /\ pc = "section" /\ section \in DOMAIN sections
  /\ sections[section].name \notin {"INODE", "STRING_TABLE", "INODE_DIR"}
  /\ section' = section + 1
  /\ UNCHANGED <<image, sections, position, left, inode, pc, printed>>

ReadInode ==
  /\ pc = "inode" /\ left > 0
  /\ inode' = Merge(inode, Upcoming)
  /\ \E beyond \in Beyond : inodes' = Append(inodes, PrintedInode(inode', beyond))
  /\ position' = Onward
  /\ left' = left - 1
  /\ UNCHANGED <<image, sections, section, pc, strings, entries>>

\* The entry beyond the last of an ACL is checked for, unless the program was
\* built without the checks, and the process is aborted.
ReadInodeAborts ==
  /\ pc = "inode" /\ left > 0
  /\ inode' = Merge(inode, Upcoming)
  /\ HasAcl(inode')
  /\ pc' = "aborted"
  /\ UNCHANGED <<image, sections, section, position, left, printed>>

\* Mutant of ReadString: one string more is read than there are.
ReadStringOneMore ==
  /\ pc = "string" /\ left >= 0
  /\ strings' = Append(strings, PrintedString(Upcoming))
  /\ position' = Onward
  /\ left' = left - 1
  /\ UNCHANGED <<image, sections, section, inode, pc, inodes, entries>>

ReadString ==
  /\ pc = "string" /\ left > 0
  /\ strings' = Append(strings, PrintedString(Upcoming))
  /\ position' = Onward
  /\ left' = left - 1
  /\ UNCHANGED <<image, sections, section, inode, pc, inodes, entries>>

LoopEnds ==
  /\ pc \in {"inode", "string"} /\ left = 0
  /\ section' = section + 1
  /\ pc' = "section"
  /\ UNCHANGED <<image, sections, position, left, inode, printed>>

\* The directory section has no count, and its length is not looked at.
ReadEntry ==
  /\ pc = "entry"
  /\ Parent(Upcoming) # 0
  /\ entries' = Append(entries, PrintedEntry(Upcoming))
  /\ position' = Onward
  /\ UNCHANGED <<image, sections, section, left, inode, pc, inodes, strings>>

\* Mutant of EntriesEnd: an entry without a parent is passed over.
EntriesGoOn ==
  /\ pc = "entry"
  /\ Parent(Upcoming) = 0
  /\ position' = Onward
  /\ UNCHANGED <<image, sections, section, left, inode, pc, printed>>

EntriesEnd ==
  /\ pc = "entry"
  /\ Parent(Upcoming) = 0
  /\ section' = section + 1
  /\ pc' = "section"
  /\ UNCHANGED <<image, sections, position, left, inode, printed>>

Return ==
  /\ pc = "section" /\ section \notin DOMAIN sections
  /\ pc' = "done"
  /\ UNCHANGED <<image, sections, section, position, left, inode, printed>>

Next ==
  \/ ReadSummary \/ OpenInodes \/ OpenStrings \/ OpenDirectories \/ SkipSection
  \/ ReadInode \/ ReadInodeAborts \/ ReadString \/ LoopEnds
  \/ ReadEntry \/ EntriesEnd \/ Return

Spec == Init /\ [][Next]_vars

\* The program has one thread.
FairSpec == Spec /\ WF_vars(Next)

-----------------------------------------------------------------------------
(***************************************************************************)
(* Properties                                                              *)
(***************************************************************************)

\* Type correctness: the reader stays within the table and within the file,
\* one past its last message, and a message is a function of sequences.
TypeOK ==
  /\ sections \in {<<>>, image.sections}
  /\ section \in 1..Len(image.sections) + 1
  /\ position \in 1..Len(image.messages) + 1
  /\ left \in Nat
  /\ IsMessage(inode)
  /\ pc \in {"summary", "section", "inode", "string", "entry", "done", "aborted"}

\* The section of a name, where it begins and, unless it is the last, ends.
Section(name) == {i \in DOMAIN sections : sections[i].name = name}
PlaceIn(table, name) == CHOOSE i \in DOMAIN table : table[i].name = name
Start(name) == sections[PlaceIn(sections, name)].offset
Boundary(name) == sections[PlaceIn(sections, name) + 1].offset

\* The message of the k-th inode, as it was written.
WrittenInode(k) == image.messages[Start("INODE") + k]

\* Type, id, name and permission of every inode are printed as they were
\* written, although the message still holds all inodes before it (main.cc's
\* loop over the INODE section).
IdentityAsWritten ==
  \A k \in DOMAIN inodes : inodes[k].identity = Identity(WrittenInode(k))

\* All of own lies in s, one behind the other, behind its first n.
LiesBehind(own, s, n) ==
  /\ n \in Nat /\ n + Len(own) <= Len(s)
  /\ \A i \in DOMAIN own : s[n + i] = own[i]

\* What a file has of its own is printed for it: its blocks in order, and no
\* block behind them; the client that has it open, if it is open; of its ACL
\* every entry, in order.  The process is aborted only when a file that has
\* an ACL was met (main.cc's loops over the inodes, blocks and entries).
OwnContents ==
  /\ \A k \in DOMAIN inodes :
       LET file  == FileOf(WrittenInode(k))
           own   == Contents(WrittenInode(k))
           shown == inodes[k].contents
       IN  inodes[k].identity.type = FILE =>
             /\ LiesBehind(own.blocks, shown.blocks, Len(shown.blocks) - Len(own.blocks))
             /\ Has(file, 7) => shown.client = own.client
             /\ Has(file, 8) => \E n \in 0..Len(shown.acl) : LiesBehind(own.acl, shown.acl, n)
  /\ pc = "aborted" => \E k \in 1..Len(inodes) + 1 : Has(FileOf(WrittenInode(k)), 8)

\* How many entries the section of directories holds.
EntryCount == Boundary("INODE_DIR") - Start("INODE_DIR")

\* All entries that the section of directories holds are printed, in order and
\* unchanged, before anything else is (main.cc's loop over the INODE_DIR
\* section, which knows neither their number nor the section's length).
EntriesComplete ==
  Section("INODE_DIR") # {} =>
    /\ \A k \in DOMAIN entries :
         k <= EntryCount =>
           entries[k] = PrintedEntry(image.messages[Start("INODE_DIR") + k - 1])
    /\ pc = "done" => Len(entries) >= EntryCount

\* What fsimage.proto:225 says of the section: "repeated DirEntry, ended at the
\* boundary of the section."  Nothing that lies behind it is printed as an
\* entry (main.cc's loop over the INODE_DIR section).
EntriesEndAtBoundary == Section("INODE_DIR") # {} => Len(entries) <= EntryCount

\* What the headers announce.
InodeCount == Scalar(image.messages[Start("INODE")], 2, 0)
StringCount == Scalar(image.messages[Start("STRING_TABLE")], 1, 0)

\* A run that is not aborted prints every inode and every string the headers
\* announce, each string with its number (main.cc).
AllPrinted ==
  /\ \A k \in DOMAIN strings :
       strings[k] = PrintedString(image.messages[Start("STRING_TABLE") + k])
  /\ pc = "done" /\ Section("INODE") # {} => Len(inodes) = InodeCount
  /\ pc = "done" /\ Section("STRING_TABLE") # {} => Len(strings) = StringCount

\* The reader ends, whatever lies behind the directory section: the length at
\* the end of the file, whose first byte is zero, has no parent (main.cc).
Ends == <>(pc \in {"done", "aborted"})
=============================================================================
