---------------------------- MODULE PrivateFile -----------------------------
(***************************************************************************)
(* writePrivate of internal/auth/config.go, by which config.json and       *)
(* credentials.json are replaced: the document is written to a file of one *)
(* fixed name beside the target, and that file is renamed over it.  A      *)
(* process may be killed, or the disk may be full, at any point, and       *)
(* others read the file meanwhile (LoadConfig).                            *)
(*                                                                         *)
(* A file is an inode with blocks; a name points to an inode.  A process   *)
(* that has a file open keeps its inode, whatever its name becomes.        *)
(***************************************************************************)
EXTENDS Naturals, Sequences, FiniteSets

CONSTANTS
  Writers,   \* processes that replace the file
  Readers,   \* processes that read it
  Docs,      \* documents written
  Size,      \* how many blocks each takes
  MaxSize,   \* bound: the blocks of the largest
  Hole,      \* a block never written
  NoDoc      \* what a writer that is not at work writes

ASSUME PrivateFileAssumption ==
  /\ IsFiniteSet(Writers) /\ IsFiniteSet(Readers)
  /\ {Hole, NoDoc} \cap Docs = {}
  /\ MaxSize \in Nat
  /\ Size \in [Docs -> 1..MaxSize]

NoFile == 0
\* The two names, and every process at work, hold an inode at most.
Inodes == 1 .. Cardinality(Writers) + Cardinality(Readers) + 2

VARIABLES
  disk,      \* the blocks of each inode
  path,      \* the inode of the file itself
  tmp,       \* the inode of the temporary name
  writerAt,  \* where each writer is
  fd,        \* the inode it writes to
  doc,       \* the document it writes
  pos,       \* how many blocks it has written
  lone,      \* writers that no other has met since they began
  met,       \* whether two writers were ever at work at a time
  from,      \* the inode each reader reads
  got        \* the blocks it has read

writing == <<writerAt, fd, doc, pos, lone, met>>
reading == <<from, got>>
fileVars == <<disk, path, tmp, writing, reading>>

FileInit ==
  /\ disk = [i \in Inodes |-> <<>>]
  /\ path = NoFile
  /\ tmp = NoFile
  /\ writerAt = [w \in Writers |-> "idle"]
  /\ fd = [w \in Writers |-> NoFile]
  /\ doc = [w \in Writers |-> NoDoc]
  /\ pos = [w \in Writers |-> 0]
  /\ lone = {}
  /\ met = FALSE
  /\ from = [r \in Readers |-> NoFile]
  /\ got = [r \in Readers |-> <<>>]

-----------------------------------------------------------------------------
InUse(i) ==
  \/ i \in {path, tmp}
  \/ \E w \in Writers : fd[w] = i
  \/ \E r \in Readers : from[r] = i

\* An inode no name and no process holds any longer is gone.
Reclaim == disk' = [i \in Inodes |-> IF InUse(i)' THEN disk[i] ELSE <<>>]

Free == CHOOSE i \in Inodes : ~InUse(i)

\* w begins on inode i, with contents left of what it held.
Begin(w, i, contents) ==
  /\ disk' = [disk EXCEPT ![i] = contents]
  /\ fd' = [fd EXCEPT ![w] = i]
  /\ \E d \in Docs : doc' = [doc EXCEPT ![w] = d]
  /\ pos' = [pos EXCEPT ![w] = 0]
  /\ writerAt' = [writerAt EXCEPT ![w] = "write"]
  /\ lone' = IF \A v \in Writers : writerAt[v] = "idle" THEN {w} ELSE {}
  /\ met' = (met \/ \E v \in Writers : writerAt[v] # "idle")
  /\ UNCHANGED <<path, reading>>

\* Mutant of Open: the target itself is opened.
OpenInPlace(w) ==
  /\ writerAt[w] = "idle"
  /\ tmp' = IF path = NoFile THEN Free ELSE path
  /\ Begin(w, tmp', <<>>)

\* Mutant of Open: what a killed process left is not cut off.
OpenUncut(w) ==
  /\ writerAt[w] = "idle"
  /\ tmp' = IF tmp = NoFile THEN Free ELSE tmp
  /\ Begin(w, tmp', IF tmp = NoFile THEN <<>> ELSE disk[tmp])

\* os.WriteFile opens the name with O_CREATE and O_TRUNC.
Open(w) ==
  /\ writerAt[w] = "idle"
  /\ tmp' = IF tmp = NoFile THEN Free ELSE tmp
  /\ Begin(w, tmp', <<>>)

\* A block written at the writer's own offset, over a hole if need be.
WriteAt(blocks, k, d) ==
  [j \in 1..(IF k > Len(blocks) THEN k ELSE Len(blocks)) |->
     IF j = k THEN d ELSE IF j <= Len(blocks) THEN blocks[j] ELSE Hole]

\* Mutant of WriteBlock: the end of the document is seen one block late.
WriteOn(w) ==
  /\ writerAt[w] = "write"
  /\ disk' = [disk EXCEPT ![fd[w]] = WriteAt(@, pos[w] + 1, doc[w])]
  /\ pos' = [pos EXCEPT ![w] = @ + 1]
  /\ \/ /\ pos[w] < Size[doc[w]]
        /\ UNCHANGED <<writerAt, fd>>
     \/ /\ pos[w] = Size[doc[w]]
        /\ writerAt' = [writerAt EXCEPT ![w] = "rename"]
        /\ fd' = [fd EXCEPT ![w] = NoFile]
  /\ UNCHANGED <<path, tmp, doc, lone, met, reading>>

WriteBlock(w) ==
  /\ writerAt[w] = "write"
  /\ disk' = [disk EXCEPT ![fd[w]] = WriteAt(@, pos[w] + 1, doc[w])]
  /\ pos' = [pos EXCEPT ![w] = @ + 1]
  /\ \/ /\ pos[w] + 1 < Size[doc[w]]
        /\ UNCHANGED <<writerAt, fd>>
     \/ /\ pos[w] + 1 = Size[doc[w]]       \* closed
        /\ writerAt' = [writerAt EXCEPT ![w] = "rename"]
        /\ fd' = [fd EXCEPT ![w] = NoFile]
  /\ UNCHANGED <<path, tmp, doc, lone, met, reading>>

\* w is at work no more.
Over(w) ==
  /\ writerAt' = [writerAt EXCEPT ![w] = "idle"]
  /\ doc' = [doc EXCEPT ![w] = NoDoc]
  /\ pos' = [pos EXCEPT ![w] = 0]
  /\ lone' = lone \ {w}

\* os.Rename: whatever the temporary name holds now becomes the file.
Rename(w) ==
  /\ writerAt[w] = "rename"
  /\ \/ /\ tmp # NoFile
        /\ path' = tmp
        /\ tmp' = NoFile
     \/ /\ tmp = NoFile              \* an error
        /\ UNCHANGED <<path, tmp>>
  /\ Over(w)
  /\ UNCHANGED <<fd, met, reading>>
  /\ Reclaim

\* Mutant of Stop: an error of the write is not looked at.
StopUnseen(w) ==
  /\ writerAt[w] # "idle"
  /\ writerAt' = [writerAt EXCEPT ![w] = "rename"]
  /\ fd' = [fd EXCEPT ![w] = NoFile]
  /\ UNCHANGED <<disk, path, tmp, doc, pos, lone, met, reading>>

\* Killed, or an error of the write; the temporary file stays behind.
Stop(w) ==
  /\ writerAt[w] # "idle"
  /\ Over(w)
  /\ fd' = [fd EXCEPT ![w] = NoFile]
  /\ UNCHANGED <<path, tmp, met, reading>>
  /\ Reclaim

\* LoadConfig opens the file there is, and reads it block by block.
OpenRead(r) ==
  /\ from[r] = NoFile /\ path # NoFile
  /\ from' = [from EXCEPT ![r] = path]
  /\ got' = [got EXCEPT ![r] = <<>>]
  /\ UNCHANGED <<disk, path, tmp, writing>>

Left(r) == Len(disk[from[r]]) - Len(got[r])

ReadBlock(r) ==
  /\ from[r] # NoFile /\ Left(r) > 0
  /\ got' = [got EXCEPT ![r] = Append(@, disk[from[r]][Len(@) + 1])]
  /\ UNCHANGED <<disk, path, tmp, writing, from>>

ReadEnd(r) ==
  /\ from[r] # NoFile /\ Left(r) <= 0
  /\ from' = [from EXCEPT ![r] = NoFile]
  /\ UNCHANGED <<path, tmp, writing, got>>
  /\ Reclaim

FileNext ==
  \/ \E w \in Writers : Open(w) \/ WriteBlock(w) \/ Rename(w) \/ Stop(w)
  \/ \E r \in Readers : OpenRead(r) \/ ReadBlock(r) \/ ReadEnd(r)

FileSpec == FileInit /\ [][FileNext]_fileVars

-----------------------------------------------------------------------------
Whole(d) == [k \in 1..Size[d] |-> d]

Contents == UNION { [1..n -> Docs \cup {Hole}] : n \in 0..MaxSize }

FileTypeOK ==
  /\ disk \in [Inodes -> Contents]
  /\ path \in Inodes \cup {NoFile}
  /\ tmp \in Inodes \cup {NoFile}
  /\ writerAt \in [Writers -> {"idle", "write", "rename"}]
  /\ fd \in [Writers -> Inodes \cup {NoFile}]
  /\ doc \in [Writers -> Docs \cup {NoDoc}]
  /\ pos \in [Writers -> 0..MaxSize]
  /\ lone \subseteq Writers
  /\ met \in BOOLEAN
  /\ from \in [Readers -> Inodes \cup {NoFile}]
  /\ got \in [Readers -> Contents]

(* The file is one whole document, wherever writers were stopped           *)
(* (config.go writePrivate, "replacing the file atomically").              *)
FileWhole == path # NoFile => \E d \in Docs : disk[path] = Whole(d)

(* As long as no two writers were at work at a time, the file is whole     *)
(* through every replacement, wherever each was stopped.                   *)
FileWholeApart == ~met => FileWhole

(* And a reader gets one whole document, however often the file was        *)
(* replaced while it read (config.go writePrivate and LoadConfig).         *)
ReadsWhole ==
  ~met => \A r \in Readers : from[r] = NoFile /\ got[r] # <<>> =>
            \E d \in Docs : got[r] = Whole(d)

(* A writer that met no other puts down its own document and nothing else, *)
(* though killed processes leave their half of the temporary file behind   *)
(* (config.go writePrivate).                                               *)
LoneWriteLands ==
  [][\A w \in lone : Rename(w) =>
       path' # NoFile /\ disk'[path'] = Whole(doc[w])]_fileVars

(* Wherever writers that do not overlap are stopped, the file is whole and *)
(* every reader got a whole document (config.go writePrivate, LoadConfig). *)
WholeDocuments == FileWholeApart /\ ReadsWhole

-----------------------------------------------------------------------------
(* The inductive invariant behind the theorems of FilesProofs. *)

\* The two names are two files, and a writer has one open while it writes.
NamesInv ==
  /\ path = NoFile \/ path # tmp
  /\ \A w \in Writers :
       /\ fd[w] # NoFile <=> writerAt[w] = "write"
       /\ writerAt[w] # "idle" => doc[w] \in Docs
       /\ writerAt[w] = "write" => pos[w] < Size[doc[w]]

\* A lone writer is the one at work, and the temporary file is as far as it is.
LoneInv ==
  \A w \in lone :
    /\ writerAt[w] # "idle"
    /\ \A v \in Writers \ {w} : writerAt[v] = "idle"
    /\ tmp # NoFile
    /\ writerAt[w] = "write" =>
         fd[w] = tmp /\ disk[tmp] = [k \in 1..pos[w] |-> doc[w]]
    /\ writerAt[w] = "rename" => disk[tmp] = Whole(doc[w])

\* A reader is never at the temporary file, and what it has read is the
\* beginning of a whole document.
ReadInv ==
  \A r \in Readers :
    /\ from[r] # NoFile => from[r] # tmp
    /\ ~met /\ from[r] # NoFile =>
         \E d \in Docs :
           /\ disk[from[r]] = Whole(d)
           /\ \E n \in 0..Size[d] : got[r] = [k \in 1..n |-> d]

FilesInv ==
  /\ FileTypeOK /\ NamesInv /\ LoneInv /\ ReadInv
  /\ ~met => \A w \in Writers : writerAt[w] # "idle" => w \in lone
  /\ WholeDocuments

=============================================================================
