----------------------------- MODULE BundleOpen -----------------------------
(***************************************************************************)
(* Opening a bundle that is an archive: core/bundle's Open and ImportTar,   *)
(* which extract it into a temporary directory, entry after entry within    *)
(* three limits, then load its documents; and Close.  The archive came on   *)
(* removable media: it may be cut short or made by another tool.            *)
(*                                                                         *)
(* A name is the sequence of its components; "odd" ones have a backslash, a *)
(* NUL, a drive letter or are too long.  A content is its size.             *)
(***************************************************************************)
EXTENDS Integers, Sequences, SequencesExt

CONSTANTS
    Archives,    \* sequences of entries [name, odd, abs, kind, size]
    Folded,      \* Folded[p]: the component a case-folding file system sees for p
    MaxEntries,  \* maxImportEntries
    MaxEntry,    \* maxImportEntrySize
    MaxTotal     \* maxImportTotalSize

\* The limits are whole numbers of bytes, and so is a size: the tar reader
\* refuses a negative one.
ASSUME OpenAssumption ==
    /\ MaxEntry \in Nat /\ MaxTotal \in Nat
    /\ \A a \in Archives : Len(a) \in Nat /\ DOMAIN a = 1 .. Len(a) /\ \A i \in DOMAIN a : a[i].size \in Nat

VARIABLES
    archive,  \* what is opened; fixed
    imp       \* the call: pc, next entry, allowance left, paths seen, the directory

ovars == <<archive, imp>>

NoDirectory == [there |-> FALSE, files |-> <<>>, dirs |-> {}]
NewDirectory == [there |-> TRUE, files |-> <<>>, dirs |-> {<<>>}]

\* path.Clean on components.
CleanPart(path, p) ==
    CASE p = "." -> path
      [] p = ".." /\ path # <<>> /\ Last(path) # ".." -> Front(path)
      [] OTHER -> Append(path, p)
Clean(name) == FoldLeft(CleanPart, <<>>, name)

SafeRelPath(e) ==
    /\ e.name # <<>> /\ ~e.odd /\ ~e.abs
    /\ Clean(e.name) # <<>> /\ Head(Clean(e.name)) # ".."
CollisionKey(path) == [i \in DOMAIN path |-> Folded[path[i]]]

Above(path) == {SubSeq(path, 1, i) : i \in 0 .. Len(path) - 1}

\* os.MkdirAll: a file in the way is an error.
CanMkdirAll(d, path) == (Above(path) \cup {path}) \cap DOMAIN d.files = {}
MkdirAll(d, path) == [d EXCEPT !.dirs = @ \cup Above(path) \cup {path}]
WithFile(d, path, size) ==
    [MkdirAll(d, Front(path)) EXCEPT !.files = [p \in DOMAIN @ \cup {path} |-> IF p = path THEN size ELSE @[p]]]

-----------------------------------------------------------------------------
OpenInit ==
    /\ archive \in Archives
    /\ imp = [pc |-> "stat", at |-> 1, left |-> MaxTotal, seen |-> {}, dir |-> NoDirectory, leaked |-> FALSE]

\* RemoveAll is best effort.
Removed(s) == {[s EXCEPT !.dir = NoDirectory], [s EXCEPT !.leaked = TRUE]}
Fails == imp' \in Removed([imp EXCEPT !.pc = "failed"]) /\ UNCHANGED archive

MkdirTemp ==
    /\ imp.pc = "stat"
    /\ imp' \in {[imp EXCEPT !.pc = "failed"], [imp EXCEPT !.pc = "import", !.dir = NewDirectory]}
    /\ UNCHANGED archive

\* Between two entries: the call is cancelled, or the stream does not read.
StopImport == imp.pc = "import" /\ Fails

ThisEntry == archive[imp.at]
HasEntry == imp.pc = "import" /\ imp.at <= Len(archive)
EntryRefused ==
    \/ imp.at > MaxEntries
    \/ ~SafeRelPath(ThisEntry)
    \/ CollisionKey(Clean(ThisEntry.name)) \in imp.seen
    \/ ThisEntry.kind \notin {"dir", "reg"}
RefuseEntry == HasEntry /\ EntryRefused /\ Fails

AcceptEntry(dir, left) ==
    /\ imp' = [imp EXCEPT !.pc = "import", !.at = @ + 1, !.seen = @ \cup {CollisionKey(Clean(ThisEntry.name))}, !.dir = dir, !.left = left]
    /\ UNCHANGED archive

ImportDirectory ==
    /\ HasEntry /\ ~EntryRefused /\ ThisEntry.kind = "dir"
    /\ \/ CanMkdirAll(imp.dir, Clean(ThisEntry.name)) /\ AcceptEntry(MkdirAll(imp.dir, Clean(ThisEntry.name)), imp.left)
       \/ Fails

\* How much an entry may write: its own limit or what is left of the archive's.
Allowance == IF imp.left < MaxEntry THEN imp.left ELSE MaxEntry

\* Mutant of Written: the reader stops at the allowance, and looks complete.
WrittenCut(size) == IF size > Allowance THEN Allowance ELSE size
\* What extractRegularFile writes; one more than the allowance is too much.
Written(size) == IF size > Allowance THEN Allowance + 1 ELSE size

\* The file is made and truncated, then copied into for as long as the archive
\* has bytes, up to one more than the allowance.
PathHere == Clean(ThisEntry.name)
CreateFile ==
    /\ HasEntry /\ ~EntryRefused /\ ThisEntry.kind = "reg"
    /\ \/ /\ CanMkdirAll(imp.dir, Front(PathHere)) /\ PathHere \notin imp.dir.dirs
          /\ imp' = [imp EXCEPT !.pc = "writing", !.dir = WithFile(imp.dir, PathHere, 0)] /\ UNCHANGED archive
       \/ Fails

OnDiskHere == imp.dir.files[PathHere]
CopyFile ==
    /\ imp.pc = "writing"
    /\ \E n \in OnDiskHere + 1 .. Written(ThisEntry.size) :
        imp' = [imp EXCEPT !.dir = WithFile(imp.dir, PathHere, n)] /\ UNCHANGED archive

\* A disk that is full, a stream cut short or an entry too large: what was
\* written so far is in the directory the call then removes.
ExtractFails == imp.pc = "writing" /\ Fails

ExtractRegularFile ==
    /\ imp.pc = "writing" /\ OnDiskHere = Written(ThisEntry.size) /\ OnDiskHere <= Allowance
    /\ AcceptEntry(imp.dir, imp.left - OnDiskHere)

ImportDone ==
    /\ imp.pc = "import" /\ imp.at > Len(archive)
    /\ imp' = [imp EXCEPT !.pc = "lock"] /\ UNCHANGED archive

\* lock.Load, loadSnapshotJSON, manifest.Load and LoadSignature, in turn.
Loads == <<"lock", "snapshot", "manifest", "signature", "opened">>
LoadDocument ==
    /\ \E i \in 1 .. 4 : imp.pc = Loads[i] /\ imp' = [imp EXCEPT !.pc = Loads[i + 1]]
    /\ UNCHANGED archive
LoadFails == imp.pc \in {Loads[i] : i \in 1 .. 4} /\ Fails

CloseBundle ==
    /\ imp.pc = "opened"
    /\ imp' \in Removed([imp EXCEPT !.pc = "closed"]) /\ UNCHANGED archive

OpenNext ==
    \/ MkdirTemp \/ StopImport \/ RefuseEntry \/ ImportDirectory
    \/ CreateFile \/ CopyFile \/ ExtractFails \/ ExtractRegularFile \/ ImportDone \/ LoadDocument \/ LoadFails \/ CloseBundle

OpenSpec == OpenInit /\ [][OpenNext]_ovars

-----------------------------------------------------------------------------
\* How much the files take up together.
OnDisk(files) == FoldSet(LAMBDA p, sum : sum + files[p], 0, DOMAIN files)

\* What came out of Open is the archive or nothing.  While a bundle is open its
\* directory holds exactly the archive's files, each whole and under its own
\* name, however the limits fell; once Open failed or the bundle was closed the
\* directory is gone, unless the system refused to remove it; and what one
\* archive can put on the disk never passes the limit for a whole archive, but
\* for the one byte by which an entry that is refused shows that it is too large.
OpenIsAllOrNothing ==
    LET regular == {i \in DOMAIN archive : archive[i].kind = "reg"}
    IN /\ imp.pc \in {"lock", "snapshot", "manifest", "signature", "opened"} =>
            /\ DOMAIN imp.dir.files = {Clean(archive[i].name) : i \in regular}
            /\ \A i \in regular : imp.dir.files[Clean(archive[i].name)] = archive[i].size
       /\ imp.pc \in {"failed", "closed"} => imp.dir = NoDirectory \/ imp.leaked
       /\ OnDisk(imp.dir.files) <= MaxTotal + (IF imp.pc \in {"writing", "failed"} THEN 1 ELSE 0)
=============================================================================
