----------------------------- MODULE ObjectStore -----------------------------
(***************************************************************************)
(* The objects of the content-addressed store (core/store/fsstore.go) and   *)
(* the builds that put files in and take them out: PutFile with its copying *)
(* and its moving path, Put, Materialise, the ingest of a local .deb        *)
(* (core/fetch/local.go) and of a staged one, and the placing of a package  *)
(* in a bundle's pool (core/bundle/assemble.go).                            *)
(*                                                                         *)
(* SHA-256 is taken to be injective, so a digest is the content it belongs  *)
(* to.  Processes share nothing but the file system.  Meanwhile users edit  *)
(* their own files, bundle files get edited in place (which reaches the     *)
(* object itself through a hard link), processes are killed and the power   *)
(* fails.                                                                   *)
(***************************************************************************)
EXTENDS Naturals, FiniteSets

CONSTANTS Procs,        \* the processes sharing one store
          Contents,     \* what a file may contain, and so the digests
          Sources,      \* .debs of the user's, ingested where they are
          Dests,        \* paths in the pools of bundles
          None,
          MaxFaults     \* bound: edits in place and power failures

ASSUME ConstantsAssumption == None \notin Contents /\ MaxFaults \in Nat

VARIABLES
    obj,        \* the file at each digest's address
    dest,       \* the file at each pool path that is not a link to an object
    link,       \* the digest whose object a pool path is a hard link to
    src,        \* the content of each user's file
    stg,        \* each process's staged download (apt's archives, fetch's temp)
    tmp,        \* each process's file in the store's staging directory
    pc, op,     \* where each process is, and the call it is carrying out
    hash,       \* the digest it has computed
    answer,     \* the digest its last call returned, or None
    faults

vars == <<obj, dest, link, src, stg, tmp, pc, op, hash, answer, faults>>
fileVars == <<obj, dest, link, src>>
-----------------------------------------------------------------------------
\* A file, whether it was fsync'd, and what befell it since it was written.
Files == [content : Contents, synced : BOOLEAN, hurt : {"no", "edited", "lost"}]
NoFile == [content |-> None]
New(c, synced) == [content |-> c, synced |-> synced, hurt |-> "no"]

Ops == [kind : {"local"}, source : Sources, want : Contents \cup {None}]
         \cup [kind : {"staged"}]
         \cup [kind : {"place"}, digest : Contents, dest : Dests]
NoOp == [kind |-> "none"]

PCs == {"idle", "precheck", "dedup", "dedupCheck", "stage", "rehash", "publishMoved",
        "copy", "sync", "publish", "look", "checkObject", "unlink", "link", "verify",
        "recheck"}

Has(c) == obj[c] # NoFile
InPool(d) == IF link[d] # None THEN obj[link[d]] ELSE dest[d]

\* The file that a process is ingesting.
Source(p) == IF op[p].kind = "local" THEN src[op[p].source] ELSE stg[p].content

Init ==
    /\ obj = [c \in Contents |-> NoFile]
    /\ dest = [d \in Dests |-> NoFile]
    /\ link = [d \in Dests |-> None]
    /\ src \in [Sources -> Contents]
    /\ stg = [p \in Procs |-> NoFile]
    /\ tmp = [p \in Procs |-> NoFile]
    /\ pc = [p \in Procs |-> "idle"]
    /\ op = [p \in Procs |-> NoOp]
    /\ hash = [p \in Procs |-> None]
    /\ answer = [p \in Procs |-> None]
    /\ faults = 0

Goto(p, next) == pc' = [pc EXCEPT ![p] = next]

Begin(p, o, file, next) ==
    /\ pc[p] = "idle"
    /\ op' = [op EXCEPT ![p] = o]
    /\ stg' = [stg EXCEPT ![p] = file]
    /\ answer' = [answer EXCEPT ![p] = None]
    /\ Goto(p, next)
    /\ UNCHANGED <<fileVars, tmp, hash, faults>>

\* The call returns a digest, or None with an error.  Temporary files are
\* removed by the deferred calls.
Return(p, result) ==
    /\ pc' = [pc EXCEPT ![p] = "idle"]
    /\ op' = [op EXCEPT ![p] = NoOp]
    /\ tmp' = [tmp EXCEPT ![p] = NoFile]
    /\ hash' = [hash EXCEPT ![p] = None]
    /\ answer' = [answer EXCEPT ![p] = result]

\* PutFile is done.  fromLocalFile compares what it returned with the digest
\* the user stated: the file may have changed since it was checked.
Ingested(p, result) ==
    Return(p, IF op[p].kind = "local" /\ op[p].want \notin {None, result}
              THEN None ELSE result)

Fails(p) == Return(p, None)
-----------------------------------------------------------------------------
(* Ingest. *)

\* fromLocalFile: a file of the user's, copied in, with or without a digest.
StartLocal(p, s, want) ==
    Begin(p, [kind |-> "local", source |-> s, want |-> want], NoFile,
          IF want = None THEN "dedup" ELSE "precheck")

\* ingestPlan and the fetcher hand over a file of their own, which may be moved.
StartStaged(p, c) == Begin(p, [kind |-> "staged"], New(c, FALSE), "stage")

\* The stated digest is checked before anything is stored; reading the file may
\* fail, here and wherever one is read below.
PreCheck(p) ==
    /\ pc[p] = "precheck"
    /\ \/ /\ Source(p) = op[p].want
          /\ Goto(p, "dedup")
          /\ UNCHANGED <<op, tmp, hash, answer>>
       \/ Fails(p)
    /\ UNCHANGED <<fileVars, stg, faults>>

\* putByDedup hashes the source ...
Dedup(p) ==
    /\ pc[p] = "dedup"
    /\ \/ /\ hash' = [hash EXCEPT ![p] = Source(p)]
          /\ Goto(p, IF Has(Source(p)) THEN "dedupCheck" ELSE "copy")
       \/ Goto(p, "copy") /\ UNCHANGED hash
    /\ UNCHANGED <<fileVars, stg, tmp, op, answer, faults>>

\* ... and believes in an object at that address only after reading it.
DedupCheck(p) ==
    /\ pc[p] = "dedupCheck"
    /\ \/ obj[hash[p]].content = hash[p] /\ Ingested(p, hash[p])
       \/ Goto(p, "copy") /\ UNCHANGED <<op, tmp, hash, answer>>
    /\ UNCHANGED <<fileVars, stg, faults>>

\* putByMove renames the source into the staging directory first.  If it cannot
\* be renamed there (another file system), PutFile copies.
Stage(p) ==
    /\ pc[p] = "stage"
    /\ \/ /\ tmp' = [tmp EXCEPT ![p] = stg[p]]
          /\ stg' = [stg EXCEPT ![p] = NoFile]
          /\ Goto(p, "rehash")
       \/ Goto(p, "copy") /\ UNCHANGED <<tmp, stg>>
    /\ UNCHANGED <<fileVars, op, hash, answer, faults>>

\* It hashes the file under the name only this call knows.
Rehash(p) ==
    /\ pc[p] = "rehash"
    /\ hash' = [hash EXCEPT ![p] = tmp[p].content]
    /\ Goto(p, "publishMoved")
    /\ UNCHANGED <<fileVars, stg, tmp, op, answer, faults>>

\* A file is renamed over an address; the old object lives on under the pool
\* paths linked to it.
Rename(file, c) ==
    /\ obj' = [obj EXCEPT ![c] = file]
    /\ dest' = [d \in Dests |-> IF link[d] = c THEN obj[c] ELSE dest[d]]
    /\ link' = [d \in Dests |-> IF link[d] = c THEN None ELSE link[d]]
    /\ UNCHANGED src

PublishMoved(p) ==
    /\ pc[p] = "publishMoved"
    /\ Rename(tmp[p], hash[p])
    /\ Return(p, hash[p])
    /\ UNCHANGED <<stg, faults>>

\* Hashing or renaming fails: restore puts the source back, or drops it if
\* that fails too.
Restore(p) ==
    /\ pc[p] \in {"rehash", "publishMoved"}
    /\ \/ stg' = [stg EXCEPT ![p] = tmp[p]]
       \/ UNCHANGED stg
    /\ Fails(p)
    /\ UNCHANGED <<fileVars, faults>>

\* Mutant of Copy: the digest is the one computed before the copy was made.
CopyHashedEarlier(p) ==
    /\ pc[p] = "copy"
    /\ tmp' = [tmp EXCEPT ![p] = New(Source(p), FALSE)]
    /\ hash' = [hash EXCEPT ![p] = IF hash[p] # None THEN hash[p] ELSE Source(p)]
    /\ Goto(p, "sync")
    /\ UNCHANGED <<fileVars, stg, op, answer, faults>>

\* Put hashes what it writes, as it writes it.
Copy(p) ==
    /\ pc[p] = "copy"
    /\ tmp' = [tmp EXCEPT ![p] = New(Source(p), FALSE)]
    /\ hash' = [hash EXCEPT ![p] = Source(p)]
    /\ Goto(p, "sync")
    /\ UNCHANGED <<fileVars, stg, op, answer, faults>>

Sync(p) ==
    /\ pc[p] = "sync"
    /\ tmp' = [tmp EXCEPT ![p].synced = TRUE]
    /\ Goto(p, "publish")
    /\ UNCHANGED <<fileVars, stg, op, hash, answer, faults>>

\* The rename; or it fails and the object is there all the same, which counts
\* as success.  PutFile then removes a source it was allowed to move, or not,
\* if that fails.
Publish(p) ==
    /\ pc[p] = "publish"
    /\ \/ Rename(tmp[p], hash[p])
       \/ Has(hash[p]) /\ UNCHANGED fileVars
    /\ \/ stg' = [stg EXCEPT ![p] = NoFile]
       \/ UNCHANGED stg
    /\ Ingested(p, hash[p])
    /\ UNCHANGED faults

\* Staging, opening, writing, syncing or publishing fails.
PutFails(p) ==
    /\ pc[p] \in {"stage", "copy", "sync", "publish"}
    /\ Fails(p)
    /\ UNCHANGED <<fileVars, stg, faults>>
-----------------------------------------------------------------------------
(* materialiseSelections, for one selection whose digest is known. *)

StartPlace(p, c, d) ==
    Begin(p, [kind |-> "place", digest |-> c, dest |-> d], NoFile, "look")

\* fileDigestMatches: what an earlier build placed stays.
Look(p) ==
    /\ pc[p] = "look"
    /\ \/ InPool(op[p].dest).content = op[p].digest /\ Return(p, op[p].digest)
       \/ Goto(p, "checkObject") /\ UNCHANGED <<op, tmp, hash, answer>>
    /\ UNCHANGED <<fileVars, stg, faults>>

\* ensureInStore: verifyStoreObject reads the object; an absent one fails too.
CheckObject(p) ==
    /\ pc[p] = "checkObject"
    /\ \/ /\ obj[op[p].digest].content = op[p].digest
          /\ Goto(p, "unlink")
          /\ UNCHANGED <<op, tmp, hash, answer>>
       \/ Fails(p)
    /\ UNCHANGED <<fileVars, stg, faults>>

SetPool(d, file, to) ==
    /\ dest' = [dest EXCEPT ![d] = file]
    /\ link' = [link EXCEPT ![d] = to]
    /\ UNCHANGED <<obj, src>>

\* Materialise clears the destination, or fails to, which it ignores ...
Unlink(p) ==
    /\ pc[p] = "unlink"
    /\ \/ /\ SetPool(op[p].dest, NoFile, None) \/ UNCHANGED fileVars
          /\ Goto(p, "link")
          /\ UNCHANGED <<op, tmp, hash, answer>>
       \/ Fails(p) /\ UNCHANGED fileVars
    /\ UNCHANGED <<stg, faults>>

\* ... links the object there, or copies it if that fails, or fails in both ...
LinkOrCopy(p) ==
    /\ pc[p] = "link"
    /\ \/ /\ Has(op[p].digest)
          /\ \/ InPool(op[p].dest) = NoFile /\ SetPool(op[p].dest, NoFile, op[p].digest)
             \/ SetPool(op[p].dest, New(obj[op[p].digest].content, TRUE), None)
          /\ Goto(p, "verify")
          /\ UNCHANGED <<op, tmp, hash, answer>>
       \/ Fails(p) /\ UNCHANGED fileVars
    /\ UNCHANGED <<stg, faults>>

\* ... and reads what landed there; a wrong file is removed again, if it can be.
Verify(p) ==
    /\ pc[p] = "verify"
    /\ \/ /\ InPool(op[p].dest).content = op[p].digest
          /\ Goto(p, "recheck")
          /\ UNCHANGED <<fileVars, op, tmp, hash, answer>>
       \/ /\ Fails(p)
          /\ SetPool(op[p].dest, NoFile, None) \/ UNCHANGED fileVars
    /\ UNCHANGED <<stg, faults>>

\* Mutant of Recheck: Materialise has read the file, which is enough.
RecheckNothing(p) ==
    /\ pc[p] = "recheck"
    /\ Return(p, op[p].digest)
    /\ UNCHANGED <<fileVars, stg, faults>>

\* materialiseSelections reads it once more, and leaves it where it is.
Recheck(p) ==
    /\ pc[p] = "recheck"
    /\ \/ InPool(op[p].dest).content = op[p].digest /\ Return(p, op[p].digest)
       \/ Fails(p)
    /\ UNCHANGED <<fileVars, stg, faults>>
-----------------------------------------------------------------------------
(* The environment. *)

Fault == faults < MaxFaults /\ faults' = faults + 1

\* A user replaces or edits a .deb of theirs.
EditSource(s, c) ==
    /\ Fault
    /\ src' = [src EXCEPT ![s] = c]
    /\ UNCHANGED <<obj, dest, link, stg, tmp, pc, op, hash, answer>>

Edited(f, c) == [f EXCEPT !.content = c, !.hurt = "edited"]

\* A pool file is written in place: if it is a link, so is the object.
EditPool(d, c) ==
    /\ Fault
    /\ InPool(d) # NoFile
    /\ IF link[d] # None
       THEN obj' = [obj EXCEPT ![link[d]] = Edited(@, c)] /\ UNCHANGED dest
       ELSE dest' = [dest EXCEPT ![d] = Edited(@, c)] /\ UNCHANGED obj
    /\ UNCHANGED <<link, src, stg, tmp, pc, op, hash, answer>>

\* `debark store gc' removes an object; not while a build runs.
Collect(c) ==
    /\ \A p \in Procs : pc[p] = "idle"
    /\ Has(c)
    /\ Rename(NoFile, c)
    /\ UNCHANGED <<stg, tmp, pc, op, hash, answer, faults>>

\* A process is killed.  Its temporary file stays behind under a name that no
\* call ever uses again.
Kill(p) ==
    /\ pc[p] # "idle"
    /\ Fails(p)
    /\ stg' = [stg EXCEPT ![p] = NoFile]
    /\ UNCHANGED <<fileVars, faults>>

\* The power fails: what was not fsync'd may have lost its data, even where
\* the rename that published it survived.
Survives(f, lost, c) ==
    IF f # NoFile /\ ~f.synced
    THEN IF lost /\ f.content # c
         THEN [content |-> c, synced |-> TRUE, hurt |-> "lost"]
         ELSE [f EXCEPT !.synced = TRUE]
    ELSE f

PowerFailure(lost, c) ==
    /\ Fault
    /\ obj' = [a \in Contents |-> Survives(obj[a], a \in lost, c)]
    /\ dest' = [d \in Dests |-> Survives(dest[d], d \in lost, c)]
    /\ stg' = [p \in Procs |-> NoFile]
    /\ tmp' = [p \in Procs |-> NoFile]
    /\ pc' = [p \in Procs |-> "idle"]
    /\ op' = [p \in Procs |-> NoOp]
    /\ hash' = [p \in Procs |-> None]
    /\ answer' = [p \in Procs |-> None]
    /\ UNCHANGED <<link, src>>

Step(p) ==
    \/ PreCheck(p) \/ Dedup(p) \/ DedupCheck(p) \/ Stage(p) \/ Rehash(p) \/ PublishMoved(p)
    \/ Restore(p) \/ Copy(p) \/ Sync(p) \/ Publish(p) \/ PutFails(p)
    \/ Look(p) \/ CheckObject(p) \/ Unlink(p) \/ LinkOrCopy(p) \/ Verify(p) \/ Recheck(p)
    \/ Kill(p)

Start(p) ==
    \/ \E s \in Sources, want \in Contents \cup {None} : StartLocal(p, s, want)
    \/ \E c \in Contents : StartStaged(p, c)
    \/ \E c \in Contents, d \in Dests : StartPlace(p, c, d)

Environment ==
    \/ \E s \in Sources, c \in Contents : EditSource(s, c)
    \/ \E d \in Dests, c \in Contents : EditPool(d, c)
    \/ \E c \in Contents : Collect(c)
    \/ \E lost \in SUBSET (Contents \cup Dests), c \in Contents : PowerFailure(lost, c)

Next == (\E p \in Procs : Start(p) \/ Step(p)) \/ Environment

Spec == Init /\ [][Next]_vars
-----------------------------------------------------------------------------
TypeOK ==
    /\ obj \in [Contents -> Files \cup {NoFile}]
    /\ dest \in [Dests -> Files \cup {NoFile}]
    /\ link \in [Dests -> Contents \cup {None}]
    /\ src \in [Sources -> Contents]
    /\ stg \in [Procs -> Files \cup {NoFile}]
    /\ tmp \in [Procs -> Files \cup {NoFile}]
    /\ pc \in [Procs -> PCs]
    /\ op \in [Procs -> Ops \cup {NoOp}]
    /\ hash \in [Procs -> Contents \cup {None}]
    /\ answer \in [Procs -> Contents \cup {None}]
    /\ faults \in 0 .. MaxFaults

\* PutFile never publishes bytes it has not itself hashed: whatever changes
\* under its hands and wherever it is killed, an object that nobody edited
\* through a bundle and no power failure hit is what its address says.
ObjectsAreIntact ==
    \A c \in Contents : Has(c) /\ obj[c].hurt = "no" => obj[c].content = c

\* A caller that names a digest gets that digest or an error: a .deb stated with
\* one is accepted as nothing else, even if the file changes between the check
\* and the copy, and a package is said to be in the pool only if the file there
\* has the content asked for, even if the object was edited after its check.
AskedIsGiven ==
    [][\A p \in Procs : pc'[p] = "idle" =>
          /\ op[p].kind = "local" /\ op[p].want # None => answer'[p] \in {op[p].want, None}
          /\ op[p].kind = "place" /\ answer'[p] # None
                => \E d \in Dests : d = op[p].dest /\ InPool(d)'.content = op[p].digest]_vars
=============================================================================
