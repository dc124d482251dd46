-------------------------- MODULE ObjectStoreProofs --------------------------
(* What holds of the objects in the store for any number of processes,       *)
(* contents, files, edits, kills and power failures.                         *)
EXTENDS ObjectStore, TLAPS

\* What a process needs to know at each point of a call.
OpInv ==
    \A p \in Procs :
        /\ pc[p] \in {"precheck", "dedup", "dedupCheck"} => op[p].kind = "local"
        /\ pc[p] = "precheck" => op[p].want \in Contents
        /\ pc[p] \in {"stage", "rehash", "publishMoved"} => op[p].kind = "staged"
        /\ pc[p] \in {"copy", "sync", "publish"} => op[p].kind \in {"local", "staged"}
        /\ pc[p] \in {"look", "checkObject", "unlink", "link", "verify", "recheck"}
              => op[p].kind = "place"
        /\ pc[p] = "stage" \/ (pc[p] = "copy" /\ op[p].kind = "staged") => stg[p] \in Files

\* The file a process is about to publish is the one it hashed, and nothing
\* outside reaches it.
StagingInv ==
    \A p \in Procs :
        /\ pc[p] = "dedupCheck" => hash[p] \in Contents
        /\ pc[p] \in {"rehash", "publishMoved", "sync", "publish"}
              => tmp[p] \in Files /\ tmp[p].hurt = "no"
        /\ pc[p] \in {"publishMoved", "sync", "publish"} => hash[p] = tmp[p].content
        /\ stg[p] # NoFile => stg[p].hurt = "no"

\* A pool path that is a link is a link to something.
LinkInv == \A d \in Dests : link[d] # None => Has(link[d])

IInv == TypeOK /\ OpInv /\ StagingInv /\ LinkInv /\ ObjectsAreIntact

\* No file is a file of no content.
LEMMA NoFileNotFile == NoFile \notin Files
BY ConstantsAssumption DEF NoFile, Files

\* A file that is written is a file.
LEMMA NewType ==
    ASSUME NEW c \in Contents, NEW b \in BOOLEAN
    PROVE  New(c, b) \in Files /\ New(c, b).hurt = "no" /\ New(c, b).content = c
BY DEF New, Files

\* The store is empty at first.
LEMMA InitIInv == Init => IInv
<1> SUFFICES ASSUME Init PROVE IInv
  OBVIOUS
<1>1. TypeOK
  BY ConstantsAssumption DEF Init, TypeOK, PCs
<1>2. OpInv /\ StagingInv /\ LinkInv /\ ObjectsAreIntact
  BY DEF Init, OpInv, StagingInv, LinkInv, ObjectsAreIntact, Has
<1> QED BY <1>1, <1>2 DEF IInv

\* Returning to the caller forgets the call.
LEMMA ReturnKeeps ==
    ASSUME TypeOK, OpInv, StagingInv, NEW p \in Procs, NEW result \in Contents \cup {None},
           Return(p, result), stg' \in [Procs -> Files \cup {NoFile}],
           \A q \in Procs : stg'[q] # NoFile => stg'[q].hurt = "no",
           \A q \in Procs \ {p} : stg'[q] = stg[q]
    PROVE  /\ pc' \in [Procs -> PCs]
           /\ op' \in [Procs -> Ops \cup {NoOp}]
           /\ tmp' \in [Procs -> Files \cup {NoFile}]
           /\ hash' \in [Procs -> Contents \cup {None}]
           /\ answer' \in [Procs -> Contents \cup {None}]
           /\ OpInv'
           /\ StagingInv'
<1>1. /\ pc' \in [Procs -> PCs] /\ pc'[p] = "idle"
      /\ op' \in [Procs -> Ops \cup {NoOp}]
      /\ tmp' \in [Procs -> Files \cup {NoFile}]
      /\ hash' \in [Procs -> Contents \cup {None}]
      /\ answer' \in [Procs -> Contents \cup {None}]
  BY DEF Return, TypeOK, PCs
<1>2. \A q \in Procs \ {p} :
         pc'[q] = pc[q] /\ op'[q] = op[q] /\ tmp'[q] = tmp[q] /\ hash'[q] = hash[q]
  BY DEF Return, TypeOK
<1>3. OpInv'
  BY <1>1, <1>2 DEF OpInv
<1>4. StagingInv'
  BY <1>1, <1>2 DEF StagingInv
<1> QED BY <1>1, <1>3, <1>4

\* A file that is what its address says may be renamed there.
LEMMA RenameKeeps ==
    ASSUME TypeOK, LinkInv, ObjectsAreIntact, NEW c \in Contents,
           NEW f \in Files \cup {NoFile},
           f # NoFile => f.content = c, Rename(f, c)
    PROVE  /\ obj' \in [Contents -> Files \cup {NoFile}]
           /\ dest' \in [Dests -> Files \cup {NoFile}]
           /\ link' \in [Dests -> Contents \cup {None}]
           /\ LinkInv'
           /\ ObjectsAreIntact'
<1>1. /\ obj' \in [Contents -> Files \cup {NoFile}]
      /\ dest' \in [Dests -> Files \cup {NoFile}]
      /\ link' \in [Dests -> Contents \cup {None}]
  BY DEF Rename, TypeOK
<1>2. LinkInv'
  BY <1>1 DEF Rename, TypeOK, LinkInv, Has
<1>3. ObjectsAreIntact'
  BY <1>1 DEF Rename, TypeOK, ObjectsAreIntact, Has
<1> QED BY <1>1, <1>2, <1>3

\* Setting a pool path, to nothing, to a link or to a file of its own.
LEMMA SetPoolKeeps ==
    ASSUME TypeOK, LinkInv, ObjectsAreIntact, NEW d \in Dests,
           NEW f \in Files \cup {NoFile}, NEW to \in Contents \cup {None},
           to # None => Has(to), SetPool(d, f, to)
    PROVE  /\ obj' \in [Contents -> Files \cup {NoFile}]
           /\ dest' \in [Dests -> Files \cup {NoFile}]
           /\ link' \in [Dests -> Contents \cup {None}]
           /\ src' = src
           /\ LinkInv'
           /\ ObjectsAreIntact'
<1>1. /\ obj' \in [Contents -> Files \cup {NoFile}]
      /\ dest' \in [Dests -> Files \cup {NoFile}]
      /\ link' \in [Dests -> Contents \cup {None}]
      /\ src' = src
  BY DEF SetPool, TypeOK
<1>2. LinkInv'
  BY <1>1 DEF SetPool, TypeOK, LinkInv, Has
<1>3. ObjectsAreIntact'
  BY <1>1 DEF SetPool, TypeOK, ObjectsAreIntact, Has
<1> QED BY <1>1, <1>2, <1>3

\* Beginning a call, at the step its kind begins with.
LEMMA BeginKeeps ==
    ASSUME IInv, NEW p \in Procs, NEW o \in Ops, NEW f \in Files \cup {NoFile},
           NEW next \in PCs, Begin(p, o, f, next), f # NoFile => f.hurt = "no",
           \/ o.kind = "local" /\ next = "dedup"
           \/ o.kind = "local" /\ next = "precheck" /\ o.want \in Contents
           \/ o.kind = "staged" /\ next = "stage" /\ f \in Files
           \/ o.kind = "place" /\ next = "look"
    PROVE  IInv'
<1> USE DEF IInv
<1>1. TypeOK'
  BY ConstantsAssumption DEF Begin, Goto, fileVars, TypeOK
<1>2. OpInv'
  BY DEF Begin, Goto, OpInv, TypeOK
<1>3. StagingInv'
  BY DEF Begin, Goto, StagingInv, TypeOK
<1>4. LinkInv' /\ ObjectsAreIntact'
  BY DEF Begin, fileVars, LinkInv, ObjectsAreIntact, Has
<1> QED BY <1>1, <1>2, <1>3, <1>4

\* Whatever call it is.
LEMMA StartKeeps ==
    ASSUME IInv, NEW p \in Procs, Start(p)
    PROVE  IInv'
<1>1. ASSUME NEW s \in Sources, NEW want \in Contents \cup {None}, StartLocal(p, s, want)
      PROVE  IInv'
  <2> DEFINE o == [kind |-> "local", source |-> s, want |-> want]
             next == IF want = None THEN "dedup" ELSE "precheck"
  <2>1. o \in Ops /\ o.kind = "local" /\ o.want = want
    BY DEF Ops
  <2>2. next \in PCs /\ Begin(p, o, NoFile, next)
    BY <1>1 DEF PCs, StartLocal
  <2>3. next = "dedup" \/ (next = "precheck" /\ o.want \in Contents)
    BY <2>1
  <2> HIDE DEF o, next
  <2> QED BY <2>1, <2>2, <2>3, BeginKeeps
<1>2. ASSUME NEW c \in Contents, StartStaged(p, c)
      PROVE  IInv'
  <2> DEFINE o == [kind |-> "staged"]
  <2>1. o \in Ops /\ o.kind = "staged" /\ "stage" \in PCs
    BY DEF Ops, PCs
  <2>2. New(c, FALSE) \in Files /\ New(c, FALSE).hurt = "no"
    BY NewType
  <2>3. Begin(p, o, New(c, FALSE), "stage")
    BY <1>2 DEF StartStaged
  <2> HIDE DEF o
  <2> QED BY <2>1, <2>2, <2>3, BeginKeeps
<1>3. ASSUME NEW c \in Contents, NEW d \in Dests, StartPlace(p, c, d)
      PROVE  IInv'
  <2> DEFINE o == [kind |-> "place", digest |-> c, dest |-> d]
  <2>1. o \in Ops /\ o.kind = "place" /\ "look" \in PCs
    BY DEF Ops, PCs
  <2>2. Begin(p, o, NoFile, "look")
    BY <1>3 DEF StartPlace
  <2> HIDE DEF o
  <2> QED BY <2>1, <2>2, BeginKeeps
<1> QED BY <1>1, <1>2, <1>3 DEF Start

\* A call goes on to its next step, having touched only its own file and hash.
LEMMA GotoKeeps ==
    ASSUME IInv, NEW p \in Procs, NEW next \in PCs, Goto(p, next),
           UNCHANGED <<fileVars, op, answer, faults>>,
           stg' \in [Procs -> Files \cup {NoFile}],
           tmp' \in [Procs -> Files \cup {NoFile}],
           hash' \in [Procs -> Contents \cup {None}],
           \A q \in Procs \ {p} : tmp'[q] = tmp[q] /\ hash'[q] = hash[q] /\ stg'[q] = stg[q],
           \A q \in Procs : stg'[q] # NoFile => stg'[q].hurt = "no",
           next \in {"precheck", "dedup", "dedupCheck"} => op[p].kind = "local",
           next # "precheck", next # "stage",
           next \in {"rehash", "publishMoved"} => op[p].kind = "staged",
           next \in {"copy", "sync", "publish"} => op[p].kind \in {"local", "staged"},
           next \in {"look", "checkObject", "unlink", "link", "verify", "recheck"} => op[p].kind = "place",
           next = "copy" /\ op[p].kind = "staged" => stg'[p] \in Files,
           next = "dedupCheck" => hash'[p] \in Contents,
           next \in {"rehash", "publishMoved", "sync", "publish"}
              => tmp'[p] \in Files /\ tmp'[p].hurt = "no",
           next \in {"publishMoved", "sync", "publish"} => hash'[p] = tmp'[p].content
    PROVE  IInv'
<1> USE DEF IInv
<1>1. pc' \in [Procs -> PCs] /\ pc'[p] = next /\ \A q \in Procs \ {p} : pc'[q] = pc[q]
  BY DEF Goto, TypeOK
<1>2. TypeOK'
  BY <1>1 DEF TypeOK, fileVars
<1>3. OpInv'
  BY <1>1 DEF OpInv
<1>4. StagingInv'
  BY <1>1 DEF StagingInv
<1>5. LinkInv' /\ ObjectsAreIntact'
  BY DEF fileVars, LinkInv, ObjectsAreIntact, Has
<1> QED BY <1>2, <1>3, <1>4, <1>5

\* A call fails, or succeeds without having touched the store's files.
LEMMA QuietReturnKeeps ==
    ASSUME IInv, NEW p \in Procs, NEW result \in Contents \cup {None}, Return(p, result),
           UNCHANGED <<fileVars, faults>>,
           stg' \in [Procs -> Files \cup {NoFile}],
           \A q \in Procs : stg'[q] # NoFile => stg'[q].hurt = "no",
           \A q \in Procs \ {p} : stg'[q] = stg[q]
    PROVE  IInv'
<1> USE DEF IInv
<1>1. /\ pc' \in [Procs -> PCs]
      /\ op' \in [Procs -> Ops \cup {NoOp}]
      /\ tmp' \in [Procs -> Files \cup {NoFile}]
      /\ hash' \in [Procs -> Contents \cup {None}]
      /\ answer' \in [Procs -> Contents \cup {None}]
      /\ OpInv' /\ StagingInv'
  BY ReturnKeeps
<1>2. TypeOK'
  BY <1>1 DEF TypeOK, fileVars
<1>3. LinkInv' /\ ObjectsAreIntact'
  BY DEF fileVars, LinkInv, ObjectsAreIntact, Has
<1> QED BY <1>1, <1>2, <1>3

\* What is known of a call in progress.
LEMMA OpTypes ==
    ASSUME TypeOK, NEW p \in Procs
    PROVE  /\ op[p].kind = "local" => op[p] \in [kind : {"local"}, source : Sources,
                                                   want : Contents \cup {None}]
           /\ op[p].kind = "place" => op[p] \in [kind : {"place"}, digest : Contents,
                                                   dest : Dests]
BY DEF TypeOK, Ops, NoOp

\* What a call ingests is a content.
LEMMA SourceType ==
    ASSUME IInv, NEW p \in Procs, pc[p] \in {"precheck", "dedup", "copy"}
    PROVE  Source(p) \in Contents
<1>1. CASE op[p].kind = "local"
  BY <1>1, OpTypes DEF IInv, TypeOK, Source
<1>2. CASE op[p].kind = "staged"
  BY <1>2 DEF IInv, OpInv, Source, Files
<1> QED BY <1>1, <1>2 DEF IInv, OpInv

\* The ingest of a file, step by step.
LEMMA PutKeeps ==
    ASSUME IInv, NEW p \in Procs,
           \/ PreCheck(p) \/ Dedup(p) \/ DedupCheck(p) \/ Stage(p) \/ Rehash(p)
           \/ PublishMoved(p) \/ Restore(p) \/ Copy(p) \/ Sync(p) \/ Publish(p) \/ PutFails(p)
    PROVE  IInv'
<1>0. /\ stg \in [Procs -> Files \cup {NoFile}] /\ tmp \in [Procs -> Files \cup {NoFile}]
      /\ hash \in [Procs -> Contents \cup {None}]
      /\ \A q \in Procs : stg[q] # NoFile => stg[q].hurt = "no"
  BY DEF IInv, TypeOK, StagingInv
<1>1. CASE PreCheck(p)
  <2>1. op[p].kind = "local"
    BY <1>1 DEF PreCheck, IInv, OpInv
  <2>2. CASE Goto(p, "dedup") /\ UNCHANGED <<fileVars, stg, tmp, op, hash, answer, faults>>
    BY <1>0, <2>1, <2>2, GotoKeeps DEF PCs
  <2>3. CASE Return(p, None) /\ UNCHANGED <<fileVars, stg, faults>>
    BY <1>0, <2>3, QuietReturnKeeps
  <2> QED BY <1>1, <2>2, <2>3 DEF PreCheck, Fails
<1>2. CASE Dedup(p)
  <2>1. op[p].kind = "local" /\ Source(p) \in Contents
    BY <1>2, SourceType DEF Dedup, IInv, OpInv
  <2>2. CASE /\ hash' = [hash EXCEPT ![p] = Source(p)]
             /\ Goto(p, IF Has(Source(p)) THEN "dedupCheck" ELSE "copy")
             /\ UNCHANGED <<fileVars, stg, tmp, op, answer, faults>>
    <3>1. PICK next \in {"dedupCheck", "copy"} : Goto(p, next)
      BY <2>2
    <3>2. hash' \in [Procs -> Contents \cup {None}] /\ hash'[p] \in Contents
          /\ \A q \in Procs \ {p} : hash'[q] = hash[q]
      BY <1>0, <2>1, <2>2
    <3> QED BY <1>0, <2>1, <2>2, <3>1, <3>2, GotoKeeps DEF PCs
  <2>3. CASE Goto(p, "copy") /\ UNCHANGED <<fileVars, stg, tmp, op, hash, answer, faults>>
    BY <1>0, <2>1, <2>3, GotoKeeps DEF PCs
  <2> QED BY <1>2, <2>2, <2>3 DEF Dedup
<1>3. CASE DedupCheck(p)
  <2>1. op[p].kind = "local" /\ hash[p] \in Contents
    BY <1>3 DEF DedupCheck, IInv, OpInv, StagingInv
  <2>2. CASE Ingested(p, hash[p]) /\ UNCHANGED <<fileVars, stg, faults>>
    <3>1. PICK r \in Contents \cup {None} : Return(p, r)
      BY <2>1, <2>2 DEF Ingested
    <3> QED BY <1>0, <2>2, <3>1, QuietReturnKeeps
  <2>3. CASE Goto(p, "copy") /\ UNCHANGED <<fileVars, stg, tmp, op, hash, answer, faults>>
    BY <1>0, <2>1, <2>3, GotoKeeps DEF PCs
  <2> QED BY <1>3, <2>2, <2>3 DEF DedupCheck
<1>4. CASE Stage(p)
  <2>1. op[p].kind = "staged" /\ stg[p] \in Files /\ stg[p].hurt = "no"
    BY <1>0, <1>4, NoFileNotFile DEF Stage, IInv, OpInv
  <2>2. CASE /\ tmp' = [tmp EXCEPT ![p] = stg[p]]
             /\ stg' = [stg EXCEPT ![p] = NoFile]
             /\ Goto(p, "rehash")
             /\ UNCHANGED <<fileVars, op, hash, answer, faults>>
    <3>1. /\ tmp' \in [Procs -> Files \cup {NoFile}] /\ tmp'[p] = stg[p]
          /\ stg' \in [Procs -> Files \cup {NoFile}] /\ stg'[p] = NoFile
          /\ hash' \in [Procs -> Contents \cup {None}]
          /\ \A q \in Procs \ {p} : tmp'[q] = tmp[q] /\ stg'[q] = stg[q] /\ hash'[q] = hash[q]
      BY <1>0, <2>2
    <3>2. \A q \in Procs : stg'[q] # NoFile => stg'[q].hurt = "no"
      BY <1>0, <3>1
    <3> QED BY <2>1, <2>2, <3>1, <3>2, GotoKeeps DEF PCs
  <2>3. CASE Goto(p, "copy") /\ UNCHANGED <<fileVars, stg, tmp, op, hash, answer, faults>>
    BY <1>0, <2>1, <2>3, GotoKeeps DEF PCs
  <2> QED BY <1>4, <2>2, <2>3 DEF Stage
<1>5. CASE Rehash(p)
  <2>1. op[p].kind = "staged" /\ tmp[p] \in Files /\ tmp[p].hurt = "no"
    BY <1>5 DEF Rehash, IInv, OpInv, StagingInv
  <2>2. /\ hash' = [hash EXCEPT ![p] = tmp[p].content] /\ Goto(p, "publishMoved")
        /\ UNCHANGED <<fileVars, stg, tmp, op, answer, faults>>
    BY <1>5 DEF Rehash
  <2>3. hash' \in [Procs -> Contents \cup {None}] /\ hash'[p] = tmp[p].content
        /\ \A q \in Procs \ {p} : hash'[q] = hash[q]
    BY <1>0, <2>1, <2>2 DEF Files
  <2> QED BY <1>0, <2>1, <2>2, <2>3, GotoKeeps DEF PCs
<1>6. CASE PublishMoved(p) \/ (Publish(p) /\ Rename(tmp[p], hash[p]))
  <2>1. tmp[p] \in Files /\ tmp[p].content = hash[p] /\ hash[p] \in Contents
    BY <1>6 DEF PublishMoved, Publish, IInv, StagingInv, Files
  <2>2. Rename(tmp[p], hash[p]) /\ UNCHANGED faults /\ src' = src
    BY <1>6 DEF PublishMoved, Publish, Rename
  <2>3. PICK r \in Contents \cup {None} : Return(p, r)
    BY <1>6, <2>1 DEF PublishMoved, Publish, Ingested
  <2>4. stg' = stg \/ stg' = [stg EXCEPT ![p] = NoFile]
    BY <1>6 DEF PublishMoved, Publish
  <2>5. /\ stg' \in [Procs -> Files \cup {NoFile}]
        /\ \A q \in Procs : stg'[q] # NoFile => stg'[q].hurt = "no"
        /\ \A q \in Procs \ {p} : stg'[q] = stg[q]
    BY <1>0, <2>4
  <2>6. /\ pc' \in [Procs -> PCs] /\ op' \in [Procs -> Ops \cup {NoOp}]
        /\ tmp' \in [Procs -> Files \cup {NoFile}]
        /\ hash' \in [Procs -> Contents \cup {None}]
        /\ answer' \in [Procs -> Contents \cup {None}] /\ OpInv' /\ StagingInv'
    BY <2>3, <2>5, ReturnKeeps DEF IInv
  <2>7. /\ obj' \in [Contents -> Files \cup {NoFile}]
        /\ dest' \in [Dests -> Files \cup {NoFile}]
        /\ link' \in [Dests -> Contents \cup {None}] /\ LinkInv' /\ ObjectsAreIntact'
    BY <2>1, <2>2, RenameKeeps DEF IInv
  <2> QED BY <2>2, <2>5, <2>6, <2>7 DEF IInv, TypeOK
<1>7. CASE Restore(p)
  <2>1. tmp[p] \in Files /\ tmp[p].hurt = "no"
    BY <1>7 DEF Restore, IInv, StagingInv
  <2>2. stg' = stg \/ stg' = [stg EXCEPT ![p] = tmp[p]]
    BY <1>7 DEF Restore
  <2>3. /\ stg' \in [Procs -> Files \cup {NoFile}]
        /\ \A q \in Procs : stg'[q] # NoFile => stg'[q].hurt = "no"
        /\ \A q \in Procs \ {p} : stg'[q] = stg[q]
    BY <1>0, <2>1, <2>2
  <2>4. Return(p, None) /\ UNCHANGED <<fileVars, faults>>
    BY <1>7 DEF Restore, Fails
  <2> QED BY <2>3, <2>4, QuietReturnKeeps
<1>8. CASE Copy(p)
  <2>1. op[p].kind \in {"local", "staged"} /\ Source(p) \in Contents
    BY <1>8, SourceType DEF Copy, IInv, OpInv
  <2>2. /\ tmp' = [tmp EXCEPT ![p] = New(Source(p), FALSE)]
        /\ hash' = [hash EXCEPT ![p] = Source(p)] /\ Goto(p, "sync")
        /\ UNCHANGED <<fileVars, stg, op, answer, faults>>
    BY <1>8 DEF Copy
  <2>3. New(Source(p), FALSE) \in Files /\ New(Source(p), FALSE).hurt = "no"
        /\ New(Source(p), FALSE).content = Source(p)
    BY <2>1, NewType
  <2>4. /\ tmp' \in [Procs -> Files \cup {NoFile}] /\ tmp'[p] = New(Source(p), FALSE)
        /\ hash' \in [Procs -> Contents \cup {None}] /\ hash'[p] = Source(p)
        /\ \A q \in Procs \ {p} : tmp'[q] = tmp[q] /\ hash'[q] = hash[q]
    BY <1>0, <2>1, <2>2, <2>3
  <2> QED BY <1>0, <2>1, <2>2, <2>3, <2>4, GotoKeeps DEF PCs
<1>9. CASE Sync(p)
  <2>1. /\ op[p].kind \in {"local", "staged"}
        /\ tmp[p] \in Files /\ tmp[p].hurt = "no" /\ hash[p] = tmp[p].content
    BY <1>9 DEF Sync, IInv, OpInv, StagingInv
  <2>2. /\ tmp' = [tmp EXCEPT ![p] = [tmp[p] EXCEPT !.synced = TRUE]] /\ Goto(p, "publish")
        /\ UNCHANGED <<fileVars, stg, op, hash, answer, faults>>
    BY <1>9 DEF Sync
  <2>3. [tmp[p] EXCEPT !.synced = TRUE] \in Files
        /\ [tmp[p] EXCEPT !.synced = TRUE].hurt = "no"
        /\ [tmp[p] EXCEPT !.synced = TRUE].content = hash[p]
    BY <2>1 DEF Files
  <2>4. /\ tmp' \in [Procs -> Files \cup {NoFile}]
        /\ tmp'[p] = [tmp[p] EXCEPT !.synced = TRUE]
        /\ \A q \in Procs \ {p} : tmp'[q] = tmp[q]
    BY <1>0, <2>2, <2>3
  <2> QED BY <1>0, <2>1, <2>2, <2>3, <2>4, GotoKeeps DEF PCs
<1>10. CASE Publish(p) /\ UNCHANGED fileVars
  <2>1. hash[p] \in Contents
    BY <1>10 DEF Publish, IInv, StagingInv, Files
  <2>2. PICK r \in Contents \cup {None} : Return(p, r)
    BY <1>10, <2>1 DEF Publish, Ingested
  <2>3. stg' = stg \/ stg' = [stg EXCEPT ![p] = NoFile]
    BY <1>10 DEF Publish
  <2>4. /\ stg' \in [Procs -> Files \cup {NoFile}]
        /\ \A q \in Procs : stg'[q] # NoFile => stg'[q].hurt = "no"
        /\ \A q \in Procs \ {p} : stg'[q] = stg[q]
    BY <1>0, <2>3
  <2>5. UNCHANGED <<fileVars, faults>>
    BY <1>10 DEF Publish
  <2> QED BY <2>2, <2>4, <2>5, QuietReturnKeeps
<1>11. CASE PutFails(p)
  <2>1. Return(p, None) /\ UNCHANGED <<fileVars, stg, faults>>
    BY <1>11 DEF PutFails, Fails
  <2> QED BY <1>0, <2>1, QuietReturnKeeps
<1>12. Publish(p) => Rename(tmp[p], hash[p]) \/ UNCHANGED fileVars
  BY DEF Publish
<1> QED BY <1>1, <1>2, <1>3, <1>4, <1>5, <1>6, <1>7, <1>8, <1>9, <1>10, <1>11, <1>12

\* The placing of a package in a pool, step by step.
LEMMA PlaceKeeps ==
    ASSUME IInv, NEW p \in Procs,
           \/ Look(p) \/ CheckObject(p) \/ Unlink(p) \/ LinkOrCopy(p) \/ Verify(p)
           \/ Recheck(p)
    PROVE  IInv'
<1>0. /\ stg \in [Procs -> Files \cup {NoFile}] /\ tmp \in [Procs -> Files \cup {NoFile}]
      /\ hash \in [Procs -> Contents \cup {None}]
      /\ \A q \in Procs : stg[q] # NoFile => stg[q].hurt = "no"
  BY DEF IInv, TypeOK, StagingInv
<1>1. op[p].kind = "place" /\ op[p].digest \in Contents /\ op[p].dest \in Dests
  <2>1. op[p].kind = "place"
    BY DEF Look, CheckObject, Unlink, LinkOrCopy, Verify, Recheck, IInv, OpInv
  <2> QED BY <2>1, OpTypes DEF IInv
<1>2. ASSUME NEW f \in Files \cup {NoFile}, NEW to \in Contents \cup {None},
             to # None => Has(to), SetPool(op[p].dest, f, to),
             NEW next \in {"link", "verify"}, Goto(p, next),
             UNCHANGED <<op, tmp, hash, answer, stg, faults>>
      PROVE  IInv'
  <2>1. /\ obj' \in [Contents -> Files \cup {NoFile}] /\ dest' \in [Dests -> Files \cup {NoFile}]
        /\ link' \in [Dests -> Contents \cup {None}] /\ src' = src
        /\ LinkInv' /\ ObjectsAreIntact'
    BY <1>1, <1>2, SetPoolKeeps DEF IInv
  <2>2. pc' \in [Procs -> PCs] /\ pc'[p] = next /\ \A q \in Procs \ {p} : pc'[q] = pc[q]
    BY <1>2 DEF Goto, IInv, TypeOK, PCs
  <2>3. OpInv' /\ StagingInv'
    BY <1>1, <1>2, <2>2 DEF IInv, OpInv, StagingInv
  <2>4. TypeOK'
    BY <1>2, <2>1, <2>2 DEF IInv, TypeOK
  <2> QED BY <2>1, <2>3, <2>4 DEF IInv
<1>3. ASSUME NEW next \in {"checkObject", "unlink", "link", "recheck"}, Goto(p, next),
             UNCHANGED <<fileVars, stg, faults, op, tmp, hash, answer>>
      PROVE  IInv'
  BY <1>0, <1>1, <1>3, GotoKeeps DEF PCs
<1>4. ASSUME NEW r \in Contents \cup {None}, Return(p, r), UNCHANGED <<fileVars, stg, faults>>
      PROVE  IInv'
  BY <1>0, <1>4, QuietReturnKeeps
<1>7. CASE Look(p)
  BY <1>1, <1>3, <1>4, <1>7 DEF Look
<1>8. CASE CheckObject(p)
  BY <1>3, <1>4, <1>8 DEF CheckObject, Fails
<1>9. CASE Recheck(p)
  BY <1>1, <1>4, <1>9 DEF Recheck, Fails
<1>10. CASE Unlink(p)
  <2>1. CASE Fails(p) /\ UNCHANGED <<fileVars, stg, faults>>
    BY <1>4, <2>1 DEF Fails
  <2>2. CASE Goto(p, "link") /\ UNCHANGED <<fileVars, op, tmp, hash, answer, stg, faults>>
    BY <1>3, <2>2
  <2>3. CASE /\ SetPool(op[p].dest, NoFile, None) /\ Goto(p, "link")
             /\ UNCHANGED <<op, tmp, hash, answer, stg, faults>>
    BY <1>2, <2>3
  <2> QED BY <1>10, <2>1, <2>2, <2>3 DEF Unlink
<1>5. CASE LinkOrCopy(p)
  <2>1. CASE Fails(p) /\ UNCHANGED <<fileVars, stg, faults>>
    BY <1>0, <2>1, QuietReturnKeeps DEF Fails
  <2>2. CASE /\ Has(op[p].digest) /\ Goto(p, "verify")
             /\ UNCHANGED <<op, tmp, hash, answer, stg, faults>>
             /\ SetPool(op[p].dest, NoFile, op[p].digest)
    BY <1>1, <1>2, <2>2
  <2>3. CASE /\ Has(op[p].digest) /\ Goto(p, "verify")
             /\ UNCHANGED <<op, tmp, hash, answer, stg, faults>>
             /\ SetPool(op[p].dest, New(obj[op[p].digest].content, TRUE), None)
    <3>1. obj[op[p].digest] \in Files
      BY <1>1, <2>3 DEF Has, IInv, TypeOK
    <3>2. New(obj[op[p].digest].content, TRUE) \in Files
      BY <3>1 DEF Files, New
    <3> QED BY <1>2, <2>3, <3>2
  <2> QED BY <1>5, <2>1, <2>2, <2>3 DEF LinkOrCopy
<1>6. CASE Verify(p)
  <2>1. CASE Goto(p, "recheck") /\ UNCHANGED <<fileVars, stg, faults, op, tmp, hash, answer>>
    BY <1>3, <2>1
  <2>2. CASE /\ Return(p, None) /\ SetPool(op[p].dest, NoFile, None)
             /\ UNCHANGED <<stg, faults>>
    <3>1. /\ obj' \in [Contents -> Files \cup {NoFile}]
          /\ dest' \in [Dests -> Files \cup {NoFile}]
          /\ link' \in [Dests -> Contents \cup {None}] /\ src' = src
          /\ LinkInv' /\ ObjectsAreIntact'
      BY <1>1, <2>2, SetPoolKeeps DEF IInv
    <3>2. /\ pc' \in [Procs -> PCs] /\ op' \in [Procs -> Ops \cup {NoOp}]
          /\ tmp' \in [Procs -> Files \cup {NoFile}]
          /\ hash' \in [Procs -> Contents \cup {None}]
          /\ answer' \in [Procs -> Contents \cup {None}] /\ OpInv' /\ StagingInv'
      BY <1>0, <2>2, ReturnKeeps DEF IInv
    <3> QED BY <2>2, <3>1, <3>2 DEF IInv, TypeOK
  <2>3. CASE Return(p, None) /\ UNCHANGED <<fileVars, stg, faults>>
    BY <1>4, <2>3
  <2> QED BY <1>6, <2>1, <2>2, <2>3 DEF Verify, Fails
<1> QED BY <1>5, <1>6, <1>7, <1>8, <1>9, <1>10

\* What users and the machine do: an edit through a link marks the object, and
\* so does the loss of data that was not synced.
LEMMA EnvironmentKeeps == IInv /\ Environment => IInv'
<1> SUFFICES ASSUME IInv, Environment PROVE IInv'
  OBVIOUS
<1> USE DEF IInv
<1>0. ASSUME Fault PROVE faults' \in 0 .. MaxFaults
  BY <1>0, ConstantsAssumption DEF Fault, TypeOK
<1>1. ASSUME NEW s \in Sources, NEW c \in Contents, EditSource(s, c) PROVE IInv'
  <2>1. src' \in [Sources -> Contents]
    BY <1>1 DEF EditSource, TypeOK
  <2>2. TypeOK'
    BY <1>0, <1>1, <2>1 DEF EditSource, TypeOK
  <2>3. OpInv' /\ StagingInv' /\ LinkInv' /\ ObjectsAreIntact'
    BY <1>1 DEF EditSource, OpInv, StagingInv, LinkInv, ObjectsAreIntact, Has
  <2> QED BY <2>2, <2>3
<1>2. ASSUME NEW d \in Dests, NEW c \in Contents, EditPool(d, c) PROVE IInv'
  <2>1. ASSUME NEW f \in Files
        PROVE  Edited(f, c) \in Files /\ Edited(f, c) # NoFile /\ Edited(f, c).hurt = "edited"
    <3>1. Edited(f, c) \in Files /\ Edited(f, c).hurt = "edited"
      BY DEF Edited, Files
    <3> QED BY <3>1, NoFileNotFile
  <2>2. /\ InPool(d) \in Files
        /\ UNCHANGED <<link, src, stg, tmp, pc, op, hash, answer>>
        /\ faults' \in 0 .. MaxFaults
    BY <1>0, <1>2 DEF EditPool, InPool, TypeOK
  <2>3. CASE link[d] # None
    <3>1. obj' = [obj EXCEPT ![link[d]] = Edited(obj[link[d]], c)] /\ dest' = dest
      BY <1>2, <2>3 DEF EditPool
    <3>2. link[d] \in Contents /\ obj[link[d]] \in Files
      BY <2>2, <2>3 DEF InPool, TypeOK
    <3>3. /\ Edited(obj[link[d]], c) \in Files
          /\ Edited(obj[link[d]], c) # NoFile
          /\ Edited(obj[link[d]], c).hurt = "edited"
      BY <2>1, <3>2
    <3>4. TypeOK'
      BY <2>2, <3>1, <3>2, <3>3 DEF TypeOK
    <3>5. LinkInv' /\ ObjectsAreIntact'
      BY <2>2, <3>1, <3>2, <3>3 DEF LinkInv, ObjectsAreIntact, Has, TypeOK
    <3> QED BY <2>2, <3>4, <3>5 DEF OpInv, StagingInv
  <2>4. CASE link[d] = None
    <3>1. dest' = [dest EXCEPT ![d] = Edited(dest[d], c)] /\ obj' = obj
      BY <1>2, <2>4 DEF EditPool
    <3>2. Edited(dest[d], c) \in Files
      BY <2>1, <2>2, <2>4 DEF InPool
    <3>3. TypeOK'
      BY <2>2, <3>1, <3>2 DEF TypeOK
    <3> QED BY <2>2, <3>1, <3>3 DEF OpInv, StagingInv, LinkInv, ObjectsAreIntact, Has
  <2> QED BY <2>3, <2>4
<1>3. ASSUME NEW c \in Contents, Collect(c) PROVE IInv'
  <2>1. Rename(NoFile, c) /\ src' = src /\ UNCHANGED <<stg, tmp, pc, op, hash, answer, faults>>
    BY <1>3 DEF Collect, Rename
  <2>2. /\ obj' \in [Contents -> Files \cup {NoFile}] /\ dest' \in [Dests -> Files \cup {NoFile}]
        /\ link' \in [Dests -> Contents \cup {None}] /\ LinkInv' /\ ObjectsAreIntact'
    BY <2>1, RenameKeeps
  <2> QED BY <2>1, <2>2 DEF TypeOK, OpInv, StagingInv
<1>4. ASSUME NEW lost, NEW c \in Contents, PowerFailure(lost, c) PROVE IInv'
  <2>1. ASSUME NEW f \in Files \cup {NoFile}, NEW b
        PROVE  /\ Survives(f, b, c) \in Files \cup {NoFile}
               /\ Survives(f, b, c) = NoFile <=> f = NoFile
               /\ f # NoFile /\ Survives(f, b, c).hurt = "no"
                    => f.hurt = "no" /\ Survives(f, b, c).content = f.content
    <3>1. CASE f = NoFile \/ f.synced
      BY <3>1 DEF Survives
    <3>2. CASE f # NoFile /\ ~f.synced /\ b /\ f.content # c
      <4>1. Survives(f, b, c) = [content |-> c, synced |-> TRUE, hurt |-> "lost"]
        BY <3>2 DEF Survives
      <4>2. [content |-> c, synced |-> TRUE, hurt |-> "lost"] \in Files
        BY DEF Files
      <4>3. Survives(f, b, c).hurt # "no"
        BY <4>1
      <4>4. Survives(f, b, c) \in Files
        BY <4>1, <4>2
      <4> QED BY <4>3, <4>4, <3>2, NoFileNotFile
    <3>3. CASE f # NoFile /\ ~f.synced /\ ~(b /\ f.content # c)
      <4>1. Survives(f, b, c) = [f EXCEPT !.synced = TRUE]
        BY <3>3 DEF Survives
      <4>2. /\ [f EXCEPT !.synced = TRUE] \in Files
            /\ [f EXCEPT !.synced = TRUE].hurt = f.hurt
            /\ [f EXCEPT !.synced = TRUE].content = f.content
        BY <3>3 DEF Files
      <4> QED BY <4>1, <4>2, <3>3, NoFileNotFile
    <3> QED BY <3>1, <3>2, <3>3
  <2>2. /\ obj' = [a \in Contents |-> Survives(obj[a], a \in lost, c)]
        /\ dest' = [d \in Dests |-> Survives(dest[d], d \in lost, c)]
        /\ UNCHANGED <<link, src>>
        /\ stg' = [p \in Procs |-> NoFile] /\ tmp' = [p \in Procs |-> NoFile]
        /\ pc' = [p \in Procs |-> "idle"] /\ op' = [p \in Procs |-> NoOp]
        /\ hash' = [p \in Procs |-> None] /\ answer' = [p \in Procs |-> None]
        /\ faults' \in 0 .. MaxFaults
    BY <1>0, <1>4 DEF PowerFailure
  <2>3. obj' \in [Contents -> Files \cup {NoFile}] /\ dest' \in [Dests -> Files \cup {NoFile}]
    BY <2>1, <2>2 DEF TypeOK
  <2>4. TypeOK'
    BY <2>2, <2>3 DEF TypeOK, PCs
  <2>5. OpInv' /\ StagingInv'
    BY <2>2 DEF OpInv, StagingInv
  <2>6. LinkInv'
    BY <2>1, <2>2 DEF LinkInv, Has, TypeOK
  <2>7. ObjectsAreIntact'
    BY <2>1, <2>2 DEF ObjectsAreIntact, Has, TypeOK
  <2> QED BY <2>4, <2>5, <2>6, <2>7
<1> QED BY <1>1, <1>2, <1>3, <1>4 DEF Environment

\* The invariant holds for ever.
THEOREM Invariance == Spec => []IInv
<1>1. ASSUME IInv, [Next]_vars PROVE IInv'
  <2>1. ASSUME NEW p \in Procs, Kill(p) PROVE IInv'
    <3>1. Return(p, None) /\ stg' = [stg EXCEPT ![p] = NoFile] /\ UNCHANGED <<fileVars, faults>>
      BY <2>1 DEF Kill, Fails
    <3>2. /\ stg' \in [Procs -> Files \cup {NoFile}]
          /\ \A q \in Procs : stg'[q] # NoFile => stg'[q].hurt = "no"
          /\ \A q \in Procs \ {p} : stg'[q] = stg[q]
      BY <1>1, <3>1 DEF IInv, TypeOK, StagingInv
    <3> QED BY <1>1, <3>1, <3>2, QuietReturnKeeps
  <2>2. CASE UNCHANGED vars
    BY <1>1, <2>2 DEF vars, IInv, TypeOK, OpInv, StagingInv, LinkInv, ObjectsAreIntact, Has
  <2> QED BY <1>1, <2>1, <2>2, StartKeeps, PutKeeps, PlaceKeeps, EnvironmentKeeps DEF Next, Step
<1> QED BY InitIInv, <1>1, PTL DEF Spec

\* Every variable always has its type.
THEOREM TypeCorrect == Spec => []TypeOK
<1>1. IInv => TypeOK
  BY DEF IInv
<1> QED BY Invariance, <1>1, PTL

\* PutFile never publishes bytes it has not hashed: an object is what its
\* address says, unless it was edited through a bundle's hard link or lost its
\* data in a power failure.
THEOREM ObjectsIntact == Spec => []ObjectsAreIntact
<1>1. IInv => ObjectsAreIntact
  BY DEF IInv
<1> QED BY Invariance, <1>1, PTL
-----------------------------------------------------------------------------
(* What a call answers. *)

\* A process between calls remembers none.
IdleInv == \A p \in Procs : pc[p] = "idle" => op[p] = NoOp

\* What AskedIsGiven asks of the call of one process in one step.
Given(p) ==
    pc'[p] = "idle" =>
        /\ op[p].kind = "local" /\ op[p].want # None => answer'[p] \in {op[p].want, None}
        /\ op[p].kind = "place" /\ answer'[p] # None
              => \E d \in Dests : d = op[p].dest /\ InPool(d)'.content = op[p].digest

\* Returning an error gives nothing but keeps the promise.
LEMMA FailsGiven ==
    ASSUME TypeOK, IdleInv, NEW p \in Procs, Return(p, None)
    PROVE  IdleInv' /\ \A q \in Procs : Given(q)
<1>1. /\ pc'[p] = "idle" /\ op'[p] = NoOp /\ answer'[p] = None
      /\ \A q \in Procs : q # p => pc'[q] = pc[q] /\ op'[q] = op[q]
  BY DEF TypeOK, Return
<1> QED BY <1>1 DEF IdleInv, Given, NoOp

\* A call that goes on, or one of the other processes, is not answered.
LEMMA GoesOn ==
    ASSUME TypeOK, IdleInv, NEW p \in Procs, NEW next \in PCs \ {"idle"}, Goto(p, next),
           op' = op \/ \E o : op' = [op EXCEPT ![p] = o]
    PROVE  IdleInv' /\ \A q \in Procs : Given(q)
<1>1. /\ pc'[p] = next
      /\ \A q \in Procs : q # p => pc'[q] = pc[q] /\ op'[q] = op[q]
  BY DEF TypeOK, Goto
<1> QED BY <1>1 DEF IdleInv, Given, NoOp

\* A digest is returned for a file that has it.
LEMMA ReturnGiven ==
    ASSUME TypeOK, IdleInv, NEW p \in Procs, NEW r \in Contents, Return(p, r),
           op[p].kind = "local" => op[p].want \in {None, r},
           op[p].kind = "place" =>
              \E d \in Dests : d = op[p].dest /\ InPool(d)'.content = op[p].digest
    PROVE  IdleInv' /\ \A q \in Procs : Given(q)
<1>1. /\ pc'[p] = "idle" /\ op'[p] = NoOp /\ answer'[p] = r
      /\ \A q \in Procs : q # p => pc'[q] = pc[q] /\ op'[q] = op[q]
  BY DEF TypeOK, Return
<1>2. Given(p)
  BY <1>1 DEF Given
<1>3. \A q \in Procs : q # p => Given(q)
  BY <1>1 DEF IdleInv, Given, NoOp
<1> QED BY <1>1, <1>2, <1>3 DEF IdleInv

\* PutFile's result is compared with the digest the user stated.
LEMMA IngestedGiven ==
    ASSUME TypeOK, IdleInv, NEW p \in Procs, NEW r \in Contents, Ingested(p, r),
           op[p].kind \in {"local", "staged"}
    PROVE  IdleInv' /\ \A q \in Procs : Given(q)
<1>1. CASE op[p].kind = "local" /\ op[p].want \notin {None, r}
  BY <1>1, FailsGiven DEF Ingested
<1>2. CASE ~(op[p].kind = "local" /\ op[p].want \notin {None, r})
  <2>1. Return(p, r)
    BY <1>2 DEF Ingested
  <2> QED BY <1>2, <2>1, ReturnGiven
<1> QED BY <1>1, <1>2

\* Every step answers what was asked, or nothing.
LEMMA StepGiven ==
    ASSUME IInv, IdleInv, Next
    PROVE  IdleInv' /\ \A q \in Procs : Given(q)
<1>0. TypeOK /\ OpInv /\ StagingInv
  BY DEF IInv
<1>1. ASSUME NEW p \in Procs, Start(p)
      PROVE  IdleInv' /\ \A q \in Procs : Given(q)
  <2>1. PICK next \in {"dedup", "precheck", "stage", "look"} :
           Goto(p, next) /\ \E o : op' = [op EXCEPT ![p] = o]
    BY <1>1 DEF Start, StartLocal, StartStaged, StartPlace, Begin
  <2> QED BY <1>0, <2>1, GoesOn DEF PCs
<1>2. ASSUME NEW p \in Procs, \/ PreCheck(p) \/ CheckObject(p) \/ Unlink(p) \/ LinkOrCopy(p)
                              \/ Verify(p)
      PROVE  IdleInv' /\ \A q \in Procs : Given(q)
  <2>1. \/ Return(p, None)
        \/ \E next \in {"dedup", "unlink", "link", "verify", "recheck"} : Goto(p, next) /\ op' = op
    BY <1>2 DEF PreCheck, CheckObject, Unlink, LinkOrCopy, Verify, Fails
  <2> QED BY <1>0, <2>1, FailsGiven, GoesOn DEF PCs
<1>3. ASSUME NEW p \in Procs, Dedup(p) \/ Stage(p) \/ Rehash(p) \/ Copy(p) \/ Sync(p)
      PROVE  IdleInv' /\ \A q \in Procs : Given(q)
  <2>1. \E next \in {"dedupCheck", "copy", "rehash", "publishMoved", "sync", "publish"} :
           Goto(p, next) /\ op' = op
    BY <1>3 DEF Dedup, Stage, Rehash, Copy, Sync
  <2> QED BY <1>0, <2>1, GoesOn DEF PCs
<1>4. ASSUME NEW p \in Procs, Restore(p) \/ PutFails(p) \/ Kill(p)
      PROVE  IdleInv' /\ \A q \in Procs : Given(q)
  BY <1>0, <1>4, FailsGiven DEF Restore, PutFails, Kill, Fails
<1>5. ASSUME NEW p \in Procs, DedupCheck(p)
      PROVE  IdleInv' /\ \A q \in Procs : Given(q)
  <2>1. hash[p] \in Contents /\ op[p].kind = "local"
    BY <1>0, <1>5 DEF DedupCheck, OpInv, StagingInv
  <2>2. Ingested(p, hash[p]) \/ (Goto(p, "copy") /\ op' = op)
    BY <1>5 DEF DedupCheck
  <2> QED BY <1>0, <2>1, <2>2, IngestedGiven, GoesOn DEF PCs
<1>6. ASSUME NEW p \in Procs, PublishMoved(p)
      PROVE  IdleInv' /\ \A q \in Procs : Given(q)
  <2>1. hash[p] \in Contents /\ op[p].kind = "staged" /\ Return(p, hash[p])
    BY <1>0, <1>6 DEF PublishMoved, OpInv, StagingInv, Files
  <2> QED BY <1>0, <2>1, ReturnGiven
<1>7. ASSUME NEW p \in Procs, Publish(p)
      PROVE  IdleInv' /\ \A q \in Procs : Given(q)
  <2>1. hash[p] \in Contents /\ op[p].kind \in {"local", "staged"} /\ Ingested(p, hash[p])
    BY <1>0, <1>7 DEF Publish, OpInv, StagingInv, Files
  <2> QED BY <1>0, <2>1, IngestedGiven
<1>8. ASSUME NEW p \in Procs, Look(p) \/ Recheck(p)
      PROVE  IdleInv' /\ \A q \in Procs : Given(q)
  <2>1. op[p].kind = "place" /\ op[p].digest \in Contents /\ op[p].dest \in Dests
    <3>1. op[p].kind = "place"
      BY <1>0, <1>8 DEF Look, Recheck, OpInv
    <3> QED BY <1>0, <3>1, OpTypes
  <2>2. \/ Return(p, None)
        \/ Goto(p, "checkObject") /\ op' = op
        \/ Return(p, op[p].digest) /\ InPool(op[p].dest).content = op[p].digest
    BY <1>8 DEF Look, Recheck, Fails
  <2>3. CASE Return(p, op[p].digest) /\ InPool(op[p].dest).content = op[p].digest
    <3>1. \A d \in Dests : InPool(d)' = InPool(d)
      BY <1>8 DEF Look, Recheck, fileVars, InPool
    <3> QED BY <1>0, <2>1, <2>3, <3>1, ReturnGiven
  <2> QED BY <1>0, <2>2, <2>3, FailsGiven, GoesOn DEF PCs
<1>9. CASE Environment
  <2>1. CASE UNCHANGED <<pc, op>>
    BY <2>1 DEF IdleInv, Given, NoOp
  <2>2. ASSUME NEW lost, NEW c \in Contents, PowerFailure(lost, c)
        PROVE  IdleInv' /\ \A q \in Procs : Given(q)
    BY <2>2 DEF PowerFailure, IdleInv, Given
  <2> QED BY <1>9, <2>1, <2>2 DEF Environment, EditSource, EditPool, Collect
<1> QED BY <1>1, <1>2, <1>3, <1>4, <1>5, <1>6, <1>7, <1>8, <1>9 DEF Next, Step

\* Whatever is edited, killed or lost meanwhile, a digest that was stated is the
\* digest of what is accepted, and a package said to be in the pool is there.
THEOREM AskedAndGiven == Spec => AskedIsGiven
<1>1. Init => IdleInv
  BY DEF Init, IdleInv
<1>2. IInv /\ IdleInv /\ [Next]_vars => IdleInv'
  BY StepGiven DEF vars, IdleInv
<1>3. IInv /\ IdleInv /\ [Next]_vars => [\A p \in Procs : Given(p)]_vars
  BY StepGiven
<1>4. [\A p \in Procs : Given(p)]_vars <=>
        [\A p \in Procs : pc'[p] = "idle" =>
          /\ op[p].kind = "local" /\ op[p].want # None => answer'[p] \in {op[p].want, None}
          /\ op[p].kind = "place" /\ answer'[p] # None
                => \E d \in Dests : d = op[p].dest /\ InPool(d)'.content = op[p].digest]_vars
  BY DEF Given
<1> QED BY Invariance, <1>1, <1>2, <1>3, <1>4, PTL DEF Spec, AskedIsGiven
=============================================================================
