----------------------------- MODULE BundleBuild -----------------------------
(***************************************************************************)
(* A bundle directory and the builds that write it: core/engine's run,      *)
(* core/bundle's Assemble, the engine's finalizeBundle, and exportTar;      *)
(* and what core/verify's runVerify says of the directory at any moment.    *)
(*                                                                         *)
(* A build writes in place, file after file, into a directory that may hold *)
(* an earlier bundle or what an interrupted build left.  It may be killed   *)
(* or fail between any two steps and in the middle of any write.            *)
(*                                                                         *)
(* A file's contents are abstracted to the build that wrote them and to     *)
(* whether they are the first cut that Assemble writes or the final one.    *)
(***************************************************************************)
EXTENDS Naturals, FiniteSets

CONSTANTS
    PoolFiles,  \* .deb files: [name, version, user]; version 0 does not parse,
                \* user marks what the store's index calls user-supplied
    Requests,   \* what a build may be asked: see RequestType
    MaxBuilds   \* bound: builds run one after the other into the directory

DebType == [name : STRING, version : Nat, user : BOOLEAN]

\* sel: what resolution selects; sign: a signer is configured; extras: the
\* optional files asked for; prune: UpdateRefresh with Prune; tar: FormatTar.
RequestType == [sel : SUBSET PoolFiles, sign : BOOLEAN, extras : SUBSET {"sbom", "bin"},
                prune : BOOLEAN, tar : BOOLEAN]

ASSUME ConstantsAssumption ==
    /\ PoolFiles \subseteq DebType
    /\ Requests \subseteq RequestType
    /\ MaxBuilds \in Nat

VARIABLES
    req,        \* what each build is asked; fixed
    gen,        \* the build that is running, or the last one that ran
    pc,         \* its next step, or "idle"
    pool,       \* the .debs under repo/pool
    doc,        \* the other files the manifest covers
    man,        \* debark.manifest.json
    sig,        \* debark.manifest.sig
    tar,        \* the exported archive: the directory as exportTar saw it
    result,     \* how the last build ended
    signedOff   \* history: builds whose signature was written in full

vars == <<req, gen, pc, pool, doc, man, sig, tar, result, signedOff>>
dirVars == <<pool, doc, man, sig>>
-----------------------------------------------------------------------------
Gens == 1 .. MaxBuilds

Content == [gen : 0 .. MaxBuilds, stage : {"absent", "torn", "draft", "final"}]
Absent == [gen |-> 0, stage |-> "absent"]
Torn == [gen |-> 0, stage |-> "torn"]
By(g, stage) == [gen |-> g, stage |-> stage]
Whole(c) == c.stage \in {"draft", "final"}

\* repo: Packages, Packages.gz, Release; unref and lists: the UNREFERENCED,
\* ADDED and REMOVED reports.
Docs == {"repo", "snapshot", "unref", "lock", "bin", "readme", "lists", "sbom", "evidence"}
NoDocs == [d \in Docs |-> Absent]

\* A manifest: every file it lists with its digest, and the three digests it
\* carries beside the list.
Manifests == [tag : Content, docs : [Docs -> Content], pool : SUBSET PoolFiles,
              lockDigest : Content, repoDigest : Content, snapshotDigest : Content]
NoManifest == [tag |-> Absent, docs |-> NoDocs, pool |-> {},
               lockDigest |-> Absent, repoDigest |-> Absent, snapshotDigest |-> Absent]
TornManifest == [NoManifest EXCEPT !.tag = Torn]

Signatures == [tag : Content, over : Manifests]
NoSignature == [tag |-> Absent, over |-> NoManifest]
TornSignature == [tag |-> Torn, over |-> NoManifest]

Bundles == [pool : SUBSET PoolFiles, doc : [Docs -> Content], man : Manifests, sig : Signatures]
Dir == [pool |-> pool, doc |-> doc, man |-> man, sig |-> sig]
NoBundle == [pool |-> {}, doc |-> NoDocs, man |-> NoManifest, sig |-> NoSignature]

Init ==
    /\ req \in [Gens -> Requests]
    /\ gen = 0
    /\ pc = "idle"
    /\ pool = {}
    /\ doc = NoDocs
    /\ man = NoManifest
    /\ sig = NoSignature
    /\ tar = NoBundle
    /\ result = "none"
    /\ signedOff = {}
-----------------------------------------------------------------------------
(* runVerify, on a bundle that is not being written while it is read. *)

\* checkSignatures and the manifest_sha256 check before it.
SignatureAccepted(b, trusted, allowUnsigned) ==
    /\ b.sig.tag # Torn
    /\ Whole(b.sig.tag) => b.sig.over = b.man
    /\ (Whole(b.sig.tag) /\ trusted) \/ allowUnsigned

\* Mutants of FilesMatch: the walk covers only repo/pool; it skips repo/pool.
FilesMatchPoolOnly(b) == b.pool = b.man.pool

\* checkFiles: what is there is what the manifest lists, no more and no less.
FilesMatch(b) == b.doc = b.man.docs /\ b.pool = b.man.pool

\* checkRepository and checkLockAndSnapshot.
DigestsMatch(b) ==
    /\ b.man.docs["repo"] = b.man.repoDigest
    /\ b.doc["lock"] = b.man.lockDigest
    /\ b.doc["snapshot"] # Absent => b.doc["snapshot"] = b.man.snapshotDigest

\* checkLockPackages: the manifest attests every file the lock installs.
LockPackagesListed(b) ==
    /\ Whole(b.doc["lock"])
    /\ req[b.doc["lock"].gen].sel \subseteq b.man.pool

Accepts(b, trusted, allowUnsigned) ==
    /\ Whole(b.man.tag)
    /\ SignatureAccepted(b, trusted, allowUnsigned)
    /\ FilesMatch(b)
    /\ DigestsMatch(b)
    /\ LockPackagesListed(b)
-----------------------------------------------------------------------------
(* The build.  Each step names the one that follows it in the code. *)

Request == req[gen]

Goto(next) == pc' = next /\ UNCHANGED <<req, gen, result>>

\* A file is written in full.
WriteDoc(d, stage, next) ==
    /\ doc' = [doc EXCEPT ![d] = By(gen, stage)]
    /\ Goto(next)
    /\ UNCHANGED <<pool, man, sig, tar, signedOff>>

\* Build: everything up to evaluatePolicy leaves the output directory alone.
StartBuild ==
    /\ pc = "idle"
    /\ gen < MaxBuilds
    /\ gen' = gen + 1
    /\ pc' = "plan"
    /\ result' = "none"
    /\ UNCHANGED <<req, dirVars, tar, signedOff>>

\* Snapshot, inputs, backend, resolution, ingest and policy all succeeded.
Plan ==
    /\ pc = "plan"
    /\ Goto("pool")
    /\ UNCHANGED <<dirVars, tar, signedOff>>

\* materialiseSelections puts the selected files in place one by one; a file
\* appears complete, by link or by rename.
Materialise(d) ==
    /\ pc = "pool"
    /\ d \in Request.sel \ pool
    /\ pool' = pool \cup {d}
    /\ UNCHANGED <<req, gen, pc, result, doc, man, sig, tar, signedOff>>

Materialised ==
    /\ pc = "pool"
    /\ Request.sel \subseteq pool
    /\ Goto(IF Request.prune THEN "prune" ELSE "repo")
    /\ UNCHANGED <<dirVars, tar, signedOff>>

\* pruneDecide: a file is removed when its version parses, it is neither
\* selected nor user-supplied, and a newer one of its name is in the pool.
Pruned(files, selected) ==
    {d \in files \ selected :
        /\ d.version > 0
        /\ ~d.user
        /\ \E e \in files : e.name = d.name /\ e.version > d.version}

\* pruneExistingPool removes them one by one.
PruneFile(d) ==
    /\ pc = "prune"
    /\ d \in Pruned(pool, Request.sel)
    /\ pool' = pool \ {d}
    /\ UNCHANGED <<req, gen, pc, result, doc, man, sig, tar, signedOff>>

PruneDone ==
    /\ pc = "prune"
    /\ Pruned(pool, Request.sel) = {}
    /\ Goto("repo")
    /\ UNCHANGED <<dirVars, tar, signedOff>>

WriteRepository == pc = "repo" /\ WriteDoc("repo", "final", "snapshot")
WriteSnapshot == pc = "snapshot" /\ WriteDoc("snapshot", "final", "unref")
WriteUnreferenced == pc = "unref" /\ WriteDoc("unref", "final", "lock0")

SaveDraftLock ==
    pc = "lock0" /\ WriteDoc("lock", "draft", IF "bin" \in Request.extras THEN "bin" ELSE "man0")
EmbedBinary == pc = "bin" /\ WriteDoc("bin", "final", "man0")

\* manifest.Build over the tree as it is, and manifest.Save.
ManifestOf(stage) ==
    [tag |-> By(gen, stage), docs |-> doc, pool |-> pool,
     lockDigest |-> By(gen, stage), repoDigest |-> By(gen, "final"),
     snapshotDigest |-> By(gen, "final")]

SaveManifest(stage, next) ==
    /\ man' = ManifestOf(stage)
    /\ Goto(next)
    /\ UNCHANGED <<pool, doc, sig, tar, signedOff>>

SaveDraftManifest == pc = "man0" /\ SaveManifest("draft", "readme0")
WriteDraftReadme == pc = "readme0" /\ WriteDoc("readme", "draft", "lists")
WriteLists == pc = "lists" /\ WriteDoc("lists", "final", "lock")

\* finalizeBundle.  runDoctor, runClosedWorld and foldUnsignedWarning only add
\* to the lock document in memory, which is what makes this one final.
SaveLock == pc = "lock" /\ WriteDoc("lock", "final", "readme")
WriteReadme ==
    pc = "readme" /\ WriteDoc("readme", "final",
                              IF "sbom" \in Request.extras THEN "sbom" ELSE "evidence")
WriteSBOM == pc = "sbom" /\ WriteDoc("sbom", "final", "evidence")

\* evidence.json already says that the manifest is signed when it is to be.
WriteEvidence == pc = "evidence" /\ WriteDoc("evidence", "final", "man")

\* What follows the last write into the directory.
AfterDir == IF Request.tar THEN "tar" ELSE "done"

SaveFinalManifest ==
    pc = "man" /\ SaveManifest("final", IF Request.sign THEN "sign" ELSE AfterDir)

\* Mutant of Sign: README.txt is rendered in its signed form after signing.
SignThenReadme ==
    /\ pc = "sign"
    /\ doc' = [doc EXCEPT !["readme"] = By(gen, "draft")]
    /\ Goto("sig")
    /\ UNCHANGED <<pool, man, sig, tar, signedOff>>

Sign ==
    /\ pc = "sign"
    /\ Goto("sig")
    /\ UNCHANGED <<dirVars, tar, signedOff>>

SaveSignature ==
    /\ pc = "sig"
    /\ sig' = [tag |-> By(gen, "final"), over |-> man]
    /\ signedOff' = signedOff \cup {gen}
    /\ Goto(AfterDir)
    /\ UNCHANGED <<pool, doc, man, tar>>

\* exportTar: a temporary file, published by a rename.
ExportTar ==
    /\ pc = "tar"
    /\ tar' = Dir
    /\ Goto("done")
    /\ UNCHANGED <<dirVars, signedOff>>

Succeed ==
    /\ pc = "done"
    /\ pc' = "idle"
    /\ result' = "ok"
    /\ UNCHANGED <<req, gen, dirVars, tar, signedOff>>

\* The file that a step is in the middle of writing.
Target ==
    [repo |-> "repo", snapshot |-> "snapshot", unref |-> "unref", lock0 |-> "lock",
     bin |-> "bin", readme0 |-> "readme", lists |-> "lists", lock |-> "lock",
     readme |-> "readme", sbom |-> "sbom", evidence |-> "evidence"]

End(how) ==
    /\ pc' = "idle"
    /\ result' = how
    /\ UNCHANGED <<req, gen, tar, signedOff>>

\* The step under way returns an error, or its context is cancelled, before it
\* writes anything, or half-way through its file.  run returns; the directory
\* stays as it is.
StepFails ==
    /\ pc \notin {"idle", "done", "sign", "sig"}
    /\ \/ UNCHANGED dirVars
       \/ pc \in DOMAIN Target /\ doc' = [doc EXCEPT ![Target[pc]] = Torn]
                               /\ UNCHANGED <<pool, man, sig>>
       \/ pc \in {"man0", "man"} /\ man' = TornManifest /\ UNCHANGED <<pool, doc, sig>>
    /\ End("error")

\* What RemoveAll leaves when it cannot remove everything, by its parts.
Parts == {"pool", "docs", "man", "sig"}
Leaving(parts) ==
    /\ pool' = IF "pool" \in parts THEN pool ELSE {}
    /\ doc' = IF "docs" \in parts THEN doc ELSE NoDocs
    /\ man' = IF "man" \in parts THEN man ELSE NoManifest
    /\ sig' = IF "sig" \in parts THEN sig ELSE NoSignature

\* The signer or SaveSignature returns an error: the directory is removed, as
\* far as the system lets it; it stays when the manifest has no canonical form.
SigningFails ==
    /\ pc \in {"sign", "sig"}
    /\ \/ \E parts \in SUBSET Parts : Leaving(parts)
       \/ pc = "sig" /\ sig' = TornSignature /\ UNCHANGED <<pool, doc, man>>
    /\ End("error")

\* The process is killed: at any step, leaving at worst one file half written.
Killed ==
    /\ pc # "idle"
    /\ \/ UNCHANGED dirVars
       \/ pc \in DOMAIN Target /\ doc' = [doc EXCEPT ![Target[pc]] = Torn]
                               /\ UNCHANGED <<pool, man, sig>>
       \/ pc \in {"man0", "man"} /\ man' = TornManifest /\ UNCHANGED <<pool, doc, sig>>
       \/ pc = "sig" /\ sig' = TornSignature /\ UNCHANGED <<pool, doc, man>>
    /\ End("killed")

Write ==
    \/ WriteRepository \/ WriteSnapshot \/ WriteUnreferenced \/ SaveDraftLock
    \/ EmbedBinary \/ SaveDraftManifest \/ WriteDraftReadme \/ WriteLists
    \/ SaveLock \/ WriteReadme \/ WriteSBOM \/ WriteEvidence \/ SaveFinalManifest
    \/ SaveSignature

Next ==
    \/ StartBuild \/ Plan
    \/ \E d \in PoolFiles : Materialise(d) \/ PruneFile(d)
    \/ Materialised \/ PruneDone
    \/ Write \/ Sign \/ ExportTar \/ Succeed
    \/ StepFails \/ SigningFails \/ Killed

Spec == Init /\ [][Next]_vars
-----------------------------------------------------------------------------
TypeOK ==
    /\ req \in [Gens -> Requests]
    /\ gen \in 0 .. MaxBuilds
    /\ pc = "idle" \/ gen \in Gens
    /\ pool \subseteq PoolFiles
    /\ doc \in [Docs -> Content]
    /\ man \in Manifests
    /\ sig \in Signatures
    /\ tar \in Bundles
    /\ result \in {"none", "ok", "error", "killed"}
    /\ signedOff \subseteq Gens

\* The files every finished bundle has.
Required == {"repo", "snapshot", "unref", "lock", "readme", "lists", "evidence"}

\* A bundle b is, file for file, the finished bundle of the build its manifest
\* names, and has every package that build's lock installs.
IsFinishedBuild(b) ==
    LET g == b.man.tag.gen IN
    /\ b.man.tag = By(g, "final")
    /\ \A d \in Required \cup req[g].extras : b.doc[d] = By(g, "final")
    /\ req[g].sel \subseteq b.pool

\* Whatever was interrupted and rebuilt in this directory: when verify accepts
\* it without --allow-unsigned, it is the finished bundle of one build that
\* was asked to sign and whose signature was written in full.
SignedMeansFinished ==
    Accepts(Dir, TRUE, FALSE) =>
        /\ IsFinishedBuild(Dir)
        /\ req[man.tag.gen].sign
        /\ man.tag.gen \in signedOff

Abstract == INSTANCE SignedBundle WITH
    accepted <- IF Accepts(Dir, TRUE, FALSE) THEN man.tag.gen ELSE 0,
    issued <- signedOff

\* For a verifier that insists on a signature, the many in-place writes of a
\* build, and its interruptions, amount to atomic issue and withdrawal: a
\* signed build verifies from the moment its signature is written, and no state
\* that later builds and crashes reach is taken for an earlier bundle.
ImplementsSignedBundle == Abstract!Spec
=============================================================================
