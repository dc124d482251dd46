------------------------- MODULE BundleBuildProofs -------------------------
(* What holds of a bundle directory for any set of .debs, any requests and   *)
(* any number of builds, killed or failing at any step; of a build under any *)
(* policy and the root that it makes of any snapshot; and of opening any     *)
(* archive.                                                                  *)
EXTENDS BundleBuild, BundleOpen, Policy, Integers, FiniteSetTheorems, WellFoundedInduction, TLAPS

\* The steps at which a file is already in its final form.
PastManifest == {"sign", "sig", "tar", "done"}
PastEvidence == PastManifest \cup {"man"}
PastSBOM == PastEvidence \cup {"evidence"}
PastReadme == PastSBOM \cup {"sbom"}
PastLock == PastReadme \cup {"readme"}
PastLists == PastLock \cup {"lock"}
PastBinary == PastLists \cup {"lists", "readme0", "man0"}
PastUnref == PastBinary \cup {"bin", "lock0"}
PastSnapshot == PastUnref \cup {"unref"}
PastRepo == PastSnapshot \cup {"snapshot"}
PastPool == PastRepo \cup {"repo", "prune"}

Steps == PastPool \cup {"idle", "plan", "pool"}

\* How far the running build has got, in what is on disk.
Progress ==
    /\ pc \in Steps
    /\ pc \in PastPool => Request.sel \subseteq pool
    /\ pc \in PastRepo => doc["repo"] = By(gen, "final")
    /\ pc \in PastSnapshot => doc["snapshot"] = By(gen, "final")
    /\ pc \in PastUnref => doc["unref"] = By(gen, "final")
    /\ pc \in PastBinary /\ "bin" \in Request.extras => doc["bin"] = By(gen, "final")
    /\ pc \in PastLists => doc["lists"] = By(gen, "final")
    /\ pc \in PastLock => doc["lock"] = By(gen, "final")
    /\ pc \in PastReadme => doc["readme"] = By(gen, "final")
    /\ pc \in PastSBOM /\ "sbom" \in Request.extras => doc["sbom"] = By(gen, "final")
    /\ pc \in PastEvidence => doc["evidence"] = By(gen, "final")
    /\ pc \in PastManifest => man = ManifestOf("final")
    /\ pc \in {"sign", "sig"} => Request.sign

\* A manifest m describes the finished bundle of a build that signs.
Describes(m) ==
    LET g == m.tag.gen IN
    /\ g \in Gens
    /\ m.tag = By(g, "final")
    /\ \A d \in Required \cup req[g].extras : m.docs[d] = By(g, "final")
    /\ req[g].sel \subseteq m.pool
    /\ req[g].sign

\* Whatever else is in the directory, a whole signature was made over a
\* finished bundle.
SignatureInv ==
    Whole(sig.tag) => Describes(sig.over) /\ sig.over.tag.gen \in signedOff

IInv == TypeOK /\ Progress /\ SignatureInv
-----------------------------------------------------------------------------
\* The initial directory is empty.
LEMMA InitIInv == Init => IInv
<1> SUFFICES ASSUME Init PROVE IInv
  OBVIOUS
<1>1. NoDocs \in [Docs -> Content] /\ Absent \in Content
  BY ConstantsAssumption DEF NoDocs, Absent, Content
<1>2. NoManifest \in Manifests
  BY <1>1 DEF NoManifest, Manifests
<1>3. NoSignature \in Signatures
  BY <1>1, <1>2 DEF NoSignature, Signatures
<1>4. NoBundle \in Bundles
  BY <1>1, <1>2, <1>3 DEF NoBundle, Bundles
<1>5. TypeOK
  BY <1>1, <1>2, <1>3, <1>4, ConstantsAssumption DEF Init, TypeOK
<1>6. Progress
  BY DEF Init, Progress, Steps, PastPool, PastRepo, PastSnapshot, PastUnref,
         PastBinary, PastLists, PastLock, PastReadme, PastSBOM, PastEvidence, PastManifest
<1>7. SignatureInv
  BY DEF Init, SignatureInv, Whole, NoSignature, Absent
<1> QED BY <1>5, <1>6, <1>7 DEF IInv

\* The contents a build writes are contents.
LEMMA ContentTypes ==
    ASSUME TypeOK, pc # "idle", NEW stage \in {"draft", "final"}
    PROVE  /\ By(gen, stage) \in Content
           /\ Torn \in Content
           /\ ManifestOf(stage) \in Manifests
           /\ TornManifest \in Manifests
           /\ TornSignature \in Signatures
           /\ NoDocs \in [Docs -> Content]
           /\ NoManifest \in Manifests
           /\ NoSignature \in Signatures
<1>1. /\ By(gen, stage) \in Content
      /\ By(gen, "final") \in Content
      /\ Torn \in Content
      /\ Absent \in Content
  BY ConstantsAssumption DEF TypeOK, By, Content, Torn, Absent
<1>2. NoDocs \in [Docs -> Content]
  BY <1>1 DEF NoDocs
<1>3. NoManifest \in Manifests
  BY <1>1, <1>2 DEF NoManifest, Manifests
<1>4. TornManifest \in Manifests
  BY <1>1, <1>3 DEF TornManifest, Manifests
<1>5. NoSignature \in Signatures /\ TornSignature \in Signatures
  BY <1>1, <1>3 DEF NoSignature, TornSignature, Signatures
<1>6. ManifestOf(stage) \in Manifests
  BY <1>1 DEF ManifestOf, Manifests, TypeOK
<1> QED BY <1>1, <1>2, <1>3, <1>4, <1>5, <1>6

\* Every step keeps the types.
LEMMA NextTypeOK == TypeOK /\ Progress /\ [Next]_vars => TypeOK'
<1> SUFFICES ASSUME TypeOK, Progress, [Next]_vars PROVE TypeOK'
  OBVIOUS
<1> USE DEF TypeOK
<1>1. ASSUME NEW d \in Docs, NEW stage \in {"draft", "final"}, NEW next,
             WriteDoc(d, stage, next), pc # "idle"
      PROVE  TypeOK'
  <2>1. By(gen, stage) \in Content
    BY <1>1, ContentTypes
  <2> QED BY <1>1, <2>1 DEF WriteDoc, Goto
<1>2. ASSUME NEW stage \in {"draft", "final"}, NEW next, SaveManifest(stage, next), pc # "idle"
      PROVE  TypeOK'
  <2>1. ManifestOf(stage) \in Manifests
    BY <1>2, ContentTypes
  <2> QED BY <1>2, <2>1 DEF SaveManifest, Goto
<1>3. CASE StartBuild
  BY <1>3, ConstantsAssumption DEF StartBuild, dirVars, Gens
<1>4. CASE Plan \/ Materialised \/ PruneDone \/ Sign
  BY <1>4 DEF Plan, Materialised, PruneDone, Sign, Goto, dirVars
<1>5. ASSUME NEW d \in PoolFiles, Materialise(d) \/ PruneFile(d) PROVE TypeOK'
  BY <1>5 DEF Materialise, PruneFile
<1>6. CASE Write
  <2>1. CASE SaveSignature
    <3>1. By(gen, "final") \in Content
      BY <2>1, ContentTypes DEF SaveSignature
    <3>2. [tag |-> By(gen, "final"), over |-> man] \in Signatures
      BY <3>1 DEF Signatures
    <3> QED BY <2>1, <3>2 DEF SaveSignature, Goto
  <2>2. CASE SaveDraftManifest \/ SaveFinalManifest
    BY <2>2, <1>2 DEF SaveDraftManifest, SaveFinalManifest
  <2>3. CASE ~ (SaveSignature \/ SaveDraftManifest \/ SaveFinalManifest)
    BY <1>6, <2>3, <1>1 DEF Write, WriteRepository, WriteSnapshot, WriteUnreferenced,
       SaveDraftLock, EmbedBinary, WriteDraftReadme, WriteLists, SaveLock, WriteReadme,
       WriteSBOM, WriteEvidence, Docs
  <2> QED BY <2>1, <2>2, <2>3
<1>7. CASE ExportTar
  <2>1. Dir \in Bundles
    BY DEF Dir, Bundles
  <2> QED BY <1>7, <2>1 DEF ExportTar, Goto, dirVars
<1>8. CASE Succeed
  BY <1>8 DEF Succeed, dirVars
<1>9. CASE StepFails \/ Killed \/ SigningFails
  <2>1. pc # "idle"
    BY <1>9 DEF StepFails, Killed, SigningFails
  <2>2. /\ Torn \in Content
        /\ TornManifest \in Manifests /\ NoManifest \in Manifests
        /\ TornSignature \in Signatures /\ NoSignature \in Signatures
        /\ NoDocs \in [Docs -> Content]
    BY <2>1, ContentTypes
  <2>3. pool' \subseteq PoolFiles /\ doc' \in [Docs -> Content] /\ man' \in Manifests
        /\ sig' \in Signatures
    BY <1>9, <2>2 DEF StepFails, Killed, SigningFails, Leaving, dirVars
  <2>4. End("error") \/ End("killed")
    BY <1>9 DEF StepFails, Killed, SigningFails
  <2> QED BY <2>3, <2>4 DEF End
<1>10. CASE UNCHANGED vars
  BY <1>10 DEF vars
<1> QED BY <1>3, <1>4, <1>5, <1>6, <1>7, <1>8, <1>9, <1>10 DEF Next

\* Every step keeps what the running build has finished.
LEMMA NextProgress == TypeOK /\ Progress /\ [Next]_vars => Progress'
<1> SUFFICES ASSUME TypeOK, Progress, [Next]_vars PROVE Progress'
  OBVIOUS
<1> USE DEF Progress, Steps, PastPool, PastRepo, PastSnapshot, PastUnref, PastBinary,
            PastLists, PastLock, PastReadme, PastSBOM, PastEvidence, PastManifest, Request
<1>1. CASE pc' = "idle"
  BY <1>1
<1>2. CASE StartBuild
  BY <1>2 DEF StartBuild
<1>3. CASE Plan \/ Materialised \/ PruneDone
  BY <1>3 DEF Plan, Materialised, PruneDone, Goto, dirVars
<1>4. ASSUME NEW d \in PoolFiles, Materialise(d) \/ PruneFile(d) PROVE Progress'
  BY <1>4 DEF Materialise, PruneFile, Pruned
<1>5. CASE Write
  <2> USE DEF WriteDoc, Goto, TypeOK, Docs
  <2>1. CASE WriteRepository
    BY <2>1 DEF WriteRepository
  <2>2. CASE WriteSnapshot
    BY <2>2 DEF WriteSnapshot
  <2>3. CASE WriteUnreferenced
    BY <2>3 DEF WriteUnreferenced
  <2>4. CASE SaveDraftLock
    BY <2>4 DEF SaveDraftLock
  <2>5. CASE EmbedBinary
    BY <2>5 DEF EmbedBinary
  <2>6. CASE SaveDraftManifest
    BY <2>6 DEF SaveDraftManifest, SaveManifest
  <2>7. CASE WriteDraftReadme
    BY <2>7 DEF WriteDraftReadme
  <2>8. CASE WriteLists
    BY <2>8 DEF WriteLists
  <2>9. CASE SaveLock
    BY <2>9 DEF SaveLock
  <2>10. CASE WriteReadme
    BY <2>10 DEF WriteReadme
  <2>11. CASE WriteSBOM
    BY <2>11 DEF WriteSBOM
  <2>12. CASE WriteEvidence
    BY <2>12 DEF WriteEvidence
  <2>13. CASE SaveFinalManifest
    BY <2>13 DEF SaveFinalManifest, SaveManifest, AfterDir, ManifestOf
  <2>14. CASE SaveSignature
    BY <2>14 DEF SaveSignature, AfterDir, ManifestOf
  <2> QED BY <1>5, <2>1, <2>2, <2>3, <2>4, <2>5, <2>6, <2>7, <2>8, <2>9, <2>10, <2>11,
             <2>12, <2>13, <2>14 DEF Write
<1>6. CASE Sign \/ ExportTar
  BY <1>6 DEF Sign, ExportTar, Goto, dirVars, ManifestOf
<1>7. CASE Succeed \/ StepFails \/ SigningFails \/ Killed
  BY <1>7, <1>1 DEF Succeed, StepFails, SigningFails, Killed, End
<1>8. CASE UNCHANGED vars
  BY <1>8 DEF vars, ManifestOf
<1> QED BY <1>2, <1>3, <1>4, <1>5, <1>6, <1>7, <1>8 DEF Next

\* A signature is only ever written over a finished bundle.
LEMMA NextSignature == IInv /\ [Next]_vars => SignatureInv'
<1> SUFFICES ASSUME IInv, [Next]_vars PROVE SignatureInv'
  OBVIOUS
<1> USE DEF IInv
<1>1. CASE SaveSignature
  <2>1. /\ sig' = [tag |-> By(gen, "final"), over |-> man]
        /\ signedOff' = signedOff \cup {gen}
        /\ req' = req
        /\ pc = "sig"
    BY <1>1 DEF SaveSignature, Goto
  <2>2. man = ManifestOf("final") /\ Request.sign /\ Request.sel \subseteq pool
    BY <2>1 DEF Progress, PastManifest, PastPool, PastRepo, PastSnapshot, PastUnref,
       PastBinary, PastLists, PastLock, PastReadme, PastSBOM, PastEvidence
  <2>3. man.tag.gen = gen /\ man.tag = By(gen, "final") /\ man.docs = doc /\ man.pool = pool
    BY <2>2 DEF ManifestOf, By
  <2>4. gen \in Gens /\ Request.extras \subseteq {"sbom", "bin"}
    BY <2>1, ConstantsAssumption DEF TypeOK, Request, RequestType
  <2>5. \A d \in Required \cup Request.extras : doc[d] = By(gen, "final")
    BY <2>1, <2>4 DEF Progress, Required, PastManifest, PastPool, PastRepo, PastSnapshot,
       PastUnref, PastBinary, PastLists, PastLock, PastReadme, PastSBOM, PastEvidence
  <2>6. Describes(man)
    BY <2>2, <2>3, <2>4, <2>5 DEF Describes, Request
  <2>7. sig'.over = man
    BY <2>1
  <2> QED BY <2>1, <2>3, <2>6, <2>7 DEF SignatureInv, Describes
<1>2. CASE UNCHANGED <<sig, req, signedOff>>
  BY <1>2 DEF SignatureInv, Describes
<1>3. CASE sig' \in {NoSignature, TornSignature}
  BY <1>3 DEF SignatureInv, Whole, NoSignature, TornSignature, Absent, Torn
<1>4. SaveSignature \/ UNCHANGED <<sig, req, signedOff>> \/ sig' \in {NoSignature, TornSignature}
  <2>1. CASE StartBuild \/ Plan \/ Materialised \/ PruneDone \/ Sign \/ ExportTar \/ Succeed
    BY <2>1 DEF StartBuild, Plan, Materialised, PruneDone, Sign, ExportTar, Succeed, Goto, dirVars
  <2>2. ASSUME NEW d \in PoolFiles, Materialise(d) \/ PruneFile(d)
        PROVE  UNCHANGED <<sig, req, signedOff>>
    BY <2>2 DEF Materialise, PruneFile
  <2>3. CASE Write
    BY <2>3 DEF Write, WriteRepository, WriteSnapshot, WriteUnreferenced, SaveDraftLock,
       EmbedBinary, WriteDraftReadme, WriteLists, SaveLock, WriteReadme, WriteSBOM,
       WriteEvidence, SaveDraftManifest, SaveFinalManifest, WriteDoc, SaveManifest, Goto
  <2>4. CASE StepFails \/ SigningFails \/ Killed
    BY <2>4 DEF StepFails, SigningFails, Leaving, Killed, End, dirVars
  <2>5. CASE UNCHANGED vars
    BY <2>5 DEF vars
  <2> QED BY <2>1, <2>2, <2>3, <2>4, <2>5 DEF Next
<1> QED BY <1>1, <1>2, <1>3, <1>4

\* The invariant holds for ever.
THEOREM Invariance == Spec => []IInv
<1>1. IInv /\ [Next]_vars => IInv'
  BY NextTypeOK, NextProgress, NextSignature DEF IInv
<1> QED BY InitIInv, <1>1, PTL DEF Spec

\* The directory, the archive and the running build always have their types.
THEOREM TypeCorrect == Spec => []TypeOK
<1>1. IInv => TypeOK
  BY DEF IInv
<1> QED BY Invariance, <1>1, PTL

\* Whatever was interrupted and rebuilt: what verify accepts as signed is the
\* finished bundle of a build that signed it.
THEOREM SignedIsFinished == Spec => []SignedMeansFinished
<1>1. IInv => SignedMeansFinished
  <2> SUFFICES ASSUME IInv, Accepts(Dir, TRUE, FALSE)
               PROVE  /\ IsFinishedBuild(Dir)
                      /\ req[man.tag.gen].sign
                      /\ man.tag.gen \in signedOff
    BY DEF SignedMeansFinished
  <2>1. Whole(sig.tag) /\ sig.over = man
    BY DEF Accepts, SignatureAccepted, Dir
  <2>2. Describes(man) /\ man.tag.gen \in signedOff
    BY <2>1 DEF IInv, SignatureInv
  <2>3. doc = man.docs /\ pool = man.pool
    BY DEF Accepts, FilesMatch, Dir
  <2> QED BY <2>2, <2>3 DEF Describes, IsFinishedBuild, Dir
<1> QED BY Invariance, <1>1, PTL
-----------------------------------------------------------------------------
(* The refinement of SignedBundle. *)

\* Builds sign in their order: no build has signed that comes after the running
\* one, the running one has signed only if it is past its signature, and a whole
\* signature in the directory is that of the last build that signed.
OrderInv ==
    /\ \A g \in signedOff : g <= gen
    /\ gen \in signedOff => pc \in {"tar", "done", "idle"}
    /\ Whole(sig.tag) => \A g \in signedOff : g <= sig.over.tag.gen

\* Every step other than the writing of a signature leaves the history alone, and
\* the signature too unless it goes.
LEMMA OtherSteps ==
    ASSUME [Next]_vars, ~SaveSignature
    PROVE  /\ UNCHANGED <<req, signedOff>>
           /\ sig' = sig \/ sig' \in {NoSignature, TornSignature}
<1>1. CASE StartBuild \/ Plan \/ Materialised \/ PruneDone \/ Sign \/ ExportTar \/ Succeed
  BY <1>1 DEF StartBuild, Plan, Materialised, PruneDone, Sign, ExportTar, Succeed, Goto, dirVars
<1>2. ASSUME NEW d \in PoolFiles, Materialise(d) \/ PruneFile(d)
      PROVE  UNCHANGED <<sig, req, signedOff>>
  BY <1>2 DEF Materialise, PruneFile
<1>3. CASE Write
  BY <1>3 DEF Write, WriteRepository, WriteSnapshot, WriteUnreferenced, SaveDraftLock,
     EmbedBinary, WriteDraftReadme, WriteLists, SaveLock, WriteReadme, WriteSBOM,
     WriteEvidence, SaveDraftManifest, SaveFinalManifest, WriteDoc, SaveManifest, Goto
<1>4. CASE StepFails \/ SigningFails \/ Killed
  BY <1>4 DEF StepFails, SigningFails, Leaving, Killed, End, dirVars
<1>5. CASE UNCHANGED vars
  BY <1>5 DEF vars
<1> QED BY <1>1, <1>2, <1>3, <1>4, <1>5 DEF Next

\* A running build goes on to a step before its signature, starts anew, ends, or
\* has signed.
LEMMA StepOrder ==
    ASSUME TypeOK, Progress, [Next]_vars, ~SaveSignature
    PROVE  \/ gen' = gen + 1 /\ pc = "idle"
           \/ gen' = gen /\ pc' = "idle"
           \/ gen' = gen /\ pc = "tar" /\ pc' = "done"
           \/ gen' = gen /\ pc \notin {"tar", "done", "idle"}
           \/ gen' = gen /\ pc' = pc
<1>1. CASE StartBuild \/ Plan \/ Materialised \/ PruneDone \/ Sign \/ ExportTar \/ Succeed
  BY <1>1 DEF StartBuild, Plan, Materialised, PruneDone, Sign, ExportTar, Succeed, Goto
<1>2. ASSUME NEW d \in PoolFiles, Materialise(d) \/ PruneFile(d) PROVE gen' = gen /\ pc' = pc
  BY <1>2 DEF Materialise, PruneFile
<1>3. CASE Write
  BY <1>3 DEF Write, WriteRepository, WriteSnapshot, WriteUnreferenced, SaveDraftLock,
     EmbedBinary, WriteDraftReadme, WriteLists, SaveLock, WriteReadme, WriteSBOM,
     WriteEvidence, SaveDraftManifest, SaveFinalManifest, WriteDoc, SaveManifest, Goto
<1>4. CASE StepFails \/ SigningFails \/ Killed
  BY <1>4 DEF StepFails, SigningFails, Killed, End
<1>5. CASE UNCHANGED vars
  BY <1>5 DEF vars
<1> QED BY <1>1, <1>2, <1>3, <1>4, <1>5 DEF Next

\* The order of signatures holds for ever.
LEMMA NextOrder == IInv /\ OrderInv /\ [Next]_vars => OrderInv'
<1> SUFFICES ASSUME IInv, OrderInv, [Next]_vars PROVE OrderInv'
  OBVIOUS
<1>0. gen \in Nat /\ signedOff \subseteq Nat
  BY ConstantsAssumption DEF IInv, TypeOK, Gens
<1>1. CASE SaveSignature
  <2>1. /\ sig' = [tag |-> By(gen, "final"), over |-> man]
        /\ signedOff' = signedOff \cup {gen}
        /\ gen' = gen /\ pc = "sig" /\ pc' \in {"tar", "done"}
    BY <1>1 DEF SaveSignature, Goto, AfterDir
  <2>2. man.tag.gen = gen
    BY <2>1 DEF IInv, Progress, PastManifest, ManifestOf, By
  <2>3. sig'.over.tag.gen = gen
    BY <2>1, <2>2
  <2>4. \A g \in signedOff' : g <= gen
    BY <1>0, <2>1 DEF OrderInv
  <2> QED BY <2>1, <2>3, <2>4 DEF OrderInv
<1>2. CASE ~SaveSignature
  <2>1. /\ signedOff' = signedOff
        /\ sig' = sig \/ sig' \in {NoSignature, TornSignature}
    BY <1>2, OtherSteps
  <2>2. Whole(sig'.tag) => \A g \in signedOff' : g <= sig'.over.tag.gen
    BY <2>1 DEF OrderInv, Whole, NoSignature, TornSignature, Absent, Torn
  <2>3. /\ \A g \in signedOff' : g <= gen'
        /\ gen' \in signedOff' => pc' \in {"tar", "done", "idle"}
    BY <1>0, <1>2, <2>1, StepOrder DEF IInv, OrderInv
  <2> QED BY <2>2, <2>3 DEF OrderInv
<1> QED BY <1>1, <1>2

\* From the step that writes its signature on, a build's bundle is accepted.
LEMMA SigningIssues ==
    ASSUME IInv, SaveSignature
    PROVE  Accepts(Dir, TRUE, FALSE)' /\ man'.tag.gen = gen
<1>1. /\ sig' = [tag |-> By(gen, "final"), over |-> man]
      /\ UNCHANGED <<pool, doc, man, req>> /\ pc = "sig"
  BY DEF SaveSignature, Goto
<1>2. /\ man = ManifestOf("final") /\ req[gen].sel \subseteq pool
      /\ doc["repo"] = By(gen, "final") /\ doc["lock"] = By(gen, "final")
      /\ doc["snapshot"] = By(gen, "final")
  BY <1>1 DEF IInv, Progress, Request, PastManifest, PastPool, PastRepo, PastSnapshot, PastUnref,
     PastBinary, PastLists, PastLock, PastReadme, PastSBOM, PastEvidence
<1>3. /\ man.tag = By(gen, "final") /\ man.docs = doc /\ man.pool = pool
      /\ man.lockDigest = By(gen, "final") /\ man.repoDigest = By(gen, "final")
      /\ man.snapshotDigest = By(gen, "final")
  BY <1>2 DEF ManifestOf
<1>4. /\ By(gen, "final").gen = gen /\ Whole(By(gen, "final")) /\ By(gen, "final") # Torn
  BY DEF By, Whole, Torn
<1>5. /\ Dir'.pool = pool /\ Dir'.doc = doc /\ Dir'.man = man
      /\ Dir'.sig.tag = By(gen, "final") /\ Dir'.sig.over = man
  BY <1>1 DEF Dir
<1> QED BY <1>1, <1>2, <1>3, <1>4, <1>5
        DEF Accepts, SignatureAccepted, FilesMatch, DigestsMatch, LockPackagesListed

\* For a verifier that insists on a signature, builds that write in place, fail
\* and are killed anywhere implement atomic issue and withdrawal.
THEOREM Refinement == Spec => ImplementsSignedBundle
<1> DEFINE acc == IF Accepts(Dir, TRUE, FALSE) THEN man.tag.gen ELSE 0
<1>1. Init => OrderInv
  BY ConstantsAssumption DEF Init, OrderInv, Whole, NoSignature, Absent
<1>2. Init => Abstract!Init
  <2> SUFFICES ASSUME Init PROVE Abstract!Init
    OBVIOUS
  <2>1. Dir.man.tag = Absent /\ ~Whole(Absent)
    BY DEF Init, Dir, NoManifest, Absent, Whole
  <2>2. ~Accepts(Dir, TRUE, FALSE)
    BY <2>1 DEF Accepts
  <2> QED BY <2>2 DEF Init, Abstract!Init
<1>3. IInv /\ OrderInv /\ [Next]_vars => [Abstract!Next]_<<acc, signedOff>>
  <2> SUFFICES ASSUME IInv, OrderInv, [Next]_vars
               PROVE  [Abstract!Next]_<<acc, signedOff>>
    OBVIOUS
  <2>1. CASE SaveSignature
    <3>1. acc' = gen
      BY <2>1, SigningIssues
    <3>2. gen \in Gens /\ gen \notin signedOff /\ signedOff' = signedOff \cup {gen}
      BY <2>1 DEF SaveSignature, IInv, TypeOK, OrderInv
    <3>3. gen \in Nat \ {0} /\ \A g \in signedOff : g < gen
      <4>1. \A g \in Gens : g \in Nat \ {0}
        BY ConstantsAssumption DEF Gens
      <4>2. signedOff \subseteq Gens
        BY DEF IInv, TypeOK
      <4>3. \A g \in signedOff : g <= gen
        BY DEF OrderInv
      <4> QED BY <3>2, <4>1, <4>2, <4>3
    <3> QED BY <3>1, <3>2, <3>3 DEF Abstract!Next, Abstract!Issue
  <2>2. CASE ~SaveSignature
    <3>1. signedOff' = signedOff
      BY <2>2, OtherSteps
    <3>2. IInv' /\ OrderInv'
      BY NextTypeOK, NextProgress, NextSignature, NextOrder DEF IInv
    <3>3. CASE Accepts(Dir, TRUE, FALSE)'
      <4>1. Whole(sig.tag)' /\ sig'.over = man'
        BY <3>3 DEF Accepts, SignatureAccepted, Dir
      <4>2. man'.tag.gen \in signedOff /\ \A g \in signedOff : g <= man'.tag.gen
        BY <3>1, <3>2, <4>1 DEF IInv, SignatureInv, OrderInv
      <4>3. acc' = man'.tag.gen
        BY <3>3
      <4> QED BY <3>1, <4>2, <4>3 DEF Abstract!Next, Abstract!Restore
    <3>4. CASE ~Accepts(Dir, TRUE, FALSE)'
      <4>1. acc' = 0
        BY <3>4
      <4> QED BY <3>1, <4>1 DEF Abstract!Next, Abstract!Withdraw
    <3> QED BY <3>3, <3>4
  <2> QED BY <2>1, <2>2
<1> QED BY Invariance, <1>1, NextOrder, <1>2, <1>3, PTL
        DEF Spec, ImplementsSignedBundle, Abstract!Spec

-----------------------------------------------------------------------------

(***************************************************************************)
(* The least and the greatest of a set of numbers                          *)
(***************************************************************************)
LEMMA NatLess == IsWellFoundedOn({p \in Nat \X Nat : p[1] < p[2]}, Nat)
<1>1. OpToRel(<, Nat) = {p \in Nat \X Nat : p[1] < p[2]} BY Zenon DEF OpToRel
<1> QED BY <1>1, NatLessThanWellFounded

LEMMA HasLeast ==
  ASSUME NEW S, S \subseteq Nat, S # {}
  PROVE  \E x \in S : \A y \in S : x <= y
<1>1. PICK R : R = {p \in Nat \X Nat : p[1] < p[2]} OBVIOUS
<1>2. PICK x \in S : \A y \in S : <<y, x>> \notin R BY <1>1, NatLess, WFMin
<1>3. ASSUME NEW y \in S PROVE x <= y
  <2>1. x \in Nat /\ y \in Nat /\ <<y, x>> \in Nat \X Nat OBVIOUS
  <2>2. ~(y < x) BY <1>1, <1>2, <2>1
  <2> QED BY <2>1, <2>2
<1> QED BY <1>3

LEMMA HasGreatest ==
  ASSUME NEW n \in Nat, NEW S, S \subseteq 1..n, S # {}
  PROVE  \E x \in S : \A y \in S : y <= x
<1>1. PICK T : T = {n - x : x \in S} OBVIOUS
<1>2. \A x \in S : n - x \in Nat OBVIOUS
<1>3. T \subseteq Nat /\ T # {} BY <1>1, <1>2
<1>4. PICK t \in T : \A u \in T : t <= u BY <1>3, HasLeast
<1>5. PICK x \in S : t = n - x BY <1>1
<1>6. ASSUME NEW y \in S PROVE y <= x
  <2>1. n - y \in T /\ n - x <= n - y BY <1>1, <1>4, <1>5
  <2> QED BY <2>1
<1> QED BY <1>6

(***************************************************************************)
(* Keyrings                                                                *)
(***************************************************************************)
Keyrings(ks) == Len(ks) \in Nat /\ DOMAIN ks = 1..Len(ks) /\ \A i \in DOMAIN ks : ks[i].path # Empty

LEMMA LastOfIsLast ==
  ASSUME NEW ks, Keyrings(ks), NEW S, S \subseteq DOMAIN ks, S # {}
  PROVE  LastOf(S) \in S /\ \A j \in S : j <= LastOf(S)
<1>1. \E i \in S : \A j \in S : j <= i BY HasGreatest DEF Keyrings
<1> QED BY <1>1 DEF LastOf

LEMMA KeyringAtPath ==
  ASSUME NEW ks, Keyrings(ks), NEW i \in DOMAIN ks
  PROVE  /\ KeyringAt(ks, ks[i].path) \in DOMAIN ks
         /\ ks[KeyringAt(ks, ks[i].path)].path = ks[i].path
         /\ \A j \in DOMAIN ks : ks[j].path = ks[i].path => j <= KeyringAt(ks, ks[i].path)
<1>1. PICK S : S = {j \in DOMAIN ks : ks[j].path = ks[i].path} OBVIOUS
<1>2. S \subseteq DOMAIN ks /\ S # {} BY <1>1
<1>3. PICK k : k = LastOf(S) OBVIOUS
<1>4. k \in S /\ \A j \in S : j <= k BY <1>2, <1>3, LastOfIsLast
<1>5. KeyringAt(ks, ks[i].path) = k BY <1>1, <1>3 DEF KeyringAt
<1> QED BY <1>1, <1>4, <1>5

\* The name that a path's keyring is copied to belongs to keyrings captured
\* under that path only, the last of which is the one the path means.
LEMMA NameIsOfThePath ==
  ASSUME NEW ks, Keyrings(ks), NEW i \in DOMAIN ks, NEW k, k = KeyringAt(ks, ks[i].path),
         NEW j \in DOMAIN ks, KeyringName(ks, j) = KeyringName(ks, k)
  PROVE  j <= k
<1>1. /\ k \in DOMAIN ks /\ ks[k].path = ks[i].path
      /\ \A m \in DOMAIN ks : ks[m].path = ks[i].path => m <= k
  BY KeyringAtPath
<1>2. k \in Nat /\ j \in Nat /\ k \in 1..Len(ks) /\ j \in 1..Len(ks) /\ ks[k].path # Empty /\ ks[j].path # Empty BY <1>1 DEF Keyrings
<1>3. SUFFICES ASSUME j > k PROVE FALSE BY <1>2
<1>4. PICK a : a = IF \E m \in 1..(k - 1) : ks[m].base = ks[k].base THEN ks[k].path ELSE Empty OBVIOUS
<1>5. PICK b : b = IF \E m \in 1..(j - 1) : ks[m].base = ks[j].base THEN ks[j].path ELSE Empty OBVIOUS
<1>6. KeyringName(ks, k) = <<ks[k].base, a>> /\ KeyringName(ks, j) = <<ks[j].base, b>> BY <1>4, <1>5 DEF KeyringName
<1>7. ks[k].base = ks[j].base /\ a = b BY <1>6
<1>8. k \in 1..(j - 1) BY <1>2, <1>3
<1>9. b = ks[j].path BY <1>5, <1>7, <1>8
<1>10. a = ks[k].path BY <1>2, <1>4, <1>7, <1>9
<1>11. ks[j].path = ks[i].path BY <1>1, <1>7, <1>9, <1>10
<1> QED BY <1>1, <1>2, <1>3, <1>11

LEMMA CopyIsTheKeyring ==
  ASSUME NEW ks, Keyrings(ks), NEW p \in DOMAIN KeyringDest(ks)
  PROVE  /\ KeyringAt(ks, p) \in DOMAIN ks
         /\ TrustedDir(ks)[KeyringDest(ks)[p]] = ks[KeyringAt(ks, p)].bytes
<1>1. PICK i \in DOMAIN ks : p = ks[i].path BY DEF KeyringDest
<1>2. PICK k : k = KeyringAt(ks, p) OBVIOUS
<1>3. k \in DOMAIN ks /\ ks[k].path = p BY <1>1, <1>2, KeyringAtPath
<1>4. PICK n : n = KeyringName(ks, k) OBVIOUS
<1>5. KeyringDest(ks)[p] = n BY <1>1, <1>2, <1>4 DEF KeyringDest
<1>6. PICK S : S = {j \in DOMAIN ks : KeyringName(ks, j) = n} OBVIOUS
<1>7. S \subseteq DOMAIN ks /\ k \in S BY <1>3, <1>4, <1>6
<1>8. LastOf(S) \in S /\ \A j \in S : j <= LastOf(S) BY <1>7, LastOfIsLast
<1>9. LastOf(S) <= k BY <1>1, <1>2, <1>4, <1>6, <1>8, NameIsOfThePath
<1>10. LastOf(S) = k
  <2>1. k <= LastOf(S) BY <1>7, <1>8
  <2>2. k \in Nat /\ LastOf(S) \in Nat BY <1>3, <1>7, <1>8 DEF Keyrings
  <2> QED BY <1>9, <2>1, <2>2
<1>11. TrustedDir(ks)[n] = ks[LastOf(S)].bytes BY <1>3, <1>4, <1>6 DEF TrustedDir
<1> QED BY <1>2, <1>3, <1>5, <1>10, <1>11

(***************************************************************************)
(* The document and the rules                                              *)
(***************************************************************************)
Document(d) ==
  /\ Len(d) \in Nat /\ DOMAIN d = 1..Len(d)
  /\ \A i \in DOMAIN d : ~d[i].list => d[i].words = {} \/ \E w \in d[i].words : d[i].words = {w}

\* What a document says of a field.
SaysOf(d, k) == UNION {d[i].words : i \in {j \in DOMAIN d : d[j].key = k}}

\* The rules are those of a document that debark can apply.
RulesAreOf(d, r) ==
  d # <<>> => CheckPolicyKeys(d) /\ Unmarshals(d) /\ ValidatePolicy(r) /\ r = Parsed(d)

LEMMA FieldIsOnce ==
  ASSUME NEW d, Document(d), CheckPolicyKeys(d), NEW k \in PolicyFields
  PROVE  /\ Parsed(d)[k] = SaysOf(d, k)
         /\ SaysOf(d, k) = {} \/ \E i \in DOMAIN d : d[i].key = k /\ SaysOf(d, k) = d[i].words
<1>1. PICK at : at = {i \in DOMAIN d : d[i].key = k} OBVIOUS
<1>2. Parsed(d)[k] = IF at = {} THEN {} ELSE d[CHOOSE i \in at : \A j \in at : j <= i].words
  BY <1>1 DEF Parsed
<1>3. SaysOf(d, k) = UNION {d[i].words : i \in at} BY <1>1 DEF SaysOf
<1>4. CASE at = {}
  <2>1. SaysOf(d, k) = {} BY <1>3, <1>4
  <2> QED BY <1>2, <1>4, <2>1
<1>5. ASSUME NEW i \in at PROVE /\ Parsed(d)[k] = d[i].words
                                /\ SaysOf(d, k) = d[i].words
                                /\ i \in DOMAIN d /\ d[i].key = k
  <2>1. i \in DOMAIN d /\ d[i].key = k BY <1>1
  <2>2. \A j \in at : j = i BY <1>1, <2>1 DEF CheckPolicyKeys
  <2>3. at = {i} BY <2>2
  <2>4. i <= i BY <2>1 DEF Document
  <2>5. (CHOOSE m \in at : \A j \in at : j <= m) = i BY <2>3, <2>4
  <2>6. UNION {d[m].words : m \in at} = d[i].words BY <2>3
  <2> QED BY <1>2, <1>3, <2>1, <2>3, <2>5, <2>6
<1> QED BY <1>4, <1>5

\* A field that is no list has at most one value.
LEMMA OneValue ==
  ASSUME NEW d, Document(d), CheckPolicyKeys(d), Unmarshals(d), NEW k \in PolicyFields, k \notin ListFields,
         NEW v \in SaysOf(d, k)
  PROVE  SaysOf(d, k) = {v}
<1>1. PICK i \in DOMAIN d : d[i].key = k /\ SaysOf(d, k) = d[i].words BY FieldIsOnce
<1>2. ~d[i].list /\ d[i].words # {} BY <1>1 DEF Unmarshals
<1>3. PICK w \in d[i].words : d[i].words = {w} BY <1>2 DEF Document
<1> QED BY <1>1, <1>3

(***************************************************************************)
(* The root                                                                *)
(***************************************************************************)
RootSpec(spec) ==
  /\ Keyrings(spec.keyrings)
  /\ \A f \in spec.sources : \A e \in f.entries :
       /\ Len(e.uri) \in Nat /\ e.form \in {"none", "inline", "list"}
       /\ e.form = "inline" => f.deb822

HoldsOf(spec, bytes) == UNION {spec.keyrings[i].fps : i \in {j \in DOMAIN spec.keyrings : spec.keyrings[j].bytes = bytes}}

LEMMA RootParts ==
  ASSUME NEW spec
  PROVE  /\ BuildPrivateRoot(spec).trusted = TrustedDir(spec.keyrings)
         /\ BuildPrivateRoot(spec).sources = {RewriteSignedBy(f, spec.keyrings) : f \in spec.sources}
         /\ \A f \in spec.sources : \A e \in f.entries :
              [uri |-> e.uri, trusted |-> e.trusted, pins |-> Pins(f, e, spec.keyrings)] \in BuildPrivateRoot(spec).entries
<1>1. PICK es : es = (UNION {{[uri |-> e.uri, trusted |-> e.trusted, pins |-> Pins(f, e, spec.keyrings)] : e \in f.entries} : f \in spec.sources})
                     \cup {[uri |-> u, trusted |-> TRUE, pins |-> {}] : u \in spec.extra}
  OBVIOUS
<1>2. BuildPrivateRoot(spec).entries = es BY <1>1 DEF BuildPrivateRoot
<1>3. BuildPrivateRoot(spec).trusted = TrustedDir(spec.keyrings) BY DEF BuildPrivateRoot
<1>4. BuildPrivateRoot(spec).sources = {RewriteSignedBy(f, spec.keyrings) : f \in spec.sources} BY DEF BuildPrivateRoot
<1>5. ASSUME NEW f \in spec.sources, NEW e \in f.entries
      PROVE  [uri |-> e.uri, trusted |-> e.trusted, pins |-> Pins(f, e, spec.keyrings)] \in es
  <2>1. PICK fs : fs = {[uri |-> x.uri, trusted |-> x.trusted, pins |-> Pins(f, x, spec.keyrings)] : x \in f.entries} OBVIOUS
  <2>2. [uri |-> e.uri, trusted |-> e.trusted, pins |-> Pins(f, e, spec.keyrings)] \in fs BY <2>1
  <2>3. fs \in {{[uri |-> x.uri, trusted |-> x.trusted, pins |-> Pins(g, x, spec.keyrings)] : x \in g.entries} : g \in spec.sources}
    BY Zenon, <2>1
  <2> QED BY Zenon, <1>1, <2>2, <2>3
<1> QED BY <1>2, <1>3, <1>4, <1>5

\* An index that a source trusted unsigned offers is not called signed.
LEMMA TrustedIsUnverified ==
  ASSUME NEW spec, RootSpec(spec), NEW f \in spec.sources, NEW e \in f.entries, e.trusted,
         NEW offers, e.uri \in offers
  PROVE  VerificationForIndexes(offers, BuildPrivateRoot(spec)) = "url-unverified"
<1>1. PICK en : en = [uri |-> e.uri, trusted |-> e.trusted, pins |-> Pins(f, e, spec.keyrings)] OBVIOUS
<1>2. en \in BuildPrivateRoot(spec).entries BY <1>1, RootParts
<1>3. en.trusted /\ en.uri = e.uri BY <1>1
<1>4. e.uri \in TrustedIndexPrefixes(BuildPrivateRoot(spec)) BY <1>2, <1>3 DEF TrustedIndexPrefixes
<1>5. Len(e.uri) <= Len(e.uri) BY DEF RootSpec
<1>6. IsPrefix(e.uri, e.uri) BY <1>5 DEF IsPrefix
<1> QED BY <1>4, <1>6 DEF VerificationForIndexes

\* An entry whose Signed-By every check of its file's records accepts names
\* copies that each hold an approved key.
LEMMA PinsAreApproved ==
  ASSUME NEW spec, RootSpec(spec), NEW f \in spec.sources, NEW e \in f.entries, e.form # "none", NEW keys,
         \A r \in RewriteSignedBy(f, spec.keyrings) : ~r.stripped /\ ~r.inline /\ r.fps \cap keys # {}
  PROVE  /\ Pins(f, e, spec.keyrings) # {}
         /\ \A p \in Pins(f, e, spec.keyrings) :
              \E key \in keys : key \in HoldsOf(spec, BuildPrivateRoot(spec).trusted[p.file])
<1>1. PICK ks : ks = spec.keyrings OBVIOUS
<1>2. Keyrings(ks) BY <1>1 DEF RootSpec
<1>3. PICK S : S = ToSet(e.names) OBVIOUS
<1>4. \A r \in SignedByOf(f, e, ks) : ~r.stripped /\ ~r.inline /\ r.fps \cap keys # {} BY <1>1 DEF RewriteSignedBy
<1>5. ~Inline(f, e)
  <2>1. SUFFICES ASSUME Inline(f, e) PROVE FALSE OBVIOUS
  <2>2. [orig |-> Empty, inline |-> TRUE, stripped |-> FALSE, fps |-> {}] \in SignedByOf(f, e, ks) BY <2>1 DEF SignedByOf
  <2> QED BY <1>4, <2>2
<1>6. e.form = "list" BY <1>5 DEF RootSpec, Inline
<1>7. SignedByOf(f, e, ks) = RewriteSignedByList(S, ks) BY <1>3, <1>5 DEF SignedByOf
<1>8. S # {}
  <2>1. SUFFICES ASSUME S = {} PROVE FALSE OBVIOUS
  <2>2. [orig |-> Empty, inline |-> FALSE, stripped |-> TRUE, fps |-> {}] \in RewriteSignedByList(S, ks) BY <2>1 DEF RewriteSignedByList
  <2> QED BY <1>4, <1>7, <2>2
<1>9. ASSUME NEW n \in S
      PROVE  /\ n \in KeyPaths /\ n \in DOMAIN KeyringDest(ks)
             /\ \E key \in keys : key \in ks[KeyringAt(ks, n)].fps
  <2>1. PICK F : F = IF n \in DOMAIN KeyringFingerprints(ks) THEN KeyringFingerprints(ks)[n] ELSE {} OBVIOUS
  <2>2. PICK r : r = [orig |-> IF n \in KeyPaths THEN n ELSE Empty, inline |-> n \notin KeyPaths, stripped |-> Kept(S, ks) = {}, fps |-> F] OBVIOUS
  <2>3. r \in RewriteSignedByList(S, ks) BY <1>8, <2>1, <2>2 DEF RewriteSignedByList
  <2>4. r.inline = (n \notin KeyPaths) /\ r.fps = F BY Zenon, <2>2
  <2>5. ~r.inline /\ r.fps \cap keys # {} BY <1>4, <1>7, <2>3
  <2>6. n \in KeyPaths /\ F \cap keys # {} BY <2>4, <2>5
  <2>7. n \in DOMAIN KeyringFingerprints(ks) /\ F = KeyringFingerprints(ks)[n] BY <2>1, <2>6
  <2>8. F = ks[KeyringAt(ks, n)].fps /\ n \in DOMAIN KeyringDest(ks) BY <2>7 DEF KeyringFingerprints, KeyringDest
  <2> QED BY <2>6, <2>8
<1>10. Pins(f, e, ks) = {[orig |-> n, file |-> KeyringDest(ks)[n]] : n \in Kept(S, ks) \cap KeyPaths}
  BY <1>3, <1>5, <1>6 DEF Pins
<1>11. \A n \in S : n \in Kept(S, ks) \cap KeyPaths BY <1>9 DEF Kept
<1>12. Kept(S, ks) \subseteq S BY DEF Kept
<1>13. Pins(f, e, ks) # {} BY <1>8, <1>10, <1>11
<1>14. ASSUME NEW p \in Pins(f, e, ks)
       PROVE  \E key \in keys : key \in HoldsOf(spec, TrustedDir(ks)[p.file])
  <2>1. PICK n \in S : p.file = KeyringDest(ks)[n] BY <1>10, <1>12
  <2>2. PICK k : k = KeyringAt(ks, n) OBVIOUS
  <2>3. k \in DOMAIN ks /\ TrustedDir(ks)[p.file] = ks[k].bytes BY <1>2, <1>9, <2>1, <2>2, CopyIsTheKeyring
  <2>4. PICK key \in keys : key \in ks[k].fps BY <1>9, <2>2
  <2>5. key \in HoldsOf(spec, ks[k].bytes) BY <1>1, <2>3, <2>4 DEF HoldsOf
  <2> QED BY <2>3, <2>4, <2>5
<1> QED BY <1>1, <1>13, <1>14, RootParts

(***************************************************************************)
(* A package that offends a field breaks a rule                            *)
(***************************************************************************)
KeysAreOf(given, keys) ==
  LET named == given \ {"#"} IN
  /\ given # {} => named # {} /\ \A w \in named : WellFormed(w)
  /\ keys = {Spelled[w] : w \in named}

LEMMA DocumentRules ==
  ASSUME Document(document), document # <<>>, RulesAreOf(document, rules)
  PROVE  /\ \A k \in PolicyFields : rules[k] = Says(k)
         /\ \A k \in PolicyFields : Stated(k) => rules[k] # {}
         /\ \A k \in PolicyFields \ ListFields : \A v \in Says(k) : rules[k] = {v}
<1>1. CheckPolicyKeys(document) /\ Unmarshals(document) /\ rules = Parsed(document) BY DEF RulesAreOf
<1>2. \A k : Says(k) = SaysOf(document, k) BY DEF Says, SaysOf
<1>3. \A k \in PolicyFields : rules[k] = Says(k) BY <1>1, <1>2, FieldIsOnce
<1>4. ASSUME NEW k \in PolicyFields, Stated(k) PROVE Says(k) # {}
  <2>1. PICK i \in DOMAIN document : document[i].key = k /\ document[i].words # {} BY <1>4 DEF Stated
  <2>2. PICK w : w \in document[i].words BY <2>1
  <2>3. w \in Says(k) BY <2>1, <2>2 DEF Says
  <2> QED BY <2>3
<1>5. ASSUME NEW k \in PolicyFields \ ListFields, NEW v \in Says(k) PROVE Says(k) = {v}
  BY <1>1, <1>2, OneValue
<1> QED BY <1>3, <1>4, <1>5

LEMMA OffenceIsFound ==
  ASSUME Document(document), document # <<>>, RulesAreOf(document, rules), KeysAreOf(keyFile, approved),
         RootSpec(snapshot), root = BuildPrivateRoot(snapshot),
         NEW s, s.external => s.scheme = "file" \/ FoldCase(s.scheme) \in {"http", "https"}, Offends(s)
  PROVE  \E r \in Breaks(s) : TRUE
<1>1. /\ \A k \in PolicyFields : rules[k] = Says(k)
      /\ \A k \in PolicyFields : Stated(k) => rules[k] # {}
      /\ \A k \in PolicyFields \ ListFields : \A v \in Says(k) : rules[k] = {v}
  BY DocumentRules
<1>2. ListFields \subseteq PolicyFields /\ {"require_signed_publisher", "allow_url_inputs"} \subseteq PolicyFields \ ListFields
  BY DEF PolicyFields, ListFields, BoolFields
<1>3. CASE \E w \in Says("deny_components") : FoldCase(w) = FoldCase(ComponentOf(s)) /\ ComponentOf(s) # Empty
  <2>1. MatchesAnyFold(rules["deny_components"], ComponentOf(s)) BY <1>1, <1>2, <1>3 DEF MatchesAnyFold, ListFields
  <2>2. "component-deny" \in Breaks(s) BY <1>3, <2>1 DEF Breaks
  <2> QED BY <2>2
<1>4. CASE Stated("allow_components") /\ ~\E w \in Says("allow_components") : FoldCase(w) = FoldCase(ComponentOf(s))
  <2>1. rules["allow_components"] # {} /\ ~MatchesAnyFold(rules["allow_components"], ComponentOf(s))
    BY <1>1, <1>2, <1>4 DEF MatchesAnyFold, ListFields
  <2>2. "component-allow" \in Breaks(s) BY <2>1 DEF Breaks
  <2> QED BY <2>2
<1>5. CASE \E w \in Says("deny_packages") : w \in DOMAIN Globs /\ s.name \in Globs[w]
  <2>1. GlobMatchesAny(rules["deny_packages"], s.name) BY <1>1, <1>2, <1>5 DEF GlobMatchesAny, ListFields
  <2>2. "package-deny" \in Breaks(s) BY <2>1 DEF Breaks
  <2> QED BY <2>2
<1>6. CASE Stated("allow_packages") /\ ~\E w \in Says("allow_packages") : w \in DOMAIN Globs /\ s.name \in Globs[w]
  <2>1. rules["allow_packages"] # {} /\ ~GlobMatchesAny(rules["allow_packages"], s.name)
    BY <1>1, <1>2, <1>6 DEF GlobMatchesAny, ListFields
  <2>2. "package-allow" \in Breaks(s) BY <2>1 DEF Breaks
  <2> QED BY <2>2
<1>7. CASE "true" \in Says("require_signed_publisher") /\ Unsigned(s)
  <2>1. rules["require_signed_publisher"] = {"true"} BY <1>1, <1>2, <1>7
  <2>2. PublisherVerification(s) \notin SignedPublisherClaim
    <3>1. CASE s.external BY <1>7, <3>1 DEF Unsigned, PublisherVerification
    <3>2. CASE ~s.external
      <4>1. PICK f \in snapshot.sources : \E e \in f.entries : e.trusted /\ e.uri \in s.offers BY <1>7, <3>2 DEF Unsigned
      <4>2. PICK e \in f.entries : e.trusted /\ e.uri \in s.offers BY <4>1
      <4>3. VerificationForIndexes(s.offers, root) = "url-unverified" BY <4>2, TrustedIsUnverified
      <4>4. PublisherVerification(s) = VerificationForIndexes(s.offers, root) BY <3>2 DEF PublisherVerification
      <4> QED BY <4>3, <4>4 DEF SignedPublisherClaim
    <3> QED BY <3>1, <3>2
  <2>3. "require-signed-publisher" \in Breaks(s) BY <2>1, <2>2 DEF Breaks
  <2> QED BY <2>3
<1>8. CASE "false" \in Says("allow_url_inputs") /\ s.external /\ s.scheme # "file"
  <2>1. rules["allow_url_inputs"] = {"false"} BY <1>1, <1>2, <1>8
  <2>2. FromURL(s) BY <1>8 DEF FromURL
  <2>3. "allow-url-inputs" \in Breaks(s) BY <2>1, <2>2 DEF Breaks
  <2> QED BY <2>3
<1>9. CASE \E w \in Says("deny_flags"), f \in s.flags : FoldCase(w) = FoldCase(f)
  <2>1. \E f \in s.flags : MatchesAnyFold(rules["deny_flags"], f) BY <1>1, <1>2, <1>9 DEF MatchesAnyFold, ListFields
  <2>2. "deny-flags" \in Breaks(s) BY <2>1 DEF Breaks
  <2> QED BY <2>2
<1>10. CASE Stated("approved_keys") /\ ~\E w \in Says("approved_keys") \cup keyFile : Claims(s, w)
  <2>1. rules["approved_keys"] # {} /\ rules["approved_keys"] = Says("approved_keys") BY <1>1, <1>2, <1>10 DEF ListFields
  <2>2. KeysSupplied BY <2>1 DEF KeysSupplied
  <2>3. SUFFICES ASSUME WellFormed(s.fp), Spelled[s.fp] \in ApprovedKeySet PROVE FALSE
    <3>1. KeyRefused(s) => "approved-keys" \in Breaks(s) BY DEF Breaks
    <3> QED BY <2>2, <3>1 DEF KeyRefused
  <2>4. PICK w \in Says("approved_keys") \cup keyFile : WellFormed(w) /\ Spelled[w] = Spelled[s.fp]
    <3>1. CASE Spelled[s.fp] \in approved
      <4>1. PICK w \in keyFile \ {"#"} : Spelled[w] = Spelled[s.fp] BY <3>1 DEF KeysAreOf
      <4>2. WellFormed(w) BY <4>1 DEF KeysAreOf
      <4> QED BY <4>1, <4>2
    <3>2. CASE Spelled[s.fp] \in {Spelled[w] : w \in {v \in rules["approved_keys"] : WellFormed(v)}} BY <2>1, <3>2
    <3> QED BY <2>3, <3>1, <3>2 DEF ApprovedKeySet
  <2>5. Claims(s, w) BY <2>3, <2>4 DEF Claims
  <2> QED BY <1>10, <2>4, <2>5
<1> QED BY <1>3, <1>4, <1>5, <1>6, <1>7, <1>8, <1>9, <1>10 DEF Offends

(***************************************************************************)
(* The invariant                                                           *)
(***************************************************************************)
PolicyInputs ==
  /\ document \in Documents /\ plan \in Plans /\ snapshot \in RootSpecs
  /\ root \in {NoRoot, BuildPrivateRoot(snapshot)}
  /\ step \in {"load", "keys", "resolve", "evaluate", "accepted", "usage", "policy", "environment"}
PolicyRules == step \in {"keys", "resolve", "evaluate", "accepted"} => RulesAreOf(document, rules)
PolicyKeys == step \in {"resolve", "evaluate", "accepted"} => KeysAreOf(keyFile, approved)
PolicyRoot == step \in {"evaluate", "accepted"} => root = BuildPrivateRoot(snapshot) /\ CheckApprovedKeys(root.sources)
PolicyVerdict ==
  step = "accepted" => (Severity = "deny" => Findings = {}) /\ (Severity = "warn" => warnings = Findings)
PolicyInv == PolicyInputs /\ PolicyRules /\ PolicyKeys /\ PolicyRoot /\ PolicyVerdict

LEMMA InputsAreKnown ==
  ASSUME PolicyInputs
  PROVE  /\ Document(document) /\ RootSpec(snapshot)
         /\ \A s \in plan : s.external => s.scheme = "file" \/ FoldCase(s.scheme) \in {"http", "https"}
<1>1. document \in Documents /\ plan \in Plans /\ snapshot \in RootSpecs BY DEF PolicyInputs
<1>2. Document(document) BY <1>1, PolicyAssumption DEF Document
<1>3. Keyrings(snapshot.keyrings) BY <1>1, PolicyAssumption DEF Keyrings
<1>4. \A f \in snapshot.sources : \A e \in f.entries :
        /\ Len(e.uri) \in Nat /\ e.form \in {"none", "inline", "list"}
        /\ e.form = "inline" => f.deb822
  BY <1>1, PolicyAssumption
<1>5. \A s \in plan : s.external => s.scheme = "file" \/ FoldCase(s.scheme) \in {"http", "https"} BY <1>1, PolicyAssumption
<1> QED BY <1>2, <1>3, <1>4, <1>5 DEF RootSpec

LEMMA EmptyIsNoSeverity == "warn" # Empty /\ "deny" # Empty
BY Zenon DEF Empty

LEMMA FieldsAndSeverity ==
  ASSUME Document(document), RulesAreOf(document, rules), PolicyVerdict, step = "accepted"
  PROVE  /\ \A i \in DOMAIN document : document[i].key \in PolicyFields
         /\ Says("default_severity") \subseteq {Empty, "info", "warn", "deny"}
         /\ document # <<>> => /\ "deny" \in Says("default_severity") => Findings = {}
                               /\ Says("default_severity") # {"info"} => "deny" \in Says("default_severity") \/ warnings = Findings
<1>1. CASE document = <<>> BY <1>1 DEF Says
<1>2. CASE document # <<>>
  <2>1. CheckPolicyKeys(document) /\ ValidatePolicy(rules) BY <1>2 DEF RulesAreOf
  <2>2. "default_severity" \in PolicyFields \ ListFields BY DEF PolicyFields, ListFields, BoolFields
  <2>3. /\ rules["default_severity"] = Says("default_severity")
        /\ \A v \in Says("default_severity") : rules["default_severity"] = {v}
    BY <1>2, <2>2, DocumentRules
  <2>4. Says("default_severity") \subseteq {Empty, "info", "warn", "deny"} BY <2>1, <2>3 DEF ValidatePolicy
  <2>5. "deny" \in Says("default_severity") => Severity = "deny"
    <3>1. HAVE "deny" \in Says("default_severity")
    <3>2. rules["default_severity"] = {"deny"} BY <2>3, <3>1
    <3> QED BY <3>2, EmptyIsNoSeverity DEF Severity
  <2>6. Says("default_severity") # {"info"} /\ "deny" \notin Says("default_severity") => Severity = "warn"
    <3>1. HAVE Says("default_severity") # {"info"} /\ "deny" \notin Says("default_severity")
    <3>2. CASE rules["default_severity"] \subseteq {Empty} BY <3>2 DEF Severity
    <3>3. CASE ~(rules["default_severity"] \subseteq {Empty})
      <4>1. PICK v \in Says("default_severity") : rules["default_severity"] = {v} BY <2>3, <3>3
      <4>2. v # Empty BY <3>3, <4>1
      <4>3. v = "warn" BY <2>3, <2>4, <3>1, <4>1, <4>2
      <4> QED BY <4>1, <4>3, EmptyIsNoSeverity DEF Severity
    <3> QED BY <3>2, <3>3
  <2>7. \A i \in DOMAIN document : document[i].key \in PolicyFields BY <2>1 DEF CheckPolicyKeys
  <2> QED BY <2>4, <2>5, <2>6, <2>7 DEF PolicyVerdict
<1> QED BY <1>1, <1>2

LEMMA SourcesAreApproved ==
  ASSUME RootSpec(snapshot), KeysAreOf(keyFile, approved), root = BuildPrivateRoot(snapshot), CheckApprovedKeys(root.sources),
         keyFile # {}
  PROVE  SourcesHold(keyFile)
<1> SUFFICES ASSUME NEW f \in snapshot.sources
             PROVE  /\ \E e \in f.entries : e.form # "none"
                    /\ \A e \in f.entries : e.form # "none" =>
                         LET pins == Pins(f, e, snapshot.keyrings) IN
                         pins # {} /\ \A p \in pins : \E w \in keyFile : WellFormed(w) /\ Spelled[w] \in KeysIn(root.trusted[p.file])
  BY DEF SourcesHold
<1>1. PICK w0 \in keyFile \ {"#"} : TRUE BY DEF KeysAreOf
<1>2. approved # {} BY <1>1 DEF KeysAreOf
<1>3. RewriteSignedBy(f, snapshot.keyrings) \in root.sources BY RootParts
<1>4. SourceApproved(RewriteSignedBy(f, snapshot.keyrings)) BY <1>2, <1>3 DEF CheckApprovedKeys
<1>5. \E e \in f.entries : e.form # "none"
  <2>1. PICK r \in RewriteSignedBy(f, snapshot.keyrings) : TRUE BY <1>4 DEF SourceApproved
  <2>2. PICK e \in f.entries : r \in SignedByOf(f, e, snapshot.keyrings) BY <2>1 DEF RewriteSignedBy
  <2>3. e.form # "none" BY <2>2 DEF SignedByOf
  <2> QED BY <2>3
<1>6. ASSUME NEW e \in f.entries, e.form # "none"
      PROVE  /\ Pins(f, e, snapshot.keyrings) # {}
             /\ \A p \in Pins(f, e, snapshot.keyrings) : \E w \in keyFile : WellFormed(w) /\ Spelled[w] \in KeysIn(root.trusted[p.file])
  <2>1. \A r \in RewriteSignedBy(f, snapshot.keyrings) : ~r.stripped /\ ~r.inline /\ r.fps \cap approved # {}
    BY <1>4 DEF SourceApproved
  <2>2. /\ Pins(f, e, snapshot.keyrings) # {}
        /\ \A p \in Pins(f, e, snapshot.keyrings) : \E key \in approved : key \in HoldsOf(snapshot, root.trusted[p.file])
    BY <1>6, <2>1, PinsAreApproved
  <2>3. \A bytes : KeysIn(bytes) = HoldsOf(snapshot, bytes) BY DEF KeysIn, HoldsOf
  <2>4. \A key \in approved : \E w \in keyFile : WellFormed(w) /\ Spelled[w] = key BY DEF KeysAreOf
  <2> QED BY <2>2, <2>3, <2>4
<1> QED BY <1>5, <1>6

LEMMA AppliedByInv ==
  ASSUME PolicyInv
  PROVE  PolicyIsApplied
<1>1. SUFFICES ASSUME step = "accepted"
      PROVE  /\ \A i \in DOMAIN document : document[i].key \in PolicyFields
             /\ Says("default_severity") \subseteq {Empty, "info", "warn", "deny"}
             /\ \A s \in plan :
                  document # <<>> /\ Offends(s) =>
                      /\ "deny" \notin Says("default_severity")
                      /\ Says("default_severity") # {"info"} => \E f \in warnings : f.name = s.name
             /\ keyFile # {} => SourcesHold(keyFile)
  BY DEF PolicyIsApplied
<1>2. /\ Document(document) /\ RootSpec(snapshot)
      /\ \A s \in plan : s.external => s.scheme = "file" \/ FoldCase(s.scheme) \in {"http", "https"}
  BY InputsAreKnown DEF PolicyInv
<1>3. /\ RulesAreOf(document, rules) /\ KeysAreOf(keyFile, approved)
      /\ root = BuildPrivateRoot(snapshot) /\ CheckApprovedKeys(root.sources) /\ PolicyVerdict
  BY <1>1 DEF PolicyInv, PolicyRules, PolicyKeys, PolicyRoot
<1>4. /\ \A i \in DOMAIN document : document[i].key \in PolicyFields
      /\ Says("default_severity") \subseteq {Empty, "info", "warn", "deny"}
      /\ document # <<>> => /\ "deny" \in Says("default_severity") => Findings = {}
                            /\ Says("default_severity") # {"info"} => "deny" \in Says("default_severity") \/ warnings = Findings
  BY <1>1, <1>2, <1>3, FieldsAndSeverity
<1>5. ASSUME NEW s \in plan, document # <<>>, Offends(s)
      PROVE  \E f \in Findings : f.name = s.name
  <2>1. PICK r \in Breaks(s) : TRUE BY <1>2, <1>3, <1>5, OffenceIsFound
  <2>2. PICK f : f = [rule |-> r, name |-> s.name] OBVIOUS
  <2>3. PICK F : F = {[rule |-> x, name |-> s.name] : x \in Breaks(s)} OBVIOUS
  <2>4. f \in F /\ f.name = s.name BY <2>1, <2>2, <2>3
  <2>5. F \in {{[rule |-> x, name |-> t.name] : x \in Breaks(t)} : t \in plan} BY Zenon, <1>5, <2>3
  <2>6. f \in Findings BY Zenon, <1>5, <2>4, <2>5 DEF Findings
  <2> QED BY <2>4, <2>6
<1>6. \A s \in plan :
        document # <<>> /\ Offends(s) =>
            /\ "deny" \notin Says("default_severity")
            /\ Says("default_severity") # {"info"} => \E f \in warnings : f.name = s.name
  BY <1>4, <1>5
<1>7. keyFile # {} => SourcesHold(keyFile)
  BY <1>2, <1>3, SourcesAreApproved
<1> QED BY <1>4, <1>6, <1>7

LEMMA PolicyInit_Inv ==
  ASSUME PolicyInit
  PROVE  PolicyInv
BY DEF PolicyInit, PolicyInv, PolicyInputs, PolicyRules, PolicyKeys, PolicyRoot, PolicyVerdict

\* What is found depends on nothing but what was read and made.
LEMMA SameFindings ==
  ASSUME UNCHANGED <<document, plan, root, rules, approved>>
  PROVE  Findings' = Findings /\ Severity' = Severity
<1>1. \A s : PublisherVerification(s)' = PublisherVerification(s) BY DEF PublisherVerification
<1>2. \A s : KeyRefused(s)' = KeyRefused(s)
  <2>1. ApprovedKeySet' = ApprovedKeySet BY DEF ApprovedKeySet
  <2> QED BY <2>1 DEF KeyRefused, KeysSupplied
<1>3. ASSUME NEW s PROVE Breaks(s)' = Breaks(s)
  BY <1>1, <1>2 DEF Breaks
<1>4. Findings' = Findings
  <2>1. \A s : {[rule |-> r, name |-> s.name] : r \in Breaks(s)}' = {[rule |-> r, name |-> s.name] : r \in Breaks(s)} BY <1>3
  <2>2. plan' = plan /\ document' = document OBVIOUS
  <2>3. UNION {{[rule |-> r, name |-> s.name] : r \in Breaks(s)} : s \in plan}' = UNION {{[rule |-> r, name |-> s.name] : r \in Breaks(s)} : s \in plan}
    BY <2>1, <2>2
  <2> QED BY <2>2, <2>3 DEF Findings
<1>5. Severity' = Severity BY DEF Severity
<1> QED BY <1>4, <1>5

LEMMA LoadStep ==
  ASSUME PolicyInv, LoadPolicy
  PROVE  PolicyInv'
<1>1. PolicyInputs' BY DEF PolicyInv, PolicyInputs, LoadPolicy
<1>2. step' \in {"keys", "usage"} BY DEF LoadPolicy
<1>3. step' = "keys" => RulesAreOf(document', rules') BY DEF LoadPolicy, RulesAreOf
<1> QED BY <1>1, <1>2, <1>3 DEF PolicyInv, PolicyRules, PolicyKeys, PolicyRoot, PolicyVerdict

LEMMA KeysStep ==
  ASSUME PolicyInv, LoadApprovedKeys
  PROVE  PolicyInv'
<1>1. PolicyInputs' BY DEF PolicyInv, PolicyInputs, LoadApprovedKeys
<1>2. step = "keys" /\ step' \in {"resolve", "usage"} /\ document' = document /\ rules' = rules /\ keyFile' = keyFile BY DEF LoadApprovedKeys
<1>3. RulesAreOf(document', rules') BY <1>2 DEF PolicyInv, PolicyRules
<1>4. step' = "resolve" => KeysAreOf(keyFile', approved') BY <1>2 DEF LoadApprovedKeys, KeysAreOf
<1> QED BY <1>1, <1>2, <1>3, <1>4 DEF PolicyInv, PolicyRules, PolicyKeys, PolicyRoot, PolicyVerdict

LEMMA MakeRootStep ==
  ASSUME PolicyInv, MakeRoot
  PROVE  PolicyInv'
<1>1. PolicyInputs' BY DEF PolicyInv, PolicyInputs, MakeRoot
<1>2. /\ step = "resolve" /\ step' \in {"environment", "usage", "evaluate", "policy"}
      /\ UNCHANGED <<document, keyFile, snapshot, rules, approved>>
  BY DEF MakeRoot
<1>3. RulesAreOf(document', rules') BY <1>2 DEF PolicyInv, PolicyRules
<1>4. KeysAreOf(keyFile', approved') BY <1>2 DEF PolicyInv, PolicyKeys
<1>5. step' = "evaluate" => root' = BuildPrivateRoot(snapshot') /\ CheckApprovedKeys(root.sources)'
  <2>1. HAVE step' = "evaluate"
  <2>2. root' = BuildPrivateRoot(snapshot) /\ CheckApprovedKeys(root'.sources) BY <2>1 DEF MakeRoot
  <2> QED BY <1>2, <2>2 DEF CheckApprovedKeys, SourceApproved
<1> QED BY <1>1, <1>2, <1>3, <1>4, <1>5 DEF PolicyInv, PolicyRules, PolicyKeys, PolicyRoot, PolicyVerdict

LEMMA EvaluateStep ==
  ASSUME PolicyInv, EvaluatePolicy
  PROVE  PolicyInv'
<1>1. PolicyInputs' BY DEF PolicyInv, PolicyInputs, EvaluatePolicy
<1>2. /\ step = "evaluate" /\ step' \in {"policy", "accepted"}
      /\ UNCHANGED <<document, keyFile, plan, snapshot, root, rules, approved>>
  BY DEF EvaluatePolicy
<1>3. RulesAreOf(document', rules') BY <1>2 DEF PolicyInv, PolicyRules
<1>4. KeysAreOf(keyFile', approved') BY <1>2 DEF PolicyInv, PolicyKeys
<1>5. PolicyRoot' BY <1>2 DEF PolicyInv, PolicyRoot, CheckApprovedKeys, SourceApproved
<1>6. PolicyVerdict'
  <2>1. Findings' = Findings /\ Severity' = Severity BY <1>2, SameFindings
  <2>2. step' = "accepted" => ~(Severity = "deny" /\ Findings # {}) BY DEF EvaluatePolicy
  <2>3. Severity = "warn" => warnings' = Findings BY DEF EvaluatePolicy
  <2> QED BY <2>1, <2>2, <2>3 DEF PolicyVerdict
<1> QED BY <1>1, <1>2, <1>3, <1>4, <1>5, <1>6 DEF PolicyInv, PolicyRules, PolicyKeys

LEMMA PolicyStep ==
  ASSUME PolicyInv, [PolicyNext]_pvars
  PROVE  PolicyInv'
<1>1. CASE UNCHANGED pvars
  <2>1. UNCHANGED <<document, keyFile, plan, snapshot, root, step, rules, approved, warnings>> BY <1>1 DEF pvars
  <2>2. Findings' = Findings /\ Severity' = Severity BY <2>1, SameFindings
  <2>3. PolicyVerdict' BY <2>1, <2>2 DEF PolicyInv, PolicyVerdict
  <2>4. PolicyInputs' /\ PolicyRules' /\ PolicyKeys' BY <2>1 DEF PolicyInv, PolicyInputs, PolicyRules, PolicyKeys
  <2>5. PolicyRoot' BY <2>1 DEF PolicyInv, PolicyRoot, CheckApprovedKeys, SourceApproved
  <2> QED BY <2>3, <2>4, <2>5 DEF PolicyInv
<1> QED BY <1>1, LoadStep, KeysStep, MakeRootStep, EvaluateStep DEF PolicyNext

(* A build that a policy or a list of approved keys governs goes on only      *)
(* under all of it (validate.go: a file that cannot be applied exactly as     *)
(* written fails; evaluator.go; root.go checkApprovedKeys), whatever the      *)
(* file, the plan and the snapshot.                                           *)
THEOREM PolicyGoverns == PolicySpec => []PolicyIsApplied
<1>1. PolicyInit => PolicyInv BY PolicyInit_Inv
<1>2. PolicyInv /\ [PolicyNext]_pvars => PolicyInv' BY PolicyStep
<1>3. PolicyInv => PolicyIsApplied BY AppliedByInv
<1> QED BY <1>1, <1>2, <1>3, PTL DEF PolicySpec

(***************************************************************************)
(* The root and the snapshot                                               *)
(***************************************************************************)

(* FlattenSeq, step by step. *)
Joined(seqs, g) == \A i \in DOMAIN g : g[i] = IF i = 1 THEN seqs[i] ELSE g[i - 1] \o seqs[i]

LEMMA JoinedExists ==
  ASSUME NEW S, NEW seqs \in Seq(Seq(S))
  PROVE  \A k \in 1..Len(seqs) : \E g \in [1..k -> Seq(S)] : Joined(seqs, g)
<1> DEFINE Bad == {k \in 1..Len(seqs) : ~\E g \in [1..k -> Seq(S)] : Joined(seqs, g)}
<1>1. SUFFICES ASSUME Bad # {} PROVE FALSE OBVIOUS
<1>2. PICK B : B = Bad OBVIOUS
<1>3. B \subseteq Nat /\ B # {} BY <1>1, <1>2
<1>4. PICK k \in B : \A j \in B : k <= j BY <1>3, HasLeast
<1>5. k \in 1..Len(seqs) /\ ~\E g \in [1..k -> Seq(S)] : Joined(seqs, g) BY <1>2, <1>4
<1>6. seqs[k] \in Seq(S) BY <1>5
<1>7. CASE k = 1
  <2>1. PICK g : g = [i \in 1..1 |-> seqs[1]] OBVIOUS
  <2>2. g \in [1..k -> Seq(S)] BY <1>6, <1>7, <2>1
  <2>3. Joined(seqs, g) BY <2>1 DEF Joined
  <2> QED BY <1>5, <2>2, <2>3
<1>8. CASE k # 1
  <2>1. k - 1 \in 1..Len(seqs) /\ ~(k <= k - 1) BY <1>5, <1>8
  <2>2. k - 1 \in 1..Len(seqs) /\ k - 1 \notin Bad BY <1>2, <1>4, <2>1
  <2>3. PICK g \in [1..(k - 1) -> Seq(S)] : Joined(seqs, g) BY <2>2
  <2>4. PICK h : h = [i \in 1..k |-> IF i = k THEN g[k - 1] \o seqs[k] ELSE g[i]] OBVIOUS
  <2>5. g[k - 1] \o seqs[k] \in Seq(S) BY <1>5, <1>6, <1>8, <2>3
  <2>6. h \in [1..k -> Seq(S)] BY <1>5, <2>3, <2>4, <2>5
  <2>7. ASSUME NEW i \in 1..k PROVE h[i] = IF i = 1 THEN seqs[i] ELSE h[i - 1] \o seqs[i]
    <3>1. CASE i = k
      <4>1. h[i] = g[k - 1] \o seqs[k] BY <2>4, <3>1
      <4>2. k - 1 \in 1..k /\ k - 1 # k BY <1>5, <1>8
      <4>3. h[k - 1] = g[k - 1] BY <2>4, <4>2
      <4> QED BY <1>8, <3>1, <4>1, <4>3
    <3>2. CASE i # k
      <4>1. i \in 1..(k - 1) /\ h[i] = g[i] BY <1>5, <2>4, <3>2
      <4>2. g[i] = IF i = 1 THEN seqs[i] ELSE g[i - 1] \o seqs[i] BY <2>3, <4>1 DEF Joined
      <4>3. i # 1 => h[i - 1] = g[i - 1] BY <1>5, <2>4, <4>1
      <4> QED BY <4>1, <4>2, <4>3
    <3> QED BY <3>1, <3>2
  <2>8. Joined(seqs, h) BY <2>6, <2>7 DEF Joined
  <2> QED BY <1>5, <2>6, <2>8
<1> QED BY <1>7, <1>8

LEMMA JoinedOnce ==
  ASSUME NEW seqs, NEW n \in Nat, NEW m \in 1..n, NEW g, NEW h, DOMAIN g = 1..n, DOMAIN h = 1..m, Joined(seqs, g), Joined(seqs, h)
  PROVE  \A x \in 1..m : g[x] = h[x]
<1>1. PICK Bad : Bad = {i \in 1..m : g[i] # h[i]} OBVIOUS
<1>2. SUFFICES ASSUME Bad # {} PROVE FALSE BY <1>1
<1>3. Bad \subseteq Nat BY <1>1
<1>4. PICK k \in Bad : \A j \in Bad : k <= j BY <1>2, <1>3, HasLeast
<1>5. k \in 1..m /\ k \in 1..n /\ g[k] # h[k] BY <1>1
<1>6. g[k] = (IF k = 1 THEN seqs[k] ELSE g[k - 1] \o seqs[k]) /\ h[k] = (IF k = 1 THEN seqs[k] ELSE h[k - 1] \o seqs[k]) BY <1>5 DEF Joined
<1>7. k # 1 BY <1>5, <1>6
<1>8. k - 1 \in 1..m /\ ~(k <= k - 1) BY <1>5, <1>7
<1>9. k - 1 \in 1..m /\ k - 1 \notin Bad BY <1>4, <1>8
<1> QED BY <1>1, <1>5, <1>6, <1>7, <1>9

LEMMA FlattenIsJoined ==
  ASSUME NEW S, NEW seqs \in Seq(Seq(S)), Len(seqs) # 0
  PROVE  \E g \in [1..Len(seqs) -> Seq(S)] : Joined(seqs, g) /\ FlattenSeq(seqs) = g[Len(seqs)]
<1>1. PICK n : n = Len(seqs) OBVIOUS
<1>2. n \in Nat /\ n \in 1..n BY <1>1
<1>3. PICK g \in [1..n -> Seq(S)] : Joined(seqs, g) BY <1>1, <1>2, JoinedExists
<1> DEFINE fl == CHOOSE f : f = [i \in 1..Len(seqs) |-> IF i = 1 THEN seqs[i] ELSE f[i - 1] \o seqs[i]]
<1>4. g = [i \in 1..Len(seqs) |-> IF i = 1 THEN seqs[i] ELSE g[i - 1] \o seqs[i]] BY <1>1, <1>3 DEF Joined
<1>5. fl = [i \in 1..Len(seqs) |-> IF i = 1 THEN seqs[i] ELSE fl[i - 1] \o seqs[i]] BY <1>4
<1>6. FlattenSeq(seqs) = fl[Len(seqs)] BY DEF FlattenSeq
<1> HIDE DEF fl
<1>7. Joined(seqs, fl) /\ DOMAIN fl = 1..n BY <1>1, <1>5 DEF Joined
<1>8. \A i \in 1..n : g[i] = fl[i] BY <1>2, <1>3, <1>7, JoinedOnce
<1> QED BY <1>1, <1>2, <1>3, <1>6, <1>8

(* A flattened prefix is a prefix of the whole. *)
LEMMA FlattenOfPrefix ==
  ASSUME NEW S, NEW seqs \in Seq(Seq(S)), NEW i \in 1..Len(seqs)
  PROVE  /\ FlattenSeq(seqs) \in Seq(S) /\ FlattenSeq(SubSeq(seqs, 1, i)) \in Seq(S)
         /\ IsPrefix(FlattenSeq(SubSeq(seqs, 1, i)), FlattenSeq(seqs))
<1>1. PICK n : n = Len(seqs) OBVIOUS
<1>2. n \in Nat /\ i \in 1..n BY <1>1
<1>3. PICK g \in [1..n -> Seq(S)] : Joined(seqs, g) /\ FlattenSeq(seqs) = g[n] BY <1>1, <1>2, FlattenIsJoined
<1>4. PICK t : t = SubSeq(seqs, 1, i) OBVIOUS
<1>5. t \in Seq(Seq(S)) /\ Len(t) = i /\ i # 0 /\ i \in 1..i /\ \A j \in 1..i : t[j] = seqs[j] BY <1>1, <1>2, <1>4
<1>6. PICK h \in [1..i -> Seq(S)] : Joined(t, h) /\ FlattenSeq(t) = h[i] BY <1>2, <1>5, FlattenIsJoined
<1>7. Joined(seqs, h) BY <1>5, <1>6 DEF Joined
<1>8. DOMAIN g = 1..n /\ DOMAIN h = 1..i /\ Joined(seqs, g) BY <1>3, <1>6
<1>9. PICK gg, hh, m, sq, nn : gg = g /\ hh = h /\ m = i /\ sq = seqs /\ nn = n OBVIOUS
<1>10. nn \in Nat /\ m \in 1..nn /\ DOMAIN gg = 1..nn /\ DOMAIN hh = 1..m /\ Joined(sq, gg) /\ Joined(sq, hh) BY <1>2, <1>7, <1>9, <1>8
<1>11. \A x \in 1..m : gg[x] = hh[x] BY <1>10, JoinedOnce
<1>12. \A j \in 1..i : g[j] = h[j] BY <1>11, <1>9
<1>13. g[i] = h[i] BY Zenon, <1>5, <1>12
<1>14. PICK Bad : Bad = {j \in i..n : ~IsPrefix(g[i], g[j])} OBVIOUS
<1>15. Bad = {}
  <2>1. SUFFICES ASSUME Bad # {} PROVE FALSE OBVIOUS
  <2>2. Bad \subseteq Nat BY <1>2, <1>14
  <2>3. PICK k \in Bad : \A j \in Bad : k <= j BY <2>1, <2>2, HasLeast
  <2>4. k \in i..n /\ ~IsPrefix(g[i], g[k]) BY <1>14
  <2>5. g[i] \in Seq(S) /\ g[k] \in Seq(S) BY <1>2, <1>3, <2>4
  <2>6. k # i BY <2>4, <2>5 DEF IsPrefix
  <2>7. k - 1 \in i..n /\ ~(k <= k - 1) BY <1>2, <2>4, <2>6
  <2>8. k - 1 \in i..n /\ k - 1 \notin Bad BY <2>3, <2>7
  <2>9. k - 1 \in 1..n /\ k \in 1..n /\ k # 1 BY <1>2, <2>4, <2>8, <2>6
  <2>10. IsPrefix(g[i], g[k - 1]) BY <1>14, <2>8
  <2>11. g[k - 1] \in Seq(S) BY <1>3, <2>9
  <2>12. seqs[k] \in Seq(S) BY <1>1, <2>9
  <2>13. g[k - 1] \in Seq(S) /\ seqs[k] \in Seq(S) BY <2>11, <2>12
  <2>14. g[k] = g[k - 1] \o seqs[k] BY <1>3, <2>9 DEF Joined
  <2>15. IsPrefix(g[i], g[k - 1] \o seqs[k])
    <3>1. PICK a, b, c : a = g[i] /\ b = g[k - 1] /\ c = seqs[k] OBVIOUS
    <3>2. a \in Seq(S) /\ b \in Seq(S) /\ c \in Seq(S) BY <2>5, <2>13, <3>1
    <3>3. Len(a) <= Len(b) /\ SubSeq(a, 1, Len(a)) = SubSeq(b, 1, Len(a)) BY <2>10, <3>1 DEF IsPrefix
    <3>4. Len(b \o c) = Len(b) + Len(c) /\ b \o c \in Seq(S) BY <3>2
    <3>5. SubSeq(b \o c, 1, Len(a)) = SubSeq(b, 1, Len(a)) BY <3>2, <3>3, <3>4
    <3>6. IsPrefix(a, b \o c) BY <3>2, <3>3, <3>4, <3>5 DEF IsPrefix
    <3> QED BY <3>1, <3>6
  <2> QED BY Zenon, <2>4, <2>14, <2>15
<1>16. n \in i..n BY <1>2
<1>17. IsPrefix(g[i], g[n]) BY <1>14, <1>16, <1>15
<1> QED BY <1>2, <1>3, <1>4, <1>6, <1>13, <1>17

LEMMA PinsAreTheirCopies ==
  ASSUME NEW spec, RootSpec(spec), NEW e \in BuildPrivateRoot(spec).entries, NEW p \in e.pins
  PROVE  TrustedDir(spec.keyrings)[p.file] = spec.keyrings[KeyringAt(spec.keyrings, p.orig)].bytes
<1>1. PICK ks : ks = spec.keyrings OBVIOUS
<1>2. Keyrings(ks) BY <1>1 DEF RootSpec
<1>3. PICK S : S = {{[uri |-> x.uri, trusted |-> x.trusted, pins |-> Pins(f, x, ks)] : x \in f.entries} : f \in spec.sources} OBVIOUS
<1>4. PICK X : X = {[uri |-> u, trusted |-> TRUE, pins |-> {}] : u \in spec.extra} OBVIOUS
<1>5. BuildPrivateRoot(spec).entries = (UNION S) \cup X
  <2>1. BuildPrivateRoot(spec).entries =
          (UNION {{[uri |-> x.uri, trusted |-> x.trusted, pins |-> Pins(f, x, ks)] : x \in f.entries} : f \in spec.sources})
          \cup {[uri |-> u, trusted |-> TRUE, pins |-> {}] : u \in spec.extra}
    BY <1>1 DEF BuildPrivateRoot
  <2> QED BY Zenon, <1>3, <1>4, <2>1
<1>6. e \notin X BY <1>4
<1>7. PICK f \in spec.sources : \E x \in f.entries : e = [uri |-> x.uri, trusted |-> x.trusted, pins |-> Pins(f, x, ks)]
  <2>1. PICK B : B = BuildPrivateRoot(spec).entries OBVIOUS
  <2>2. e \in UNION S
    <3>1. e \in B /\ B = (UNION S) \cup X BY Zenon, <1>5, <2>1
    <3> QED BY <1>6, <3>1
  <2>3. PICK E \in S : e \in E BY <2>2
  <2>4. PICK f \in spec.sources : E = {[uri |-> x.uri, trusted |-> x.trusted, pins |-> Pins(f, x, ks)] : x \in f.entries}
    BY Zenon, <1>3, <2>3
  <2> QED BY <2>3, <2>4
<1>8. PICK x \in f.entries : e = [uri |-> x.uri, trusted |-> x.trusted, pins |-> Pins(f, x, ks)] BY <1>7
<1>9. p \in Pins(f, x, ks) BY <1>8
<1>10. PICK n \in Kept(ToSet(x.names), ks) \cap KeyPaths : p = [orig |-> n, file |-> KeyringDest(ks)[n]] BY <1>9 DEF Pins
<1>11. n \in DOMAIN KeyringDest(ks) BY <1>10 DEF Kept
<1>12. p.orig = n /\ p.file = KeyringDest(ks)[n] BY <1>10
<1> QED BY <1>1, <1>2, <1>11, <1>12, CopyIsTheKeyring

LEMMA PathsOfASetting ==
  ASSUME NEW s, s.keys \in Seq(Seq(STRING)), NEW i \in DOMAIN s.keys
  PROVE  /\ \E V : StripBinaryScope(LevelPath(s, i)) \in Seq(V)
         /\ IsPrefix(LevelPath(s, i), LevelPath(s, Len(s.keys)))
<1>1. PICK keys, W : keys = s.keys /\ W = STRING OBVIOUS
<1>2. keys \in Seq(Seq(W)) /\ i \in 1..Len(keys) /\ SubSeq(keys, 1, Len(keys)) = keys BY <1>1
<1>3. PICK a, b : a = FlattenSeq(SubSeq(keys, 1, i)) /\ b = FlattenSeq(keys) OBVIOUS
<1>4. a \in Seq(W) /\ b \in Seq(W) /\ IsPrefix(a, b) BY <1>2, <1>3, FlattenOfPrefix
<1>5. LevelPath(s, i) = Fold(a) /\ LevelPath(s, Len(s.keys)) = Fold(b) BY <1>1, <1>2, <1>3 DEF LevelPath
<1>6. PICK V : V = {FoldCase(w) : w \in W} OBVIOUS
<1>7. PICK A, B : A = Fold(a) /\ B = Fold(b) OBVIOUS
<1>8. A = [j \in 1..Len(a) |-> FoldCase(a[j])] /\ B = [j \in 1..Len(b) |-> FoldCase(b[j])] BY <1>4, <1>7 DEF Fold
<1>9. A \in Seq(V) /\ B \in Seq(V) /\ Len(A) = Len(a) /\ Len(B) = Len(b)
  <2>1. \A j \in 1..Len(a) : FoldCase(a[j]) \in V BY <1>4, <1>6
  <2>2. \A j \in 1..Len(b) : FoldCase(b[j]) \in V BY <1>4, <1>6
  <2>3. Len(a) \in Nat /\ Len(b) \in Nat BY <1>4
  <2> QED BY <1>8, <2>1, <2>2, <2>3
<1>10. IsPrefix(A, B)
  <2>1. Len(a) <= Len(b) /\ SubSeq(a, 1, Len(a)) = SubSeq(b, 1, Len(a)) BY <1>4 DEF IsPrefix
  <2>2. \A j \in 1..Len(a) : a[j] = b[j] BY <1>4, <2>1
  <2>3. \A j \in 1..Len(A) : A[j] = B[j] BY <1>4, <1>8, <1>9, <2>1, <2>2
  <2>4. SubSeq(A, 1, Len(A)) = SubSeq(B, 1, Len(A)) BY <1>4, <1>9, <2>1, <2>3
  <2> QED BY <1>9, <2>1, <2>4 DEF IsPrefix
<1>11. StripBinaryScope(A) \in Seq(V)
  <2>1. Len(A) \in Nat BY <1>9
  <2>2. SubSeq(A, 3, Len(A)) \in Seq(V) BY <1>9, <2>1
  <2> QED BY <1>9, <2>2 DEF StripBinaryScope
<1> QED BY <1>5, <1>7, <1>10, <1>11

(* What the filter lets through is of the two trees apt reads, and no hook.   *)
LEMMA CarriedIsHarmless ==
  ASSUME NEW path, NEW V, NEW p \in Seq(V), p = StripBinaryScope(path), p # <<>>, NEW block, NEW value, NEW proxy,
         ~DropConf(path, block, value, proxy)
  PROVE  p[1] \in {"apt", "acquire"} /\ Last(p) \notin HookKeys \cup VerificationKeys
<1>1. ~DeniedFamily(p, proxy) BY DEF DropConf
<1>2. Last(p) \notin HookKeys \cup VerificationKeys BY <1>1 DEF DeniedFamily
<1>3. ClassifyConfKey(path, proxy) \in {"allowed", "container"} BY DEF DropConf
<1>4. \A entry \in AptConfAllowList : entry[1] \in {"apt", "acquire"} BY DEF AptConfAllowList
<1>5. CASE p \in AptConfAllowList BY <1>2, <1>4, <1>5
<1>6. CASE IsPrefix(<<"apt", "solver">>, p)
  <2>1. Len(p) >= 2 /\ SubSeq(<<"apt", "solver">>, 1, 2) = SubSeq(p, 1, 2) BY <1>6 DEF IsPrefix
  <2>2. SubSeq(<<"apt", "solver">>, 1, 2)[1] = "apt" /\ SubSeq(p, 1, 2)[1] = p[1] BY <2>1
  <2> QED BY <1>2, <2>1, <2>2
<1>7. CASE \E entry \in AptConfAllowList : IsStrictPrefix(p, entry)
  <2>1. PICK entry \in AptConfAllowList : IsStrictPrefix(p, entry) BY <1>7
  <2>2. Len(p) <= Len(entry) /\ SubSeq(p, 1, Len(p)) = SubSeq(entry, 1, Len(p)) BY <2>1 DEF IsStrictPrefix, IsPrefix
  <2>3. (\E a, b : entry = <<a, b>>) \/ \E a, b, c : entry = <<a, b, c>> BY <2>1 DEF AptConfAllowList
  <2>4. Len(p) \in Nat /\ Len(p) >= 1 /\ SubSeq(p, 1, Len(p))[1] = p[1] OBVIOUS
  <2>5. SubSeq(entry, 1, Len(p))[1] = entry[1]
    <3>1. CASE \E a, b : entry = <<a, b>> BY <2>2, <2>4, <3>1
    <3>2. CASE \E a, b, c : entry = <<a, b, c>> BY <2>2, <2>4, <3>2
    <3> QED BY <2>3, <3>1, <3>2
  <2> QED BY <1>2, <1>4, <2>2, <2>4, <2>5
<1>8. CASE p[1] = "acquire" BY <1>2, <1>8
<1> QED BY <1>3, <1>5, <1>6, <1>7, <1>8 DEF ClassifyConfKey

LEMMA SettingsAreCarriedOrNamed ==
  ASSUME NEW conf, NEW proxy, \A s \in conf : s.keys \in Seq(Seq(STRING))
  PROVE  /\ \A s \in conf \ FilterAptConf(conf, proxy).carried :
              /\ s.directive \in {"#include", "#clear"} => <<s.directive>> \in FilterAptConf(conf, proxy).dropped
              /\ s.directive = Empty => \E i \in DOMAIN s.keys : s.keys[i] # <<>> /\ LevelPath(s, i) \in FilterAptConf(conf, proxy).dropped
         /\ \A s \in FilterAptConf(conf, proxy).carried :
              /\ s \in conf
              /\ \A i \in DOMAIN s.keys : s.keys[i] # <<>> => ~DropConf(LevelPath(s, i), i < Len(s.keys), s.value, proxy)
<1> DEFINE at(s) == CHOOSE i \in DroppedAt(s, proxy) : \A j \in DroppedAt(s, proxy) : i <= j
<1>1. PICK C : C = {s \in conf : s.directive = Empty /\ DroppedAt(s, proxy) = {}} OBVIOUS
<1>2. PICK D : D = {<<s.directive>> : s \in {x \in conf : x.directive \in {"#include", "#clear"}}}
                   \cup {LevelPath(s, at(s)) : s \in {x \in conf : x.directive = Empty /\ DroppedAt(x, proxy) # {}}}
  OBVIOUS
<1>3. FilterAptConf(conf, proxy).carried = C /\ FilterAptConf(conf, proxy).dropped = D BY <1>1, <1>2 DEF FilterAptConf
<1>4. ASSUME NEW s \in conf, DroppedAt(s, proxy) # {}
      PROVE  at(s) \in DOMAIN s.keys /\ s.keys[at(s)] # <<>>
  <2>1. DroppedAt(s, proxy) \subseteq Nat
    <3>1. PICK keys : keys = s.keys OBVIOUS
    <3>2. DOMAIN keys \subseteq Nat BY <3>1
    <3> QED BY <3>1, <3>2 DEF DroppedAt
  <2>2. \E i \in DroppedAt(s, proxy) : \A j \in DroppedAt(s, proxy) : i <= j BY <1>4, <2>1, HasLeast
  <2>3. at(s) \in DroppedAt(s, proxy) BY <2>2
  <2> QED BY <2>3 DEF DroppedAt
<1> HIDE DEF at
<1>5. ASSUME NEW s \in conf, s \notin C, s.directive \in {"#include", "#clear"} PROVE <<s.directive>> \in D
  BY <1>2, <1>5
<1>6. ASSUME NEW s \in conf, s \notin C, s.directive = Empty
      PROVE  \E i \in DOMAIN s.keys : s.keys[i] # <<>> /\ LevelPath(s, i) \in D
  <2>1. DroppedAt(s, proxy) # {} BY <1>1, <1>6
  <2>2. LevelPath(s, at(s)) \in D BY <1>2, <1>6, <2>1
  <2> QED BY <1>4, <2>1, <2>2
<1>7. ASSUME NEW s \in C, NEW i \in DOMAIN s.keys, s.keys[i] # <<>>
      PROVE  ~DropConf(LevelPath(s, i), i < Len(s.keys), s.value, proxy)
  <2>1. i \notin DroppedAt(s, proxy) BY <1>1
  <2> QED BY <1>7, <2>1 DEF DroppedAt
<1> QED BY <1>1, <1>3, <1>5, <1>6, <1>7

(* The private root is the snapshot's, with what it leaves out named, and     *)
(* lets no hook through (root.go copySnapshotConfig, sources.go               *)
(* rewriteSignedByList, aptconf.go filterAptConf).                            *)
THEOREM RootIsTheSnapshots == PolicySpec => []RootIsFaithful
<1>1. PolicyInit => PolicyInv BY PolicyInit_Inv
<1>2. PolicyInv /\ [PolicyNext]_pvars => PolicyInv' BY PolicyStep
<1>3. ASSUME PolicyInv PROVE RootIsFaithful
  <2>1. SUFFICES ASSUME root # NoRoot PROVE RootIsFaithful BY DEF RootIsFaithful
  <2>2. snapshot \in RootSpecs /\ root = BuildPrivateRoot(snapshot) BY <1>3, <2>1 DEF PolicyInv, PolicyInputs
  <2>3. RootSpec(snapshot) BY <1>3, InputsAreKnown DEF PolicyInv
  <2>4. \A s \in snapshot.conf : s.keys \in Seq(Seq(STRING)) BY <2>2, PolicyAssumption
  <2>5. PICK F : F = FilterAptConf(snapshot.conf, snapshot.allowProxy) OBVIOUS
  <2>6. root.conf = F.carried /\ root.dropped = F.dropped /\ root.trusted = TrustedDir(snapshot.keyrings)
    BY <2>2, <2>5 DEF BuildPrivateRoot
  <2>7. \A e \in root.entries : \A p \in e.pins : root.trusted[p.file] = snapshot.keyrings[KeyringAt(snapshot.keyrings, p.orig)].bytes
    BY <2>2, <2>3, <2>6, PinsAreTheirCopies
  <2>8. ASSUME NEW s \in snapshot.conf \ root.conf, s.directive \in {Empty, "#include", "#clear"}
        PROVE  \E k \in root.dropped : k = <<s.directive>> \/ IsPrefix(k, LevelPath(s, Len(s.keys)))
    <3>1. s \in snapshot.conf \ F.carried BY <2>6
    <3>2. CASE s.directive \in {"#include", "#clear"}
      <4>1. <<s.directive>> \in F.dropped BY <2>4, <2>5, <3>1, <3>2, SettingsAreCarriedOrNamed
      <4> QED BY <2>6, <4>1
    <3>3. CASE s.directive = Empty
      <4>1. PICK i \in DOMAIN s.keys : LevelPath(s, i) \in F.dropped BY <2>4, <2>5, <3>1, <3>3, SettingsAreCarriedOrNamed
      <4>2. IsPrefix(LevelPath(s, i), LevelPath(s, Len(s.keys))) BY <2>4, PathsOfASetting
      <4> QED BY <2>6, <4>1, <4>2
    <3> QED BY <2>8, <3>2, <3>3
  <2>9. ASSUME NEW s \in root.conf, NEW i \in DOMAIN s.keys, s.keys[i] # <<>>, StripBinaryScope(LevelPath(s, i)) # <<>>
        PROVE  /\ StripBinaryScope(LevelPath(s, i))[1] \in {"apt", "acquire"}
               /\ Last(StripBinaryScope(LevelPath(s, i))) \notin HookKeys \cup VerificationKeys
    <3>1. s \in snapshot.conf /\ ~DropConf(LevelPath(s, i), i < Len(s.keys), s.value, snapshot.allowProxy)
      BY <2>4, <2>5, <2>6, <2>9, SettingsAreCarriedOrNamed
    <3>2. PICK V : StripBinaryScope(LevelPath(s, i)) \in Seq(V) BY <2>4, <3>1, PathsOfASetting
    <3> QED BY <2>9, <3>1, <3>2, CarriedIsHarmless
  <2> QED BY <2>1, <2>7, <2>8, <2>9 DEF RootIsFaithful
<1> QED BY <1>1, <1>2, <1>3, PTL DEF PolicySpec

(***************************************************************************)
(* Sums over a finite set                                                  *)
(***************************************************************************)

LEMMA HasSmallest ==
  ASSUME NEW B, B # {}, \A s \in B : IsFiniteSet(s)
  PROVE  \E s \in B : \A t \in B : Cardinality(s) <= Cardinality(t)
<1>1. PICK N : N = {Cardinality(s) : s \in B} OBVIOUS
<1>2. \A s \in B : Cardinality(s) \in Nat BY FS_CardinalityType
<1>3. N \subseteq Nat /\ N # {} BY <1>1, <1>2
<1>4. PICK n \in N : \A m \in N : n <= m BY <1>3, HasLeast
<1>5. PICK s \in B : n = Cardinality(s) BY <1>1
<1>6. \A t \in B : Cardinality(t) \in N BY <1>1
<1> QED BY <1>4, <1>5, <1>6

(* A sum over a set, one element at a time. *)
One(s) == CHOOSE x \in s : TRUE
Added(f, F) == \A s \in DOMAIN F : F[s] = IF s = {} THEN 0 ELSE F[s \ {One(s)}] + f[One(s)]

LEMMA OneLess ==
  ASSUME NEW s, IsFiniteSet(s), NEW x \in s
  PROVE  IsFiniteSet(s \ {x}) /\ Cardinality(s) \in Nat /\ Cardinality(s) > 0 /\ Cardinality(s \ {x}) = Cardinality(s) - 1
<1>1. Cardinality(s) \in Nat BY FS_CardinalityType
<1>2. Cardinality(s) # 0 BY FS_EmptySet
<1> QED BY <1>1, <1>2, FS_RemoveElement

LEMMA AddedExists ==
  ASSUME NEW D, IsFiniteSet(D), NEW f \in [D -> Int]
  PROVE  \E F \in [SUBSET D -> Int] : Added(f, F)
<1> DEFINE Upto(k) == {s \in SUBSET D : Cardinality(s) <= k}
<1>1. \A s \in SUBSET D : IsFiniteSet(s) /\ Cardinality(s) \in Nat /\ Cardinality(s) <= Cardinality(D)
  BY FS_Subset, FS_CardinalityType
<1>2. PICK Bad : Bad = {k \in Nat : ~\E F \in [Upto(k) -> Int] : Added(f, F)} OBVIOUS
<1>3. Bad = {}
  <2>1. SUFFICES ASSUME Bad # {} PROVE FALSE OBVIOUS
  <2>2. Bad \subseteq Nat BY <1>2
  <2>3. PICK k \in Bad : \A j \in Bad : k <= j BY <2>1, <2>2, HasLeast
  <2>4. k \in Nat /\ ~\E F \in [Upto(k) -> Int] : Added(f, F) BY <1>2
  <2>5. CASE k = 0
    <3>1. PICK F : F = [s \in Upto(0) |-> 0] OBVIOUS
    <3>2. F \in [Upto(0) -> Int] BY <3>1
    <3>3. \A s \in Upto(0) : s = {} BY <1>1, FS_EmptySet
    <3>4. Added(f, F) BY <3>1, <3>3 DEF Added
    <3> QED BY <2>4, <2>5, <3>2, <3>4
  <2>6. CASE k # 0
    <3>1. k - 1 \in Nat /\ ~(k <= k - 1) BY <2>4, <2>6
    <3>2. PICK F \in [Upto(k - 1) -> Int] : Added(f, F) BY <1>2, <2>3, <3>1
    <3>3. PICK H : H = [s \in Upto(k) |-> IF Cardinality(s) = k THEN F[s \ {One(s)}] + f[One(s)] ELSE F[s]] OBVIOUS
    <3>4. ASSUME NEW s \in Upto(k), s # {}
          PROVE  One(s) \in D /\ s \ {One(s)} \in Upto(k - 1)
      <4>1. One(s) \in s BY <3>4 DEF One
      <4>2. Cardinality(s \ {One(s)}) = Cardinality(s) - 1 /\ Cardinality(s) \in Nat BY <1>1, <4>1, OneLess
      <4> QED BY <2>4, <4>1, <4>2
    <3>5. ASSUME NEW s \in Upto(k), Cardinality(s) # k PROVE s \in Upto(k - 1)
      BY <1>1, <2>4, <3>5
    <3>6. ASSUME NEW s \in Upto(k), Cardinality(s) = k PROVE s # {}
      BY <2>6, <3>6, FS_EmptySet
    <3>7. ASSUME NEW s \in Upto(k) PROVE H[s] \in Int
      <4>1. CASE Cardinality(s) = k
        <5>1. One(s) \in D /\ s \ {One(s)} \in Upto(k - 1) BY <3>4, <3>6, <4>1
        <5> QED BY <3>2, <3>3, <4>1, <5>1
      <4>2. CASE Cardinality(s) # k BY <3>2, <3>3, <3>5, <4>2
      <4> QED BY <4>1, <4>2
    <3>8. H \in [Upto(k) -> Int] BY <3>3, <3>7
    <3>9. ASSUME NEW s \in Upto(k)
          PROVE  H[s] = IF s = {} THEN 0 ELSE H[s \ {One(s)}] + f[One(s)]
      <4>1. ASSUME s # {} PROVE H[s \ {One(s)}] = F[s \ {One(s)}]
        <5>1. s \ {One(s)} \in Upto(k - 1) BY <3>4, <4>1
        <5>2. s \ {One(s)} \in Upto(k) /\ Cardinality(s \ {One(s)}) # k BY <1>1, <2>4, <5>1
        <5> QED BY <3>3, <5>2
      <4>2. CASE Cardinality(s) = k BY <3>3, <3>6, <4>1, <4>2
      <4>3. CASE Cardinality(s) # k
        <5>1. H[s] = F[s] /\ s \in Upto(k - 1) BY <3>3, <3>5, <4>3
        <5>2. F[s] = IF s = {} THEN 0 ELSE F[s \ {One(s)}] + f[One(s)] BY <3>2, <5>1 DEF Added
        <5> QED BY <4>1, <5>1, <5>2
      <4> QED BY <4>2, <4>3
    <3>10. Added(f, H) BY <3>8, <3>9 DEF Added
    <3> QED BY <2>4, <3>8, <3>10
  <2> QED BY <2>5, <2>6
<1>4. Cardinality(D) \in Nat BY FS_CardinalityType
<1>5. PICK F \in [Upto(Cardinality(D)) -> Int] : Added(f, F) BY <1>2, <1>3, <1>4
<1>6. Upto(Cardinality(D)) = SUBSET D BY <1>1
<1> QED BY <1>5, <1>6

LEMMA AddedIsInt ==
  ASSUME NEW D, IsFiniteSet(D), NEW f \in [D -> Int], NEW F, DOMAIN F = SUBSET D, Added(f, F)
  PROVE  \A s \in SUBSET D : F[s] \in Int
<1>1. PICK Bad : Bad = {s \in SUBSET D : F[s] \notin Int} OBVIOUS
<1>2. SUFFICES ASSUME Bad # {} PROVE FALSE BY <1>1
<1>3. \A s \in Bad : s \subseteq D /\ IsFiniteSet(s) BY <1>1, FS_Subset
<1>4. PICK s \in Bad : \A t \in Bad : Cardinality(s) <= Cardinality(t) BY <1>2, <1>3, HasSmallest
<1>5. s \subseteq D /\ IsFiniteSet(s) /\ F[s] \notin Int BY <1>1, <1>3
<1>6. F[s] = IF s = {} THEN 0 ELSE F[s \ {One(s)}] + f[One(s)] BY <1>5 DEF Added
<1>7. s # {} BY <1>5, <1>6
<1>8. One(s) \in s BY <1>7 DEF One
<1>9. s \ {One(s)} \notin Bad
  <2>1. Cardinality(s) \in Nat /\ Cardinality(s \ {One(s)}) = Cardinality(s) - 1 BY <1>5, <1>8, OneLess
  <2>2. ~(Cardinality(s) <= Cardinality(s \ {One(s)})) BY <2>1
  <2> QED BY <1>4, <2>2
<1>10. F[s \ {One(s)}] \in Int /\ f[One(s)] \in Int BY <1>1, <1>5, <1>8, <1>9
<1> QED BY <1>5, <1>6, <1>7, <1>10

(* The order of the elements does not matter. *)
LEMMA AddedInAnyOrder ==
  ASSUME NEW D, IsFiniteSet(D), NEW f \in [D -> Int], NEW F, DOMAIN F = SUBSET D, Added(f, F)
  PROVE  \A s \in SUBSET D : \A x \in s : F[s] = F[s \ {x}] + f[x]
<1>1. PICK Bad : Bad = {s \in SUBSET D : \E x \in s : F[s] # F[s \ {x}] + f[x]} OBVIOUS
<1>2. SUFFICES ASSUME Bad # {} PROVE FALSE BY <1>1
<1>3. \A s \in Bad : s \subseteq D /\ IsFiniteSet(s) BY <1>1, FS_Subset
<1>4. PICK s \in Bad : \A t \in Bad : Cardinality(s) <= Cardinality(t) BY <1>2, <1>3, HasSmallest
<1>5. PICK x \in s : F[s] # F[s \ {x}] + f[x] BY <1>1
<1>6. PICK c : c = One(s) OBVIOUS
<1>7. c \in s BY <1>5, <1>6 DEF One
<1>8. s \subseteq D /\ IsFiniteSet(s) BY <1>3
<1>9. F[s] = F[s \ {c}] + f[c] BY <1>5, <1>6, <1>8 DEF Added
<1>10. x # c BY <1>5, <1>9
<1>11. ASSUME NEW y \in s PROVE s \ {y} \notin Bad
  <2>1. Cardinality(s) \in Nat /\ Cardinality(s \ {y}) = Cardinality(s) - 1 BY <1>8, OneLess
  <2>2. ~(Cardinality(s) <= Cardinality(s \ {y})) BY <2>1
  <2> QED BY <1>4, <2>2
<1>12. F[s \ {c}] = F[(s \ {c}) \ {x}] + f[x] BY <1>1, <1>5, <1>7, <1>8, <1>10, <1>11
<1>13. F[s \ {x}] = F[(s \ {x}) \ {c}] + f[c] BY <1>1, <1>5, <1>7, <1>8, <1>10, <1>11
<1>14. (s \ {c}) \ {x} = (s \ {x}) \ {c} OBVIOUS
<1>15. PICK u, v, w : u = F[(s \ {c}) \ {x}] /\ v = f[x] /\ w = f[c] OBVIOUS
<1>16. u \in Int /\ v \in Int /\ w \in Int
  <2>1. x \in D /\ c \in D /\ (s \ {c}) \ {x} \in SUBSET D BY <1>5, <1>7, <1>8
  <2>2. F[(s \ {c}) \ {x}] \in Int BY <2>1, AddedIsInt
  <2> QED BY <1>15, <2>1, <2>2
<1>17. F[s] = (u + v) + w BY <1>9, <1>12, <1>15
<1>18. F[s \ {x}] + f[x] = (u + w) + v BY Zenon, <1>13, <1>14, <1>15
<1> QED BY <1>5, <1>16, <1>17, <1>18

LEMMA SumIsAdded ==
  ASSUME NEW D, IsFiniteSet(D), NEW f \in [D -> Int]
  PROVE  \E F : DOMAIN F = SUBSET D /\ Added(f, F) /\ OnDisk(f) = F[D]
<1> DEFINE it == CHOOSE G : G = [s \in SUBSET D |-> IF s = {} THEN 0 ELSE G[s \ {CHOOSE x \in s : TRUE}] + f[CHOOSE x \in s : TRUE]]
<1>1. PICK F \in [SUBSET D -> Int] : Added(f, F) BY AddedExists
<1>2. F = [s \in SUBSET D |-> IF s = {} THEN 0 ELSE F[s \ {CHOOSE x \in s : TRUE}] + f[CHOOSE x \in s : TRUE]]
  BY <1>1 DEF Added, One
<1>3. it = [s \in SUBSET D |-> IF s = {} THEN 0 ELSE it[s \ {CHOOSE x \in s : TRUE}] + f[CHOOSE x \in s : TRUE]] BY <1>2
<1>4. DOMAIN f = D OBVIOUS
<1>5. OnDisk(f) = it[D] BY <1>4 DEF OnDisk, FoldSet, MapThenFoldSet
<1> HIDE DEF it
<1>6. Added(f, it) /\ DOMAIN it = SUBSET D BY <1>3 DEF Added, One
<1> QED BY <1>5, <1>6

LEMMA OnDiskIsInt == ASSUME NEW D, IsFiniteSet(D), NEW f \in [D -> Int] PROVE OnDisk(f) \in Int
<1>1. PICK F : DOMAIN F = SUBSET D /\ Added(f, F) /\ OnDisk(f) = F[D] BY SumIsAdded
<1> QED BY <1>1, AddedIsInt

LEMMA SumOfNone == OnDisk(<<>>) = 0
<1>1. PICK h : h = [x \in {} |-> 0] OBVIOUS
<1>2. h \in [{} -> Int] BY <1>1
<1>3. PICK F : DOMAIN F = SUBSET {} /\ Added(h, F) /\ OnDisk(h) = F[{}] BY <1>2, FS_EmptySet, SumIsAdded
<1>4. F[{}] = 0 BY <1>3 DEF Added
<1>5. h = <<>> BY <1>1
<1> QED BY <1>3, <1>4, <1>5

LEMMA SumIsSplit ==
  ASSUME NEW E, IsFiniteSet(E), NEW g \in [E -> Int], NEW p \in E
  PROVE  \E G : DOMAIN G = SUBSET E /\ Added(g, G) /\ OnDisk(g) = G[E] /\ G[E] = G[E \ {p}] + g[p]
<1>1. PICK G : DOMAIN G = SUBSET E /\ Added(g, G) /\ OnDisk(g) = G[E] BY SumIsAdded
<1>2. G[E] = G[E \ {p}] + g[p] BY <1>1, AddedInAnyOrder
<1> QED BY <1>1, <1>2

LEMMA SumOfOneMore ==
  ASSUME NEW D, IsFiniteSet(D), NEW f \in [D -> Int], NEW p, p \notin D, NEW n \in Int,
         NEW g, g = [x \in D \cup {p} |-> IF x = p THEN n ELSE f[x]]
  PROVE  OnDisk(f) \in Int /\ OnDisk(g) = OnDisk(f) + n
<1>1. PICK E : E = D \cup {p} OBVIOUS
<1>2. IsFiniteSet(E) /\ g \in [E -> Int] /\ p \in E BY <1>1, FS_AddElement
<1>3. PICK F : DOMAIN F = SUBSET D /\ Added(f, F) /\ OnDisk(f) = F[D] BY SumIsAdded
<1>4. PICK G : DOMAIN G = SUBSET E /\ Added(g, G) /\ OnDisk(g) = G[E] /\ G[E] = G[E \ {p}] + g[p] BY <1>2, SumIsSplit
<1>5. \A s \in SUBSET D : F[s] \in Int BY <1>3, AddedIsInt
<1>6. PICK Bad : Bad = {s \in SUBSET D : G[s] # F[s]} OBVIOUS
<1>7. Bad = {}
  <2>1. SUFFICES ASSUME Bad # {} PROVE FALSE OBVIOUS
  <2>2. \A s \in Bad : s \subseteq D /\ IsFiniteSet(s) BY <1>6, FS_Subset
  <2>3. PICK s \in Bad : \A t \in Bad : Cardinality(s) <= Cardinality(t) BY <2>1, <2>2, HasSmallest
  <2>4. s \subseteq D /\ s \subseteq E /\ IsFiniteSet(s) /\ G[s] # F[s] BY <1>1, <1>6, <2>2
  <2>5. F[s] = IF s = {} THEN 0 ELSE F[s \ {One(s)}] + f[One(s)] BY <1>3, <2>4 DEF Added
  <2>6. G[s] = IF s = {} THEN 0 ELSE G[s \ {One(s)}] + g[One(s)] BY <1>4, <2>4 DEF Added
  <2>7. s # {} BY <2>4, <2>5, <2>6
  <2>8. One(s) \in s BY <2>7 DEF One
  <2>9. g[One(s)] = f[One(s)] BY <2>4, <2>8
  <2>10. s \ {One(s)} \notin Bad
    <3>1. Cardinality(s) \in Nat /\ Cardinality(s \ {One(s)}) = Cardinality(s) - 1 BY <2>4, <2>8, OneLess
    <3>2. ~(Cardinality(s) <= Cardinality(s \ {One(s)})) BY <3>1
    <3> QED BY <2>3, <3>2
  <2>11. G[s \ {One(s)}] = F[s \ {One(s)}] BY <1>6, <2>4, <2>10
  <2> QED BY <2>4, <2>5, <2>6, <2>7, <2>9, <2>11
<1>8. G[D] = F[D] BY <1>6, <1>7
<1>10. E \ {p} = D /\ g[p] = n /\ p \in E BY <1>1
<1>11. G[E] = G[D] + n BY <1>4, <1>10
<1> QED BY <1>3, <1>4, <1>5, <1>8, <1>11
(***************************************************************************)
(* Opening an archive                                                      *)
(***************************************************************************)

Regular(k) == {i \in 1 .. k : archive[i].kind = "reg"}
PathOf(i) == Clean(archive[i].name)
Opened == {"lock", "snapshot", "manifest", "signature", "opened"}

(* What is on the disk is the first k entries' files.                         *)
FilesAre(files, k) ==
  /\ DOMAIN files = {PathOf(i) : i \in Regular(k)}
  /\ \A i \in Regular(k) : files[PathOf(i)] = archive[i].size

OpenShape ==
  /\ archive \in Archives
  /\ imp = [pc |-> imp.pc, at |-> imp.at, left |-> imp.left, seen |-> imp.seen, dir |-> imp.dir, leaked |-> imp.leaked]
  /\ imp.dir = [there |-> imp.dir.there, files |-> imp.dir.files, dirs |-> imp.dir.dirs]
  /\ imp.pc \in Opened \cup {"stat", "import", "writing", "failed", "closed"}
  /\ imp.at \in 1 .. Len(archive) + 1 /\ imp.left \in Nat
  /\ IsFiniteSet(DOMAIN imp.dir.files) /\ imp.dir.files \in [DOMAIN imp.dir.files -> Nat]

(* The file of entry at, of which n bytes are written, beside the files F of  *)
(* the entries before it.                                                     *)
Beside(F, path, n) == [p \in DOMAIN F \cup {path} |-> IF p = path THEN n ELSE F[p]]
Before(F) ==
  /\ IsFiniteSet(DOMAIN F) /\ F \in [DOMAIN F -> Nat]
  /\ FilesAre(F, imp.at - 1) /\ OnDisk(F) + imp.left = MaxTotal
HalfOf(F, n) ==
  /\ n \in 0 .. Written(archive[imp.at].size)
  /\ PathOf(imp.at) \notin DOMAIN F /\ imp.dir.files = Beside(F, PathOf(imp.at), n)
HalfWritten ==
  /\ \E F, n : Before(F) /\ HalfOf(F, n)
  /\ imp.at \in 1 .. Len(archive) /\ archive[imp.at].kind = "reg"

(* What is left of the allowance is what the files did not take; every entry  *)
(* read so far has its file and is known by its folded name.                  *)
OpenInv ==
  /\ OpenShape
  /\ imp.pc \notin {"writing", "failed"} => imp.dir = NoDirectory \/ OnDisk(imp.dir.files) + imp.left = MaxTotal
  /\ imp.pc = "failed" => OnDisk(imp.dir.files) <= MaxTotal + 1
  /\ imp.pc = "stat" => imp.at = 1 /\ imp.left = MaxTotal /\ imp.seen = {} /\ imp.dir = NoDirectory
  /\ imp.pc \in {"import", "writing"} => /\ imp.seen = {CollisionKey(PathOf(i)) : i \in 1 .. imp.at - 1}
                                        /\ imp.dir # NoDirectory
  /\ imp.pc = "import" => FilesAre(imp.dir.files, imp.at - 1)
  /\ imp.pc = "writing" => HalfWritten
  /\ imp.pc \in Opened => FilesAre(imp.dir.files, Len(archive))
  /\ imp.pc \in {"failed", "closed"} => imp.dir = NoDirectory \/ imp.leaked

LEMMA NoFiles == NoDirectory.files = <<>> /\ DOMAIN <<>> = {} /\ <<>> \in [{} -> Nat] /\ IsFiniteSet({})
BY FS_EmptySet DEF NoDirectory

LEMMA OpenInit_Inv == OpenInit => OpenInv
<1>1. SUFFICES ASSUME OpenInit PROVE OpenInv OBVIOUS
<1>2. /\ archive \in Archives
      /\ imp = [pc |-> "stat", at |-> 1, left |-> MaxTotal, seen |-> {}, dir |-> NoDirectory, leaked |-> FALSE]
  BY <1>1 DEF OpenInit
<1>3. Len(archive) \in Nat /\ MaxTotal \in Nat BY <1>2, OpenAssumption
<1>4. imp.dir.files = <<>> /\ imp.dir = NoDirectory BY <1>2, NoFiles
<1>5. imp.at \in 1 .. Len(archive) + 1 /\ imp.left \in Nat BY <1>2, <1>3
<1>6. IsFiniteSet(DOMAIN imp.dir.files) /\ imp.dir.files \in [DOMAIN imp.dir.files -> Nat] BY <1>4, NoFiles
<1>7. OpenShape BY <1>2, <1>5, <1>6 DEF OpenShape, NoDirectory
<1> QED BY <1>2, <1>7 DEF OpenInv, Opened

(* One more file takes its bytes more.                                        *)
LEMMA OneMoreFile ==
  ASSUME NEW F, NEW p, NEW n \in Nat, IsFiniteSet(DOMAIN F), F \in [DOMAIN F -> Nat], p \notin DOMAIN F,
         NEW G, G = Beside(F, p, n)
  PROVE  /\ IsFiniteSet(DOMAIN G) /\ G \in [DOMAIN G -> Nat] /\ DOMAIN G = DOMAIN F \cup {p}
         /\ OnDisk(F) \in Int /\ OnDisk(G) = OnDisk(F) + n
<1>1. G = [q \in DOMAIN F \cup {p} |-> IF q = p THEN n ELSE F[q]] BY DEF Beside
<1>2. IsFiniteSet(DOMAIN G) /\ G \in [DOMAIN G -> Nat] /\ DOMAIN G = DOMAIN F \cup {p} BY <1>1, FS_AddElement
<1>3. PICK E : E = DOMAIN F OBVIOUS
<1>4. IsFiniteSet(E) /\ F \in [E -> Int] /\ p \notin E /\ n \in Int BY <1>3
<1>5. G = [q \in E \cup {p} |-> IF q = p THEN n ELSE F[q]] BY <1>1, <1>3
<1> QED BY <1>2, <1>4, <1>5, SumOfOneMore, OnDiskIsInt

(* However far the extraction is, at most one byte is over the limit.         *)
LEMMA OneByteOver ==
  ASSUME OpenInv
  PROVE  OnDisk(imp.dir.files) <= MaxTotal + (IF imp.pc \in {"writing", "failed"} THEN 1 ELSE 0)
<1>1. OpenShape BY DEF OpenInv
<1>2. MaxTotal \in Nat /\ MaxEntry \in Nat BY OpenAssumption
<1>3. PICK F : F = imp.dir.files OBVIOUS
<1>4. IsFiniteSet(DOMAIN F) /\ F \in [DOMAIN F -> Int] /\ imp.left \in Nat BY <1>1, <1>3 DEF OpenShape
<1>5. OnDisk(F) \in Int BY <1>4, OnDiskIsInt
<1>6. CASE imp.pc \notin {"writing", "failed"}
  <2>1. CASE imp.dir = NoDirectory BY <1>2, <1>6, <2>1, NoFiles, SumOfNone
  <2>2. CASE OnDisk(F) + imp.left = MaxTotal BY <1>2, <1>3, <1>4, <1>5, <1>6, <2>2
  <2> QED BY <1>3, <1>6, <2>1, <2>2 DEF OpenInv
<1>7. CASE imp.pc = "failed" BY <1>7 DEF OpenInv
<1>8. CASE imp.pc = "writing"
  <2>1. HalfWritten BY <1>8 DEF OpenInv
  <2>2. PICK f, n : Before(f) /\ HalfOf(f, n) BY <2>1 DEF HalfWritten
  <2>3. archive[imp.at].size \in Nat BY <1>1, <2>1, OpenAssumption DEF HalfWritten, OpenShape
  <2>4. n \in Nat /\ n <= imp.left + 1
    <3>1. Written(archive[imp.at].size) \in Nat /\ Written(archive[imp.at].size) <= imp.left + 1
      BY <1>2, <1>4, <2>3 DEF Written, Allowance
    <3>2. n \in 0 .. Written(archive[imp.at].size) BY <2>2 DEF HalfOf
    <3> QED BY <1>4, <3>1, <3>2
  <2>5. OnDisk(f) \in Int /\ OnDisk(F) = OnDisk(f) + n
    <3>1. PICK p : p = PathOf(imp.at) OBVIOUS
    <3>2. IsFiniteSet(DOMAIN f) /\ f \in [DOMAIN f -> Nat] /\ p \notin DOMAIN f /\ F = Beside(f, p, n)
      BY <1>3, <2>2, <3>1 DEF Before, HalfOf
    <3> QED BY <2>4, <3>2, OneMoreFile
  <2>6. OnDisk(f) + imp.left = MaxTotal BY <2>2 DEF Before
  <2>7. OnDisk(F) <= MaxTotal + 1 BY <1>2, <1>4, <2>4, <2>5, <2>6
  <2> QED BY <1>3, <1>8, <2>7
<1> QED BY <1>6, <1>7, <1>8

(* A directory that is given up is removed, or left as it is.                 *)
LEMMA GivingUp ==
  ASSUME OpenInv, NEW end \in {"failed", "closed"}, end = "closed" => imp.pc = "opened",
         UNCHANGED archive, imp' \in Removed([imp EXCEPT !.pc = end])
  PROVE  OpenInv'
<1>1. OpenShape BY DEF OpenInv
<1>2. MaxTotal \in Nat BY OpenAssumption
<1>3. CASE imp' = [imp EXCEPT !.pc = end, !.dir = NoDirectory]
  <2>1. /\ imp' = [pc |-> end, at |-> imp.at, left |-> imp.left, seen |-> imp.seen, dir |-> NoDirectory, leaked |-> imp.leaked]
    BY <1>1, <1>3 DEF OpenShape
  <2>2. imp'.dir.files = <<>> /\ imp'.dir = NoDirectory BY <2>1, NoFiles
  <2>3. OpenShape' BY <1>1, <2>1, <2>2, NoFiles DEF OpenShape, NoDirectory
  <2>4. OnDisk(imp'.dir.files) <= MaxTotal + 1 BY <1>2, <2>2, SumOfNone
  <2> QED BY <2>1, <2>2, <2>3, <2>4 DEF OpenInv, Opened
<1>4. CASE imp' = [imp EXCEPT !.pc = end, !.leaked = TRUE]
  <2>1. /\ imp' = [pc |-> end, at |-> imp.at, left |-> imp.left, seen |-> imp.seen, dir |-> imp.dir, leaked |-> TRUE]
    BY <1>1, <1>4 DEF OpenShape
  <2>2. OpenShape' BY <1>1, <2>1 DEF OpenShape
  <2>3. imp'.pc = end /\ imp'.dir = imp.dir /\ imp'.left = imp.left /\ imp'.leaked BY <2>1
  <2>4. CASE end = "failed"
    <3>1. OnDisk(imp.dir.files) <= MaxTotal + 1
      <4>1. PICK F : F = imp.dir.files OBVIOUS
      <4>2. IsFiniteSet(DOMAIN F) /\ F \in [DOMAIN F -> Int] BY <1>1, <4>1 DEF OpenShape
      <4>3. OnDisk(F) \in Int BY <4>2, OnDiskIsInt
      <4> QED BY <1>2, <4>1, <4>3, OneByteOver
    <3> QED BY <2>2, <2>3, <2>4, <3>1 DEF OpenInv, Opened
  <2>5. CASE end = "closed"
    <3>1. imp.dir = NoDirectory \/ OnDisk(imp.dir.files) + imp.left = MaxTotal BY <2>5 DEF OpenInv
    <3> QED BY <2>2, <2>3, <2>5, <3>1 DEF OpenInv, Opened
  <2> QED BY <2>4, <2>5
<1> QED BY <1>1, <1>3, <1>4 DEF Removed, OpenShape

LEMMA FailsKeepsInv == ASSUME OpenInv, Fails PROVE OpenInv'
BY GivingUp DEF Fails

(* An entry that is accepted has a name of its own.                           *)
LEMMA EntryIsNew ==
  ASSUME OpenInv, HasEntry, ~EntryRefused
  PROVE  /\ imp.at \in 1 .. Len(archive) /\ imp.pc = "import"
         /\ \A i \in 1 .. imp.at - 1 : PathOf(i) # PathOf(imp.at)
<1>1. imp.pc = "import" /\ imp.at <= Len(archive) /\ Len(archive) \in Nat /\ imp.at \in 1 .. Len(archive) + 1
  BY OpenAssumption DEF OpenInv, OpenShape, HasEntry
<1>2. CollisionKey(PathOf(imp.at)) \notin {CollisionKey(PathOf(i)) : i \in 1 .. imp.at - 1}
  BY <1>1 DEF OpenInv, EntryRefused, ThisEntry, PathOf
<1> QED BY <1>1, <1>2

LEMMA ImportDirectoryKeepsInv == ASSUME OpenInv, ImportDirectory PROVE OpenInv'
<1>1. CASE Fails BY <1>1, FailsKeepsInv
<1>2. CASE AcceptEntry(MkdirAll(imp.dir, Clean(ThisEntry.name)), imp.left)
  <2>1. HasEntry /\ ~EntryRefused /\ ThisEntry.kind = "dir" BY DEF ImportDirectory
  <2>2. imp.at \in 1 .. Len(archive) /\ imp.pc = "import" /\ Len(archive) \in Nat BY <2>1, EntryIsNew, OpenAssumption DEF OpenInv, OpenShape
  <2>3. OpenShape BY DEF OpenInv
  <2>4. PICK D : D = MkdirAll(imp.dir, Clean(ThisEntry.name)) OBVIOUS
  <2>5. D = [there |-> imp.dir.there, files |-> imp.dir.files, dirs |-> D.dirs] BY <2>3, <2>4 DEF MkdirAll, OpenShape
  <2>6. PICK K : K = CollisionKey(Clean(ThisEntry.name)) OBVIOUS
  <2>7. /\ imp' = [pc |-> "import", at |-> imp.at + 1, left |-> imp.left, seen |-> imp.seen \cup {K}, dir |-> D, leaked |-> imp.leaked]
        /\ archive' = archive
    BY <1>2, <2>2, <2>3, <2>4, <2>6 DEF AcceptEntry, OpenShape
  <2>8. OpenShape' BY <2>2, <2>3, <2>5, <2>7 DEF OpenShape
  <2>9. Regular(imp.at) = Regular(imp.at - 1) BY <2>1, <2>2 DEF Regular, ThisEntry
  <2>10. FilesAre(D.files, imp.at) BY <2>2, <2>5, <2>9 DEF OpenInv, FilesAre
  <2>11. imp.seen \cup {K} = {CollisionKey(PathOf(i)) : i \in 1 .. imp.at}
    <3>1. imp.seen = {CollisionKey(PathOf(i)) : i \in 1 .. imp.at - 1} /\ K = CollisionKey(PathOf(imp.at))
      BY <2>2, <2>6 DEF OpenInv, PathOf, ThisEntry
    <3>2. 1 .. imp.at = (1 .. imp.at - 1) \cup {imp.at} BY <2>2
    <3> QED BY <3>1, <3>2
  <2>12. imp.dir # NoDirectory /\ OnDisk(imp.dir.files) + imp.left = MaxTotal BY <2>2 DEF OpenInv
  <2>13. D # NoDirectory /\ OnDisk(D.files) + imp.left = MaxTotal
    <3>1. D.dirs # {} BY <2>4, <2>3 DEF MkdirAll, OpenShape
    <3> QED BY <2>5, <2>12, <3>1 DEF NoDirectory
  <2>14. imp'.at - 1 = imp.at /\ imp'.dir = D /\ imp'.pc = "import" /\ imp'.left = imp.left /\ imp'.seen = imp.seen \cup {K} BY <2>2, <2>7
  <2>15. FilesAre(imp.dir.files, imp.at - 1)' /\ (imp.seen = {CollisionKey(PathOf(i)) : i \in 1 .. imp.at - 1})'
    BY <2>7, <2>10, <2>11, <2>14 DEF FilesAre, Regular, PathOf
  <2> QED BY <2>8, <2>13, <2>14, <2>15 DEF OpenInv, Opened
<1> QED BY <1>1, <1>2 DEF ImportDirectory

(* The file is made empty, beside those of the entries before it.             *)
LEMMA CreateFileKeepsInv == ASSUME OpenInv, CreateFile PROVE OpenInv'
<1>1. CASE Fails BY <1>1, FailsKeepsInv
<1>2. PICK path : path = PathHere OBVIOUS
<1>3. CASE imp' = [imp EXCEPT !.pc = "writing", !.dir = WithFile(imp.dir, PathHere, 0)] /\ UNCHANGED archive
  <2>1. HasEntry /\ ~EntryRefused /\ ThisEntry.kind = "reg" BY DEF CreateFile
  <2>2. imp.at \in 1 .. Len(archive) /\ imp.pc = "import" /\ Len(archive) \in Nat /\ archive[imp.at].size \in Nat /\ MaxEntry \in Nat
    BY <2>1, EntryIsNew, OpenAssumption DEF OpenInv, OpenShape
  <2>3. OpenShape BY DEF OpenInv
  <2>4. path = PathOf(imp.at) BY <1>2 DEF PathHere, PathOf, ThisEntry
  <2>5. PICK D : D = WithFile(imp.dir, path, 0) OBVIOUS
  <2>6. PICK F, G : F = imp.dir.files /\ G = Beside(F, path, 0) OBVIOUS
  <2>7. D = [there |-> imp.dir.there, files |-> G, dirs |-> D.dirs] BY <2>3, <2>5, <2>6 DEF WithFile, MkdirAll, OpenShape, Beside
  <2>8. /\ imp' = [pc |-> "writing", at |-> imp.at, left |-> imp.left, seen |-> imp.seen, dir |-> D, leaked |-> imp.leaked]
        /\ archive' = archive
    BY <1>2, <1>3, <2>3, <2>5 DEF OpenShape
  <2>9. FilesAre(F, imp.at - 1) BY <2>2, <2>6 DEF OpenInv
  <2>10. path \notin DOMAIN F
    <3>1. \A i \in Regular(imp.at - 1) : PathOf(i) # path BY <2>1, <2>4, EntryIsNew DEF Regular
    <3> QED BY <2>9, <3>1 DEF FilesAre
  <2>11. IsFiniteSet(DOMAIN F) /\ F \in [DOMAIN F -> Nat] BY <2>3, <2>6 DEF OpenShape
  <2>12. IsFiniteSet(DOMAIN G) /\ G \in [DOMAIN G -> Nat] /\ DOMAIN G = DOMAIN F \cup {path} BY <2>6, <2>10, <2>11, OneMoreFile
  <2>13. OpenShape' BY <2>3, <2>7, <2>8, <2>12 DEF OpenShape
  <2>14. D # NoDirectory
    <3>1. D.files = G /\ path \in DOMAIN G BY <2>7, <2>12
    <3> QED BY <3>1, NoFiles
  <2>15. imp'.at = imp.at /\ imp'.left = imp.left /\ imp'.pc = "writing" /\ imp'.dir = D /\ imp'.seen = imp.seen /\ D.files = G
    BY <2>7, <2>8
  <2>16. OnDisk(F) + imp.left = MaxTotal BY <2>2, <2>6 DEF OpenInv
  <2>17. Before(F)' BY <2>8, <2>9, <2>11, <2>15, <2>16 DEF Before, FilesAre, Regular, PathOf
  <2>18. HalfOf(F, 0)'
    <3>1. Written(archive[imp.at].size)' = Written(archive[imp.at].size) BY <2>8, <2>15 DEF Written, Allowance
    <3>2. Written(archive[imp.at].size) \in Nat BY <2>2, <2>3 DEF Written, Allowance, OpenShape
    <3>3. PathOf(imp.at)' = path BY <2>4, <2>8, <2>15 DEF PathOf
    <3> QED BY <2>6, <2>10, <2>15, <3>1, <3>2, <3>3 DEF HalfOf
  <2>19. HalfWritten' BY <2>1, <2>2, <2>8, <2>15, <2>17, <2>18 DEF HalfWritten, ThisEntry
  <2>20. (imp.seen = {CollisionKey(PathOf(i)) : i \in 1 .. imp.at - 1})' BY <2>2, <2>8, <2>15 DEF OpenInv, PathOf
  <2> QED BY <2>13, <2>14, <2>15, <2>19, <2>20 DEF OpenInv, Opened
<1> QED BY <1>1, <1>3 DEF CreateFile

(* More of it is written.                                                     *)
LEMMA CopyFileKeepsInv == ASSUME OpenInv, CopyFile PROVE OpenInv'
<1>1. PICK n \in OnDiskHere + 1 .. Written(ThisEntry.size) :
        imp' = [imp EXCEPT !.dir = WithFile(imp.dir, PathHere, n)] /\ UNCHANGED archive
  BY DEF CopyFile
<1>2. OpenShape /\ imp.pc = "writing" /\ HalfWritten BY DEF CopyFile, OpenInv
<1>3. PICK F, m : Before(F) /\ HalfOf(F, m) BY <1>2 DEF HalfWritten
<1>4. PICK path : path = PathOf(imp.at) OBVIOUS
<1>5. PathHere = path /\ ThisEntry.size = archive[imp.at].size BY <1>4 DEF PathHere, PathOf, ThisEntry
<1>6. imp.dir.files = Beside(F, path, m) /\ path \notin DOMAIN F /\ m \in 0 .. Written(archive[imp.at].size) BY <1>3, <1>4 DEF HalfOf
<1>7. OnDiskHere = m BY <1>5, <1>6 DEF OnDiskHere, Beside
<1>8. archive[imp.at].size \in Nat /\ Written(archive[imp.at].size) \in Nat
  BY <1>2, OpenAssumption DEF HalfWritten, OpenShape, Written, Allowance
<1>9. n \in 0 .. Written(archive[imp.at].size) /\ n \in Nat BY <1>1, <1>5, <1>6, <1>7, <1>8
<1>10. PICK D : D = WithFile(imp.dir, path, n) OBVIOUS
<1>11. PICK G : G = Beside(F, path, n) OBVIOUS
<1>12. D = [there |-> imp.dir.there, files |-> G, dirs |-> D.dirs]
  <2>1. D = [there |-> imp.dir.there, dirs |-> D.dirs,
             files |-> [p \in DOMAIN imp.dir.files \cup {path} |-> IF p = path THEN n ELSE imp.dir.files[p]]]
    BY <1>2, <1>10 DEF WithFile, MkdirAll, OpenShape
  <2>2. [p \in DOMAIN imp.dir.files \cup {path} |-> IF p = path THEN n ELSE imp.dir.files[p]] = G BY <1>6, <1>11 DEF Beside
  <2> QED BY <2>1, <2>2
<1>13. /\ imp' = [pc |-> "writing", at |-> imp.at, left |-> imp.left, seen |-> imp.seen, dir |-> D, leaked |-> imp.leaked]
       /\ archive' = archive
  BY <1>1, <1>2, <1>5, <1>10 DEF OpenShape
<1>14. IsFiniteSet(DOMAIN F) /\ F \in [DOMAIN F -> Nat] BY <1>3 DEF Before
<1>15. IsFiniteSet(DOMAIN G) /\ G \in [DOMAIN G -> Nat] /\ DOMAIN G = DOMAIN F \cup {path} BY <1>6, <1>9, <1>11, <1>14, OneMoreFile
<1>16. OpenShape' BY <1>2, <1>12, <1>13, <1>15 DEF OpenShape
<1>17. D # NoDirectory
  <2>1. D.files = G /\ path \in DOMAIN G BY <1>12, <1>15
  <2> QED BY <2>1, NoFiles
<1>18. imp'.at = imp.at /\ imp'.left = imp.left /\ imp'.pc = "writing" /\ imp'.dir = D /\ imp'.seen = imp.seen /\ D.files = G
  BY <1>12, <1>13
<1>19. Before(F)' BY <1>3, <1>13, <1>18 DEF Before, FilesAre, Regular, PathOf
<1>20. HalfOf(F, n)'
  <2>1. Written(archive[imp.at].size)' = Written(archive[imp.at].size) BY <1>13, <1>18 DEF Written, Allowance
  <2>2. PathOf(imp.at)' = path BY <1>4, <1>13, <1>18 DEF PathOf
  <2> QED BY <1>6, <1>9, <1>11, <1>18, <2>1, <2>2 DEF HalfOf
<1>21. HalfWritten' BY <1>2, <1>13, <1>18, <1>19, <1>20 DEF HalfWritten
<1>22. (imp.seen = {CollisionKey(PathOf(i)) : i \in 1 .. imp.at - 1})' BY <1>2, <1>13, <1>18 DEF OpenInv, PathOf
<1> QED BY <1>16, <1>17, <1>18, <1>21, <1>22 DEF OpenInv, Opened

(* All of the entry is written, and no more than it may: the file is whole.   *)
LEMMA ExtractRegularFileKeepsInv == ASSUME OpenInv, ExtractRegularFile PROVE OpenInv'
<1>1. /\ imp.pc = "writing" /\ OnDiskHere = Written(ThisEntry.size) /\ OnDiskHere <= Allowance
      /\ AcceptEntry(imp.dir, imp.left - OnDiskHere)
  BY DEF ExtractRegularFile
<1>2. OpenShape /\ HalfWritten BY <1>1 DEF OpenInv
<1>3. PICK F, n : Before(F) /\ HalfOf(F, n) BY <1>2 DEF HalfWritten
<1>4. PICK path : path = PathOf(imp.at) OBVIOUS
<1>5. PathHere = path /\ ThisEntry.size = archive[imp.at].size BY <1>4 DEF PathHere, PathOf, ThisEntry
<1>6. imp.dir.files = Beside(F, path, n) /\ path \notin DOMAIN F /\ n \in 0 .. Written(archive[imp.at].size) BY <1>3, <1>4 DEF HalfOf
<1>7. OnDiskHere = n BY <1>5, <1>6 DEF OnDiskHere, Beside
<1>8. imp.at \in 1 .. Len(archive) /\ Len(archive) \in Nat /\ archive[imp.at].size \in Nat /\ MaxEntry \in Nat /\ imp.left \in Nat
  BY <1>2, OpenAssumption DEF HalfWritten, OpenShape
<1>9. n = archive[imp.at].size /\ n \in Nat /\ imp.left - n \in Nat
  <2>1. Allowance \in Nat /\ Allowance <= imp.left BY <1>8 DEF Allowance
  <2>2. n = IF archive[imp.at].size > Allowance THEN Allowance + 1 ELSE archive[imp.at].size BY <1>1, <1>5, <1>7 DEF Written
  <2> QED BY <1>1, <1>7, <1>8, <2>1, <2>2
<1>10. PICK G : G = imp.dir.files OBVIOUS
<1>11. IsFiniteSet(DOMAIN F) /\ F \in [DOMAIN F -> Nat] /\ FilesAre(F, imp.at - 1) /\ OnDisk(F) + imp.left = MaxTotal BY <1>3 DEF Before
<1>12. DOMAIN G = DOMAIN F \cup {path} /\ OnDisk(F) \in Int /\ OnDisk(G) = OnDisk(F) + n
  <2>1. G = Beside(F, path, n) /\ path \notin DOMAIN F BY <1>6, <1>10
  <2> QED BY <1>9, <1>11, <2>1, OneMoreFile
<1>13. PICK K : K = CollisionKey(Clean(ThisEntry.name)) OBVIOUS
<1>14. /\ imp' = [pc |-> "import", at |-> imp.at + 1, left |-> imp.left - n, seen |-> imp.seen \cup {K}, dir |-> imp.dir, leaked |-> imp.leaked]
       /\ archive' = archive
  BY <1>1, <1>2, <1>7, <1>13 DEF AcceptEntry, OpenShape
<1>15. OpenShape'
  <2>1. imp'.at \in 1 .. Len(archive) + 1 /\ imp'.left \in Nat BY <1>8, <1>9, <1>14
  <2> QED BY <1>2, <1>14, <2>1 DEF OpenShape
<1>16. Regular(imp.at) = Regular(imp.at - 1) \cup {imp.at} BY <1>2, <1>8 DEF Regular, HalfWritten
<1>17. FilesAre(G, imp.at)
  <2>1. DOMAIN G = {PathOf(i) : i \in Regular(imp.at)} BY <1>4, <1>11, <1>12, <1>16 DEF FilesAre
  <2>2. ASSUME NEW i \in Regular(imp.at) PROVE G[PathOf(i)] = archive[i].size
    <3>1. CASE i = imp.at BY <1>4, <1>6, <1>9, <1>10, <3>1 DEF Beside
    <3>2. CASE i \in Regular(imp.at - 1)
      <4>1. PathOf(i) \in DOMAIN F /\ F[PathOf(i)] = archive[i].size BY <1>11, <3>2 DEF FilesAre
      <4>2. PathOf(i) # path BY <1>6, <4>1
      <4> QED BY <1>6, <1>10, <4>1, <4>2 DEF Beside
    <3> QED BY <1>16, <3>1, <3>2
  <2> QED BY <2>1, <2>2 DEF FilesAre
<1>18. imp.seen \cup {K} = {CollisionKey(PathOf(i)) : i \in 1 .. imp.at}
  <2>1. imp.seen = {CollisionKey(PathOf(i)) : i \in 1 .. imp.at - 1} /\ K = CollisionKey(PathOf(imp.at))
    BY <1>1, <1>13 DEF OpenInv, PathOf, ThisEntry
  <2>2. 1 .. imp.at = (1 .. imp.at - 1) \cup {imp.at} BY <1>8
  <2> QED BY <2>1, <2>2
<1>19. OnDisk(G) + (imp.left - n) = MaxTotal BY <1>8, <1>9, <1>11, <1>12
<1>20. imp.dir # NoDirectory BY <1>1 DEF OpenInv
<1>21. imp'.at - 1 = imp.at /\ imp'.dir = imp.dir /\ imp'.pc = "import" /\ imp'.left = imp.left - n /\ imp'.seen = imp.seen \cup {K}
  BY <1>8, <1>14
<1>22. FilesAre(imp.dir.files, imp.at - 1)' /\ (imp.seen = {CollisionKey(PathOf(i)) : i \in 1 .. imp.at - 1})'
  BY <1>10, <1>14, <1>17, <1>18, <1>21 DEF FilesAre, Regular, PathOf
<1>23. OnDisk(imp'.dir.files) + imp'.left = MaxTotal BY <1>10, <1>19, <1>21
<1> QED BY <1>15, <1>20, <1>21, <1>22, <1>23 DEF OpenInv, Opened

(* The steps that read no entry.                                              *)
LEMMA OtherStepsKeepInv ==
  ASSUME OpenInv, MkdirTemp \/ ImportDone \/ LoadDocument
  PROVE  OpenInv'
<1>1. OpenShape BY DEF OpenInv
<1>2. archive' = archive /\ Len(archive) \in Nat /\ MaxTotal \in Nat
  BY <1>1, OpenAssumption DEF MkdirTemp, ImportDone, LoadDocument, OpenShape
<1>3. ASSUME NEW end, end \in Opened \cup {"failed"}, imp' = [imp EXCEPT !.pc = end]
      PROVE  /\ imp' = [pc |-> end, at |-> imp.at, left |-> imp.left, seen |-> imp.seen, dir |-> imp.dir, leaked |-> imp.leaked]
             /\ OpenShape'
  <2>1. imp' = [pc |-> end, at |-> imp.at, left |-> imp.left, seen |-> imp.seen, dir |-> imp.dir, leaked |-> imp.leaked]
    BY <1>1, <1>3 DEF OpenShape
  <2>2. imp'.pc \in Opened \cup {"stat", "import", "writing", "failed", "closed"} BY <1>3, <2>1
  <2> QED BY <1>1, <1>2, <2>1, <2>2 DEF OpenShape
<1>4. CASE MkdirTemp
  <2>1. imp.pc = "stat" /\ imp.at = 1 /\ imp.left = MaxTotal /\ imp.seen = {} /\ imp.dir = NoDirectory BY <1>4 DEF MkdirTemp, OpenInv
  <2>2. CASE imp' = [imp EXCEPT !.pc = "failed"]
    <3>1. OpenShape' /\ imp'.pc = "failed" /\ imp'.dir = NoDirectory BY <1>3, <2>1, <2>2
    <3>2. OnDisk(imp'.dir.files) <= MaxTotal + 1 BY <1>2, <3>1, NoFiles, SumOfNone
    <3> QED BY <3>1, <3>2 DEF OpenInv, Opened
  <2>3. CASE imp' = [imp EXCEPT !.pc = "import", !.dir = NewDirectory]
    <3>1. imp' = [pc |-> "import", at |-> 1, left |-> MaxTotal, seen |-> {}, dir |-> NewDirectory, leaked |-> imp.leaked]
      BY <1>1, <2>1, <2>3 DEF OpenShape
    <3>2. imp'.dir.files = <<>> /\ NewDirectory # NoDirectory BY <3>1 DEF NewDirectory, NoDirectory
    <3>3. OpenShape'
      <4>1. imp'.at \in 1 .. Len(archive) + 1 /\ imp'.left \in Nat BY <1>2, <3>1
      <4>2. IsFiniteSet(DOMAIN imp'.dir.files) /\ imp'.dir.files \in [DOMAIN imp'.dir.files -> Nat] BY <3>2, NoFiles
      <4> QED BY <1>1, <1>2, <3>1, <4>1, <4>2 DEF OpenShape, NewDirectory
    <3>4. OnDisk(imp'.dir.files) + imp'.left = MaxTotal BY <1>2, <3>1, <3>2, SumOfNone
    <3>5. FilesAre(imp.dir.files, imp.at - 1)' /\ (imp.seen = {CollisionKey(PathOf(i)) : i \in 1 .. imp.at - 1})'
      BY <3>1, <3>2, NoFiles DEF FilesAre, Regular
    <3> QED BY <3>1, <3>2, <3>3, <3>4, <3>5 DEF OpenInv, Opened
  <2> QED BY <1>4, <2>2, <2>3 DEF MkdirTemp
<1>5. CASE ImportDone
  <2>1. imp.pc = "import" /\ imp.at > Len(archive) /\ imp' = [imp EXCEPT !.pc = "lock"] BY <1>5 DEF ImportDone
  <2>2. OpenShape' /\ imp'.pc = "lock" /\ imp'.dir = imp.dir /\ imp'.left = imp.left BY <1>3, <2>1 DEF Opened
  <2>3. imp.at - 1 = Len(archive) BY <1>1, <1>2, <2>1 DEF OpenShape
  <2>4. FilesAre(imp.dir.files, Len(archive)) BY <2>1, <2>3 DEF OpenInv
  <2>5. FilesAre(imp.dir.files, Len(archive))' BY <1>2, <2>2, <2>4 DEF FilesAre, Regular, PathOf
  <2>6. (imp.dir = NoDirectory \/ OnDisk(imp.dir.files) + imp.left = MaxTotal)' BY <2>1, <2>2 DEF OpenInv
  <2> QED BY <2>2, <2>5, <2>6 DEF OpenInv
<1>6. CASE LoadDocument
  <2>1. PICK i \in 1 .. 4 : imp.pc = Loads[i] /\ imp' = [imp EXCEPT !.pc = Loads[i + 1]] BY <1>6 DEF LoadDocument
  <2>2. imp.pc \in Opened /\ Loads[i + 1] \in Opened BY <2>1 DEF Loads, Opened
  <2>3. OpenShape' /\ imp'.pc = Loads[i + 1] /\ imp'.dir = imp.dir /\ imp'.left = imp.left BY <1>3, <2>1, <2>2
  <2>4. FilesAre(imp.dir.files, Len(archive)) BY <2>2 DEF OpenInv
  <2>5. FilesAre(imp.dir.files, Len(archive))' BY <1>2, <2>3, <2>4 DEF FilesAre, Regular, PathOf
  <2>6. (imp.dir = NoDirectory \/ OnDisk(imp.dir.files) + imp.left = MaxTotal)' BY <2>2, <2>3 DEF OpenInv, Opened
  <2>7. imp'.pc \notin {"stat", "import", "writing", "failed", "closed"} BY <2>2, <2>3 DEF Opened
  <2> QED BY <2>3, <2>5, <2>6, <2>7 DEF OpenInv
<1> QED BY <1>4, <1>5, <1>6

LEMMA OpenStep == OpenInv /\ [OpenNext]_ovars => OpenInv'
<1>1. SUFFICES ASSUME OpenInv, [OpenNext]_ovars PROVE OpenInv' OBVIOUS
<1>2. CASE MkdirTemp \/ ImportDone \/ LoadDocument BY <1>1, <1>2, OtherStepsKeepInv
<1>3. CASE StopImport \/ RefuseEntry \/ ExtractFails \/ LoadFails
  BY <1>1, <1>3, FailsKeepsInv DEF StopImport, RefuseEntry, ExtractFails, LoadFails
<1>4. CASE ImportDirectory BY <1>1, <1>4, ImportDirectoryKeepsInv
<1>5. CASE CreateFile \/ CopyFile \/ ExtractRegularFile
  BY <1>1, <1>5, CreateFileKeepsInv, CopyFileKeepsInv, ExtractRegularFileKeepsInv
<1>6. CASE CloseBundle BY <1>1, <1>6, GivingUp DEF CloseBundle
<1>7. CASE UNCHANGED ovars
  <2>1. imp' = imp /\ archive' = archive BY <1>7 DEF ovars
  <2>2. HalfWritten' = HalfWritten
    BY <2>1 DEF HalfWritten, Before, HalfOf, FilesAre, Regular, PathOf, Written, Allowance
  <2> QED BY <1>1, <2>1, <2>2 DEF OpenInv, OpenShape, FilesAre, Regular, PathOf
<1> QED BY <1>1, <1>2, <1>3, <1>4, <1>5, <1>6, <1>7 DEF OpenNext

(* What Open gives is the archive, whole, or nothing; and while it extracts,  *)
(* and in what a failed call may leave, never more than one byte over the     *)
(* limit (Open and ImportTar of core/bundle).                                 *)
THEOREM OpenGivesTheArchive == OpenSpec => []OpenIsAllOrNothing
<1>1. ASSUME OpenInv PROVE OpenIsAllOrNothing
  <2>1. OpenShape BY <1>1 DEF OpenInv
  <2>2. Len(archive) \in Nat /\ DOMAIN archive = 1 .. Len(archive) /\ MaxTotal \in Nat BY <2>1, OpenAssumption DEF OpenShape
  <2>3. PICK regular : regular = {i \in DOMAIN archive : archive[i].kind = "reg"} OBVIOUS
  <2>4. regular = Regular(Len(archive)) BY <2>2, <2>3 DEF Regular
  <2>5. imp.pc \in Opened => /\ DOMAIN imp.dir.files = {Clean(archive[i].name) : i \in regular}
                             /\ \A i \in regular : imp.dir.files[Clean(archive[i].name)] = archive[i].size
    BY <1>1, <2>4 DEF OpenInv, FilesAre, PathOf
  <2>6. imp.pc \in {"failed", "closed"} => imp.dir = NoDirectory \/ imp.leaked BY <1>1 DEF OpenInv
  <2>7. OnDisk(imp.dir.files) <= MaxTotal + (IF imp.pc \in {"writing", "failed"} THEN 1 ELSE 0) BY <1>1, OneByteOver
  <2> QED BY <2>3, <2>5, <2>6, <2>7 DEF OpenIsAllOrNothing, Opened
<1> QED BY <1>1, OpenInit_Inv, OpenStep, PTL DEF OpenSpec
=============================================================================
