--------------------------- MODULE InstallProofs ---------------------------
(***************************************************************************)
(* Proofs about Install, for every bundle, medium, machine and set of      *)
(* options that satisfy Install's assumptions, and about AptBackend, for   *)
(* every archive, snapshot and request; both for every bound.              *)
(***************************************************************************)
EXTENDS AptBackend, Install, TLAPS

Places == {"idle", "verify", "files", "lock", "machine", "select", "update", "simulate", "plan",
           "apt", "pool", "unpack", "source", "record"}
Results == {"none", "usage", "verification", "environment", "mismatch", "resolution", "ok", "killed"}

AnyOptions == RunOptions \cup {NoRun.opts}
AnyManifest == {b.manifest.files : b \in Media} \cup {NoRun.manifest}
AnyDoc == {LockDocs[x] : x \in Byte} \cup {NoDoc}
Problems == PathSet \cup {"manifest", "disk", "apt"}

Runs == [pc : Places, opts : AnyOptions, at : Nat, manifest : AnyManifest, signed : BOOLEAN,
         problems : SUBSET Problems, lk : AnyDoc, names : SUBSET Debs, lists : Byte, files : SUBSET Debs,
         missing : SUBSET Debs, failed : BOOLEAN, applied : BOOLEAN, ok : BOOLEAN,
         warned : SUBSET {"source", "evidence"}, result : Results]

AnyBundle == [manifest : {b.manifest : b \in Media}, sig : {b.sig : b \in Media},
              disk : [PathSet -> Byte], shared : {b.shared : b \in Media}]
States == {"absent", "unpacked", "installed"}
Machines == [packages : [Debs -> [state : States, from : Byte]], source : BOOLEAN]

Types == /\ bundle \in AnyBundle /\ machine \in Machines /\ before \in Machines /\ run \in Runs
         /\ late \subseteq PathSet

LEMMA NoRunIsRun == NoRun \in Runs
<1>1. NoRun.opts \in AnyOptions /\ NoRun.manifest \in AnyManifest
  BY DEF AnyOptions, AnyManifest
<1>2. NoDoc \in AnyDoc /\ 0 \in Byte
  BY DEF AnyDoc, Byte, Missing
<1> QED  BY <1>1, <1>2 DEF NoRun, Runs, Places, Results

-----------------------------------------------------------------------------
(* Types.                                                                  *)

LEMMA DocNames ==
  ASSUME NEW doc \in AnyDoc
  PROVE  DOMAIN doc.packages \subseteq Debs /\ doc.install \subseteq Debs /\ doc.upgrade \subseteq Debs
         /\ doc.assumed \subseteq Debs
<1>1. CASE doc = NoDoc
  <2> DOMAIN << >> = {}
    OBVIOUS
  <2> QED  BY <1>1 DEF NoDoc
<1>2. CASE \E x \in Byte : doc = LockDocs[x]
  BY <1>2, LockDocsAssumption
<1> QED  BY <1>1, <1>2 DEF AnyDoc

LEMMA BundleFields ==
  ASSUME Types
  PROVE  /\ \A p \in PathSet : Bytes(p) \in Byte
         /\ bundle.manifest.files \in AnyManifest
         /\ \A d \in Debs : Bytes(d) \in Byte
         /\ Bytes(Index) \in Byte /\ Bytes(LockFile) \in Byte
<1>1. \A p \in PathSet : Bytes(p) \in Byte
  BY DEF Types, AnyBundle, Bytes
<1>2. PICK b \in Media : bundle.manifest = b.manifest
  BY DEF Types, AnyBundle
<1> QED  BY <1>1, <1>2, PathsAssumption DEF AnyManifest

LEMMA ChangedMachine ==
  ASSUME Types, NEW ds \in SUBSET Debs, NEW ks \in SUBSET Debs, NEW state \in States
  PROVE  /\ SetTo(machine.packages, ds, state) \in [Debs -> [state : States, from : Byte]]
         /\ Configured(machine.packages, ks) \in [Debs -> [state : States, from : Byte]]
         /\ Configured(SetTo(machine.packages, ds, state), ks) \in [Debs -> [state : States, from : Byte]]
<1> DEFINE M == [Debs -> [state : States, from : Byte]]
<1>1. machine.packages \in M
  BY DEF Types, Machines
<1>2. SetTo(machine.packages, ds, state) \in M
  BY <1>1, BundleFields DEF SetTo
<1>3. ASSUME NEW m \in M  PROVE Configured(m, ks) \in M
  BY DEF Configured, States
<1> QED  BY <1>1, <1>2, <1>3

LEMMA TypesStep == Types /\ InstallNext => Types'
<1> SUFFICES ASSUME Types, InstallNext PROVE Types'
  OBVIOUS
<1>b. /\ \A p \in PathSet : Bytes(p) \in Byte /\ \A d \in Debs : Bytes(d) \in Byte
      /\ bundle.manifest.files \in AnyManifest /\ Bytes(Index) \in Byte /\ Bytes(LockFile) \in Byte
  BY BundleFields
<1>r. run \in Runs
  BY DEF Types
<1>g. ASSUME NEW r \in Runs, Go(r)  PROVE Types'
  BY <1>g DEF Go, Types
<1>f. ASSUME NEW class \in Results, Finish(class)  PROVE Types'
  <2>1. [run EXCEPT !.pc = "idle", !.result = class] \in Runs
    BY <1>r DEF Runs, Places
  <2> QED  BY <1>f, <1>g, <2>1 DEF Finish
<1>c. ASSUME NEW r \in Runs, NEW ps \in [Debs -> [state : States, from : Byte]], Change(ps, r)  PROVE Types'
  <2>1. [machine EXCEPT !.packages = ps] \in Machines
    BY DEF Types, Machines
  <2> QED  BY <1>c, <2>1 DEF Change, Types
<1>1. ASSUME NEW o \in RunOptions, Execute(o)  PROVE Types'
  <2>1. o \in AnyOptions
    BY DEF AnyOptions
  <2>2. run' \in Runs
    <3>1. [NoRun EXCEPT !.opts = o, !.result = "usage"] \in Runs
      BY <2>1, NoRunIsRun DEF Runs, Results
    <3>2. [NoRun EXCEPT !.opts = o, !.pc = "verify"] \in Runs
      BY <2>1, NoRunIsRun DEF Runs, Places
    <3> QED  BY <1>1, <3>1, <3>2 DEF Execute
  <2> QED  BY <1>1, <2>2 DEF Execute, Types
<1>2. ASSUME MediumChanges  PROVE Types'
  <2>1. PICK i \in DOMAIN Paths, c \in Byte :
          /\ bundle' = [bundle EXCEPT !.disk[Paths[i]] = c]
          /\ late' = IF Checked(Paths[i]) THEN late \cup {Paths[i]} ELSE late
    BY <1>2 DEF MediumChanges
  <2>2. Paths[i] \in PathSet
    BY DEF PathSet
  <2>3. bundle' \in AnyBundle
    BY <2>1, <2>2 DEF Types, AnyBundle
  <2>4. late' \subseteq PathSet
    BY <2>1, <2>2 DEF Types
  <2> QED  BY <1>2, <2>3, <2>4 DEF MediumChanges, Types
<1>3. CASE InstallKilled
  BY <1>3, <1>f DEF InstallKilled, Results
<1>4. CASE VerifyManifest
  <2> DEFINE sig == CheckSignatures(bundle.sig, Options)
             ps == IF bundle.manifest.dup THEN {"manifest"} ELSE {}
  <2>1. [run EXCEPT !.pc = "files", !.manifest = bundle.manifest.files, !.signed = (sig = "signed"), !.problems = ps] \in Runs
    <3>1. ps \in SUBSET Problems /\ (sig = "signed") \in BOOLEAN
      BY DEF Problems
    <3> HIDE DEF sig, ps
    <3> QED  BY <1>r, <1>b, <3>1 DEF Runs, Places
  <2>2. \/ \E class \in {"usage", "verification", "environment"} : Finish(class)
        \/ Go([run EXCEPT !.pc = "files", !.manifest = bundle.manifest.files, !.signed = (sig = "signed"), !.problems = ps])
    BY <1>4 DEF VerifyManifest
  <2> HIDE DEF sig, ps
  <2> QED  BY <1>g, <1>f, <2>1, <2>2 DEF Results
<1>5. CASE CheckFile
  <2> DEFINE ps == FileProblem(Paths[run.at + 1])
  <2>1. Go([run EXCEPT !.at = @ + 1, !.problems = @ \cup ps]) /\ run.at < Len(Paths)
    BY <1>5 DEF CheckFile
  <2>2. run.at + 1 \in DOMAIN Paths
    BY <1>r, <2>1, PathsAssumption DEF Runs
  <2>3. ps \in SUBSET Problems
    BY <2>2 DEF FileProblem, Problems, PathSet
  <2> HIDE DEF ps
  <2>4. run.problems \cup ps \in SUBSET Problems /\ run.at + 1 \in Nat
    BY <1>r, <2>3 DEF Runs
  <2>5. \A qs \in SUBSET Problems, n \in Nat : [run EXCEPT !.at = n, !.problems = qs] \in Runs
    BY <1>r DEF Runs
  <2> QED  BY <1>g, <2>1, <2>4, <2>5
<1>6. CASE CheckLock
  <2>1. [run EXCEPT !.pc = "lock"] \in Runs
    BY <1>r DEF Runs, Places
  <2> QED  BY <1>6, <1>f, <1>g, <2>1 DEF CheckLock, Results
<1>7. CASE LoadLock
  <2>1. LockDocs[Bytes(LockFile)] \in AnyDoc
    BY <1>b DEF AnyDoc
  <2>2. [run EXCEPT !.pc = "machine", !.lk = LockDocs[Bytes(LockFile)]] \in Runs
    BY <1>r, <2>1 DEF Runs, Places
  <2> QED  BY <1>7, <1>f, <1>g, <2>2 DEF LoadLock, Results
<1>8. CASE CheckMachine
  <2> DEFINE ds == BaseDivergence(run.lk.assumed)
  <2>1. ds \in SUBSET Debs
    BY <1>r, DocNames DEF Runs, BaseDivergence
  <2>2. \/ \E class \in {"usage", "mismatch", "environment"} : Finish(class)
        \/ Go([run EXCEPT !.pc = "select", !.missing = ds])
    BY <1>8 DEF CheckMachine
  <2> HIDE DEF ds
  <2>3. [run EXCEPT !.pc = "select", !.missing = ds] \in Runs
    BY <1>r, <2>1 DEF Runs, Places
  <2> QED  BY <1>f, <1>g, <2>2, <2>3 DEF Results
<1>9. CASE Select
  <2> DEFINE names == SelectInstallSet(run.lk, Options)
  <2>1. names \in SUBSET Debs
    BY <1>r, DocNames DEF Runs, SelectInstallSet
  <2>2. MissingPoolFiles(names) \in SUBSET Problems
    BY <2>1, PathsAssumption DEF MissingPoolFiles, Problems
  <2>3. \/ Finish("usage")
        \/ \E disk \in {{}, {"disk"}}, pc \in {"plan", "update"} :
              Go([run EXCEPT !.names = names, !.problems = MissingPoolFiles(names) \cup disk, !.pc = pc])
    BY <1>9 DEF Select
  <2> HIDE DEF names
  <2>4. ASSUME NEW disk \in {{}, {"disk"}}, NEW pc \in {"plan", "update"}
        PROVE  [run EXCEPT !.names = names, !.problems = MissingPoolFiles(names) \cup disk, !.pc = pc] \in Runs
    <3> DEFINE ps == MissingPoolFiles(names) \cup disk
    <3>1. ps \in SUBSET Problems
      BY <2>2 DEF Problems
    <3> HIDE DEF ps
    <3>2. [run EXCEPT !.names = names, !.problems = ps, !.pc = pc] \in Runs
      BY <1>r, <2>1, <3>1 DEF Runs, Places
    <3> QED  BY <3>2 DEF ps
  <2> QED  BY <1>f, <1>g, <2>3, <2>4 DEF Results
<1>10. CASE AptUpdate
  <2>1. ASSUME NEW pc \in {"plan", "simulate"}  PROVE [run EXCEPT !.lists = Bytes(Index), !.pc = pc] \in Runs
    BY <1>r, <1>b DEF Runs, Places
  <2> QED  BY <1>10, <1>f, <1>g, <2>1 DEF AptUpdate, Results
<1>11. CASE AptSimulate
  <2>1. PICK found \in {{}, {"apt"}} : Go([run EXCEPT !.problems = @ \cup found, !.pc = "plan"])
    BY <1>11 DEF AptSimulate
  <2>2. [run EXCEPT !.problems = @ \cup found, !.pc = "plan"] \in Runs
    BY <1>r DEF Runs, Places, Problems
  <2> QED  BY <1>g, <2>1, <2>2
<1>12. CASE PlanInstall
  <2>1. RefusalClass(run.problems) \in Results
    BY DEF RefusalClass, Results
  <2>2. [run EXCEPT !.pc = "idle", !.ok = (run.problems = {}), !.result = "ok"] \in Runs
    BY <1>r DEF Runs, Places, Results
  <2>3. ASSUME NEW pc \in {"pool", "apt"}  PROVE [run EXCEPT !.pc = pc] \in Runs
    BY <1>r DEF Runs, Places
  <2> QED  BY <1>12, <1>f, <1>g, <2>1, <2>2, <2>3 DEF PlanInstall, Results
<1>w. Failed \in Runs
  BY <1>r DEF Failed, Runs, Places
<1>13. CASE ApplyApt
  <2> DEFINE good == {d \in run.names : Acceptable(d)}
  <2>1. good \in SUBSET Debs
    BY <1>r DEF Runs
  <2>2. [run EXCEPT !.pc = "source"] \in Runs
    BY <1>r DEF Runs, Places
  <2>3. \/ Change(Configured(SetTo(machine.packages, good, "installed"), Debs), [run EXCEPT !.pc = "source"])
        \/ \E un \in SUBSET good : \E done \in SUBSET un :
             Change(Configured(SetTo(machine.packages, un, "unpacked"), done), Failed)
        \/ Go([run EXCEPT !.pc = "source"])
    BY <1>13 DEF ApplyApt
  <2> HIDE DEF good
  <2>4. \/ \E ps \in [Debs -> [state : States, from : Byte]], r \in Runs : Change(ps, r)
        \/ \E r \in Runs : Go(r)
    BY <1>w, <2>1, <2>2, <2>3, ChangedMachine DEF States
  <2> QED  BY <1>c, <1>g, <2>4
<1>14. CASE ListPool
  <2>1. [run EXCEPT !.pc = "unpack", !.files = PoolDebFiles] \in Runs
    BY <1>r DEF Runs, Places, PoolDebFiles
  <2> QED  BY <1>14, <1>g, <1>w, <2>1 DEF ListPool
<1>15. CASE Unpack
  <2>1. Chunk \in SUBSET Debs
    BY <1>r DEF Runs, Chunk
  <2>2. [run EXCEPT !.files = @ \ Chunk] \in Runs
    BY <1>r DEF Runs
  <2>3. \/ Change(SetTo(machine.packages, Chunk, "unpacked"), [run EXCEPT !.files = @ \ Chunk])
        \/ \E un \in SUBSET Chunk : Change(SetTo(machine.packages, un, "unpacked"), Failed)
    BY <1>15 DEF Unpack, Present
  <2>4. \/ \E ps \in [Debs -> [state : States, from : Byte]], r \in Runs : Change(ps, r)
    BY <1>w, <2>1, <2>2, <2>3, ChangedMachine DEF States
  <2> QED  BY <1>c, <2>4
<1>16. CASE Configure
  <2>1. [run EXCEPT !.pc = "record"] \in Runs
    BY <1>r DEF Runs, Places
  <2>2. \/ \E ps \in [Debs -> [state : States, from : Byte]], r \in Runs : Change(ps, r)
    BY <1>16, <1>w, <2>1, ChangedMachine DEF States, Configure
  <2> QED  BY <1>c, <2>2
<1>17. CASE PersistSource
  <2>1. \A ws \in SUBSET {"source", "evidence"} : [run EXCEPT !.pc = "record", !.warned = ws] \in Runs
    BY <1>r DEF Runs, Places
  <2>2. [run EXCEPT !.pc = "record"] \in Runs
    BY <1>r DEF Runs, Places
  <2>3. [machine EXCEPT !.source = TRUE] \in Machines
    BY DEF Types, Machines
  <2>4. CASE Go([run EXCEPT !.pc = "record", !.warned = IF Options.keep THEN @ \cup {"source"} ELSE @])
    <3>1. (IF Options.keep THEN run.warned \cup {"source"} ELSE run.warned) \in SUBSET {"source", "evidence"}
      BY <1>r DEF Runs
    <3> QED  BY <1>g, <2>1, <2>4, <3>1
  <2> QED  BY <1>17, <2>2, <2>3, <2>4 DEF PersistSource, Types
<1>18. CASE RecordEvidence
  <2>1. PICK warning \in {{}, {"evidence"}} :
          Go([run EXCEPT !.pc = "idle", !.applied = TRUE, !.ok = ~run.failed, !.warned = @ \cup warning,
                      !.result = IF run.failed THEN "resolution" ELSE "ok"])
    BY <1>18 DEF RecordEvidence
  <2>2. [run EXCEPT !.pc = "idle", !.applied = TRUE, !.ok = ~run.failed, !.warned = @ \cup warning,
                      !.result = IF run.failed THEN "resolution" ELSE "ok"] \in Runs
    BY <1>r DEF Runs, Places, Results
  <2> QED  BY <1>g, <2>1, <2>2
<1> QED
  BY <1>1, <1>2, <1>3, <1>4, <1>5, <1>6, <1>7, <1>8, <1>9, <1>10, <1>11, <1>12, <1>13, <1>14, <1>15, <1>16, <1>17, <1>18
     DEF InstallNext

-----------------------------------------------------------------------------
(* What is known of the bundle at each place.                              *)

Verified == {"lock", "machine", "select", "update", "simulate", "plan", "apt", "pool", "unpack", "source", "record"}

(* The manifest in memory is the bundle's and was accepted; every file walked    *)
(* so far is a problem, or has changed since, or holds the listed bytes; after   *)
(* the walk there is no problem.                                                 *)
Accepted ==
  run.pc \in Verified \cup {"files"} =>
    run.manifest = bundle.manifest.files /\ (run.signed \/ run.opts.allowUnsigned)
Walking ==
  run.pc = "files" => /\ run.at <= Len(Paths)
                      /\ \A i \in 1..run.at : \/ Paths[i] \in run.problems \/ Paths[i] \in late
                                              \/ Bytes(Paths[i]) = run.manifest[Paths[i]]
AllWalked ==
  run.pc \in Verified => /\ run.at = Len(Paths)
                         /\ \A p \in PathSet : p \in late \/ Bytes(p) = run.manifest[p]
(* The lists that apt read are of the listed index, and which tool is used. *)
Lists ==
  /\ run.pc \in {"update", "simulate", "apt", "source"} => ~run.opts.dpkg
  /\ run.pc \in {"pool", "unpack"} => run.opts.dpkg
  /\ run.pc \in {"simulate", "plan", "apt"} /\ ~run.opts.dpkg =>
       Index \in late \/ run.lists = run.manifest[Index]
BundleInv == Accepted /\ Walking /\ AllWalked /\ Lists

(* What is known of the machine at each place. *)
Unchanged == {"verify", "files", "lock", "machine", "select", "update", "simulate", "plan", "apt", "pool"}
Settled == \A d \in Debs : machine.packages[d].state # "unpacked"
Done == IF run.names = {} /\ ~run.opts.dpkg THEN machine.packages = before.packages ELSE Settled
InPlace(d) == machine.packages[d].state = "installed"
MachineInv ==
  /\ run.pc # "idle" => ~run.applied
  /\ run.pc \in Unchanged => machine = before /\ ~run.failed
  /\ run.pc = "verify" => run.at = 0
  /\ run.pc \in {"update", "simulate", "plan"} =>
       \A d \in run.names : d \in run.problems \/ d \in late \/ Bytes(d) # Missing
  /\ run.pc \in {"select", "update", "simulate", "plan", "apt", "source"} =>
       ~(run.opts.keep /\ ~run.opts.dpkg /\ bundle.shared)
  /\ run.pc \in {"apt", "pool"} => \A d \in run.names : d \in late \/ Bytes(d) # Missing
  /\ run.pc = "unpack" =>
       /\ ~run.failed /\ machine.source = before.source
       /\ \A d \in run.names : d \in late \/ d \in run.files \/ machine.packages[d].state # "absent"
  /\ run.pc = "source" => ~run.failed /\ machine.source = before.source /\ Done /\ \A d \in run.names : InPlace(d)
  /\ run.pc = "record" /\ ~run.failed =>
       /\ Done /\ \A d \in run.names : InPlace(d) \/ d \in late
       /\ machine.source # before.source => run.opts.keep /\ ~bundle.shared

InstallInv == Types /\ BundleInv /\ MachineInv /\ ReportIsTrue

-----------------------------------------------------------------------------
(* The invariant is inductive.                                             *)

(* A step that only moves the run on, to a place where nothing is claimed. *)
LEMMA FinishInv ==
  ASSUME InstallInv, NEW class \in Results, Finish(class),
         run.pc \in Unchanged \/ (class = "killed" /\ run.pc # "idle")
  PROVE  BundleInv' /\ MachineInv' /\ ReportIsTrue'
<1>1. /\ run'.pc = "idle" /\ run'.result = class /\ run'.applied = run.applied
      /\ UNCHANGED <<bundle, machine, before, late>>
  BY DEF Finish, Go, InstallInv, Types, Runs
<1>2. BundleInv'
  BY <1>1 DEF BundleInv, Accepted, Walking, AllWalked, Lists, Verified
<1>3. ~run.applied /\ (class = "killed" \/ machine = before)
  BY DEF InstallInv, MachineInv, Unchanged
<1>4. MachineInv'
  BY <1>1 DEF MachineInv, Unchanged
<1>5. ReportIsTrue'
  BY <1>1, <1>3 DEF ReportIsTrue
<1> QED  BY <1>2, <1>4, <1>5

(* The medium changes: a file that was checked becomes late. *)
LEMMA MediumInv == InstallInv /\ MediumChanges => BundleInv' /\ MachineInv' /\ ReportIsTrue'
<1> SUFFICES ASSUME InstallInv, MediumChanges PROVE BundleInv' /\ MachineInv' /\ ReportIsTrue'
  OBVIOUS
<1>0. run.pc # "idle" /\ UNCHANGED <<machine, before, run>>
  BY DEF MediumChanges
<1>1. PICK i \in DOMAIN Paths, c \in Byte :
        /\ bundle' = [bundle EXCEPT !.disk[Paths[i]] = c]
        /\ late' = IF Checked(Paths[i]) THEN late \cup {Paths[i]} ELSE late
  BY DEF MediumChanges
<1> DEFINE q == Paths[i]
<1>2. q \in PathSet
  BY DEF PathSet
<1>3. /\ bundle'.manifest = bundle.manifest /\ bundle'.shared = bundle.shared
      /\ \A p \in PathSet : p # q => Bytes(p)' = Bytes(p)
  BY <1>1, <1>2 DEF InstallInv, Types, AnyBundle, Bytes
<1>4. late \subseteq late'
  BY <1>1
<1>5. run.pc \in Verified => q \in late'
  BY <1>0, <1>1, PathsAssumption DEF InstallInv, BundleInv, AllWalked, Checked
<1>6. \A p \in PathSet : p # q \/ p \in late' \/ run.pc \notin Verified
  BY <1>5
<1>7. \A d \in Debs : d \in PathSet
  BY PathsAssumption
<1>8. Walking'
  <2> SUFFICES ASSUME run.pc = "files", NEW j \in 1..run.at
               PROVE  Paths[j] \in run.problems \/ Paths[j] \in late' \/ Bytes(Paths[j])' = run.manifest[Paths[j]]
    BY <1>0 DEF InstallInv, BundleInv, Walking
  <2>1. j \in DOMAIN Paths /\ Paths[j] \in PathSet
    BY PathsAssumption DEF InstallInv, BundleInv, Walking, PathSet, Types, Runs
  <2>2. CASE Paths[j] = q
    BY <1>0, <1>1, <2>2 DEF Checked
  <2>3. CASE Paths[j] # q
    BY <1>3, <1>4, <2>1, <2>3 DEF InstallInv, BundleInv, Walking
  <2> QED  BY <2>2, <2>3
<1>9. Accepted' /\ AllWalked' /\ Lists'
  BY <1>0, <1>3, <1>4, <1>6 DEF InstallInv, BundleInv, Accepted, AllWalked, Lists
<1>10. run.names \subseteq PathSet
  BY PathsAssumption DEF InstallInv, Types, Runs
<1>11. MachineInv'
  BY <1>0, <1>3, <1>4, <1>6, <1>10 DEF InstallInv, MachineInv, Verified, Done, Settled, InPlace
<1>12. ReportIsTrue'
  BY <1>0 DEF ReportIsTrue
<1> QED  BY <1>8, <1>9, <1>11, <1>12 DEF BundleInv

(* A tool that fails leaves the machine to the report. *)
LEMMA FailedInv ==
  ASSUME InstallInv, run.pc \in Verified,
         Go(Failed) \/ \E ps : Change(ps, Failed)
  PROVE  BundleInv' /\ MachineInv' /\ ReportIsTrue'
<1>1. /\ run'.pc = "record" /\ run'.failed /\ UNCHANGED <<bundle, before, late>>
      /\ run'.at = run.at /\ run'.manifest = run.manifest /\ run'.signed = run.signed
      /\ run'.opts = run.opts /\ run'.applied = run.applied
  BY DEF Go, Change, Failed, InstallInv, Types, Runs
<1>2. BundleInv'
  BY <1>1 DEF InstallInv, BundleInv, Accepted, Walking, AllWalked, Lists, Verified, Bytes
<1>3. MachineInv'
  BY <1>1 DEF InstallInv, MachineInv, Unchanged, Verified
<1> QED  BY <1>1, <1>2, <1>3 DEF ReportIsTrue

(* The steps of a run, one by one. *)
LEMMA RunInv ==
  ASSUME InstallInv, InstallNext, ~MediumChanges
  PROVE  BundleInv' /\ MachineInv' /\ ReportIsTrue'
<1>r. run \in Runs
  BY DEF InstallInv, Types
<1>1. ASSUME NEW o \in RunOptions, Execute(o)  PROVE BundleInv' /\ MachineInv' /\ ReportIsTrue'
  <2>1. /\ run'.pc \in {"idle", "verify"} /\ ~run'.applied /\ ~run'.failed
        /\ run'.at = 0 /\ machine' = machine /\ before' = machine
    BY <1>1, NoRunIsRun DEF Execute, NoRun
  <2> QED  BY <2>1 DEF BundleInv, Accepted, Walking, AllWalked, Lists, Verified, MachineInv, Unchanged, ReportIsTrue
<1>2. CASE InstallKilled
  BY <1>2, FinishInv DEF InstallKilled, Results, At
<1>3. CASE VerifyManifest
  <2> DEFINE sig == CheckSignatures(bundle.sig, Options)
             ps == IF bundle.manifest.dup THEN {"manifest"} ELSE {}
             r == [run EXCEPT !.pc = "files", !.manifest = bundle.manifest.files, !.signed = (sig = "signed"), !.problems = ps]
  <2>1. run.pc = "verify"
    BY <1>3 DEF VerifyManifest, At
  <2>2. \/ \E class \in {"usage", "verification", "environment"} : Finish(class)
        \/ Go(r) /\ sig \notin {"stop", "error"}
    BY <1>3 DEF VerifyManifest
  <2>3. sig \notin {"stop", "error"} => sig = "signed" \/ run.opts.allowUnsigned
    BY DEF CheckSignatures, Options
  <2>4. CASE Go(r) /\ sig \notin {"stop", "error"}
    <3> HIDE DEF sig, ps
    <3>1. /\ run'.pc = "files" /\ run'.manifest = bundle.manifest.files /\ run'.signed = (sig = "signed")
          /\ run'.opts = run.opts /\ run'.at = run.at /\ run'.applied = run.applied /\ run'.failed = run.failed
          /\ UNCHANGED <<bundle, machine, before, late>>
      BY <1>r, <2>4 DEF Go, Runs
    <3>2. run.at = 0
      BY <2>1 DEF InstallInv, MachineInv, Unchanged
    <3>3. BundleInv'
      <4>1. run'.signed \/ run'.opts.allowUnsigned
        BY <2>3, <2>4, <3>1
      <4>2. Len(Paths) \in Nat /\ 1..0 = {}
        BY PathsAssumption
      <4>3. Accepted'
        BY <3>1, <4>1 DEF Accepted
      <4>4. Walking'
        BY <3>1, <3>2, <4>2 DEF Walking
      <4>5. AllWalked' /\ Lists'
        BY <3>1 DEF AllWalked, Lists, Verified
      <4> QED  BY <4>3, <4>4, <4>5 DEF BundleInv
    <3>4. MachineInv'
      BY <2>1, <3>1 DEF InstallInv, MachineInv, Unchanged
    <3> QED  BY <3>1, <3>3, <3>4 DEF ReportIsTrue
  <2> HIDE DEF sig, r
  <2> QED  BY <2>1, <2>2, <2>4, FinishInv DEF Results, Unchanged
<1>4. CASE CheckFile
  <2> DEFINE p == Paths[run.at + 1]
  <2>1. /\ run.pc = "files" /\ run.at < Len(Paths)
        /\ Go([run EXCEPT !.at = @ + 1, !.problems = @ \cup FileProblem(p)])
    BY <1>4 DEF CheckFile, At
  <2>2. /\ run'.pc = "files" /\ run'.at = run.at + 1 /\ run'.problems = run.problems \cup FileProblem(p)
        /\ run'.manifest = run.manifest /\ run'.signed = run.signed /\ run'.opts = run.opts
        /\ run'.applied = run.applied /\ run'.failed = run.failed
        /\ UNCHANGED <<bundle, machine, before, late>>
    BY <1>r, <2>1 DEF Go, Runs
  <2>3. p \in FileProblem(p) \/ Bytes(p) = run.manifest[p]
    BY DEF FileProblem
  <2>4. \A i \in 1..run.at + 1 : i \in 1..run.at \/ i = run.at + 1
    BY <1>r DEF Runs
  <2>5. Walking'
    <3>1. run.at + 1 <= Len(Paths)
      BY <1>r, <2>1, PathsAssumption DEF Runs
    <3>2. \A x : Bytes(x)' = Bytes(x)
      <4> bundle' = bundle
        BY <2>2
      <4> QED  BY DEF Bytes
    <3>3. ASSUME NEW i \in 1..run.at + 1
          PROVE  Paths[i] \in run'.problems \/ Paths[i] \in late' \/ Bytes(Paths[i])' = run'.manifest[Paths[i]]
      <4>1. CASE i \in 1..run.at
        BY <2>1, <2>2, <3>2, <4>1 DEF InstallInv, BundleInv, Walking
      <4>2. CASE i = run.at + 1
        BY <2>2, <2>3, <3>2, <4>2
      <4> QED  BY <2>4, <4>1, <4>2
    <3> QED  BY <2>2, <3>1, <3>3 DEF Walking
  <2>6. Accepted' /\ AllWalked' /\ Lists'
    BY <2>1, <2>2 DEF InstallInv, BundleInv, Accepted, AllWalked, Lists, Verified
  <2>7. MachineInv'
    BY <2>1, <2>2 DEF InstallInv, MachineInv, Unchanged
  <2> QED  BY <2>2, <2>5, <2>6, <2>7 DEF BundleInv, ReportIsTrue
<1>5. CASE CheckLock
  <2>1. /\ run.pc = "files" /\ run.at = Len(Paths)
        /\ \/ Finish("verification")
           \/ Go([run EXCEPT !.pc = "lock"]) /\ run.problems = {}
    BY <1>5 DEF CheckLock, At
  <2>2. CASE Go([run EXCEPT !.pc = "lock"]) /\ run.problems = {}
    <3>1. /\ run'.pc = "lock" /\ run'.at = run.at /\ run'.manifest = run.manifest /\ run'.signed = run.signed
          /\ run'.opts = run.opts /\ run'.applied = run.applied /\ run'.failed = run.failed
          /\ UNCHANGED <<bundle, machine, before, late>>
      BY <1>r, <2>2 DEF Go, Runs
    <3>2. \A q \in PathSet : q \in late \/ Bytes(q) = run.manifest[q]
      BY <2>1, <2>2, PathsAssumption DEF InstallInv, BundleInv, Walking, PathSet
    <3>3. BundleInv'
      BY <2>1, <3>1, <3>2 DEF InstallInv, BundleInv, Accepted, Walking, AllWalked, Lists, Verified, Bytes
    <3>4. MachineInv'
      BY <2>1, <3>1 DEF InstallInv, MachineInv, Unchanged
    <3> QED  BY <3>1, <3>3, <3>4 DEF ReportIsTrue
  <2> QED  BY <2>1, <2>2, FinishInv DEF Results, Unchanged
<1>6. CASE LoadLock
  <2> DEFINE doc == LockDocs[Bytes(LockFile)]
  <2>1. run.pc = "lock" /\ (Finish("usage") \/ Go([run EXCEPT !.pc = "machine", !.lk = doc]))
    BY <1>6 DEF LoadLock, At
  <2> HIDE DEF doc
  <2>2. CASE Go([run EXCEPT !.pc = "machine", !.lk = doc])
    <3>1. /\ run'.pc = "machine" /\ run'.at = run.at /\ run'.manifest = run.manifest /\ run'.signed = run.signed
          /\ run'.opts = run.opts /\ run'.applied = run.applied /\ run'.failed = run.failed
          /\ UNCHANGED <<bundle, machine, before, late>>
      BY <1>r, <2>2 DEF Go, Runs
    <3>2. BundleInv'
      BY <2>1, <3>1 DEF InstallInv, BundleInv, Accepted, Walking, AllWalked, Lists, Verified, Bytes
    <3>3. MachineInv'
      BY <2>1, <3>1 DEF InstallInv, MachineInv, Unchanged
    <3> QED  BY <3>1, <3>2, <3>3 DEF ReportIsTrue
  <2> QED  BY <2>1, <2>2, FinishInv DEF Results, Unchanged
<1>7. CASE CheckMachine
  <2> DEFINE ds == BaseDivergence(run.lk.assumed)
  <2>1. /\ run.pc = "machine"
        /\ \/ \E class \in {"usage", "mismatch", "environment"} : Finish(class)
           \/ Go([run EXCEPT !.pc = "select", !.missing = ds]) /\ ~KeepSourceTrustProblem
    BY <1>7 DEF CheckMachine, At
  <2> HIDE DEF ds
  <2>2. CASE Go([run EXCEPT !.pc = "select", !.missing = ds]) /\ ~KeepSourceTrustProblem
    <3>1. /\ run'.pc = "select" /\ run'.at = run.at /\ run'.manifest = run.manifest /\ run'.signed = run.signed
          /\ run'.opts = run.opts /\ run'.applied = run.applied /\ run'.failed = run.failed
          /\ UNCHANGED <<bundle, machine, before, late>>
      BY <1>r, <2>2 DEF Go, Runs
    <3>2. BundleInv'
      BY <2>1, <3>1 DEF InstallInv, BundleInv, Accepted, Walking, AllWalked, Lists, Verified, Bytes
    <3>3. MachineInv'
      BY <2>1, <2>2, <3>1 DEF InstallInv, MachineInv, Unchanged, KeepSourceTrustProblem, Options
    <3> QED  BY <3>1, <3>2, <3>3 DEF ReportIsTrue
  <2> QED  BY <2>1, <2>2, FinishInv DEF Results, Unchanged
<1>8. CASE Select
  <2> DEFINE names == SelectInstallSet(run.lk, Options)
  <2>1. /\ run.pc = "select"
        /\ \/ Finish("usage")
           \/ \E disk \in {{}, {"disk"}} :
                Go([run EXCEPT !.names = names, !.problems = MissingPoolFiles(names) \cup disk,
                               !.pc = IF Options.dpkg THEN "plan" ELSE "update"])
    BY <1>8 DEF Select, At
  <2> HIDE DEF names
  <2>2. ASSUME NEW disk \in {{}, {"disk"}},
               Go([run EXCEPT !.names = names, !.problems = MissingPoolFiles(names) \cup disk,
                              !.pc = IF Options.dpkg THEN "plan" ELSE "update"])
        PROVE  BundleInv' /\ MachineInv' /\ ReportIsTrue'
    <3>1. /\ run'.pc = IF run.opts.dpkg THEN "plan" ELSE "update"
          /\ run'.names = names /\ run'.problems = MissingPoolFiles(names) \cup disk
          /\ run'.at = run.at /\ run'.manifest = run.manifest /\ run'.signed = run.signed
          /\ run'.opts = run.opts /\ run'.applied = run.applied /\ run'.failed = run.failed
          /\ UNCHANGED <<bundle, machine, before, late>>
      BY <1>r, <2>2 DEF Go, Runs, Options
    <3>2. \A d \in names : d \in run'.problems \/ Bytes(d)' # Missing
      BY <3>1 DEF MissingPoolFiles, Bytes
    <3>3. BundleInv'
      BY <2>1, <3>1 DEF InstallInv, BundleInv, Accepted, Walking, AllWalked, Lists, Verified, Bytes
    <3>4. MachineInv'
      BY <2>1, <3>1, <3>2 DEF InstallInv, MachineInv, Unchanged
    <3> QED  BY <3>1, <3>3, <3>4 DEF ReportIsTrue
  <2> QED  BY <2>1, <2>2, FinishInv DEF Results, Unchanged
<1>9. CASE AptUpdate
  <2>1. /\ run.pc = "update"
        /\ \/ Finish("environment")
           \/ Go([run EXCEPT !.lists = Bytes(Index), !.pc = IF run.names = {} THEN "plan" ELSE "simulate"])
    BY <1>9 DEF AptUpdate, At
  <2>2. CASE Go([run EXCEPT !.lists = Bytes(Index), !.pc = IF run.names = {} THEN "plan" ELSE "simulate"])
    <3>1. /\ run'.pc \in {"plan", "simulate"} /\ run'.lists = Bytes(Index)
          /\ run'.names = run.names /\ run'.problems = run.problems
          /\ run'.at = run.at /\ run'.manifest = run.manifest /\ run'.signed = run.signed
          /\ run'.opts = run.opts /\ run'.applied = run.applied /\ run'.failed = run.failed
          /\ UNCHANGED <<bundle, machine, before, late>>
      BY <1>r, <2>2 DEF Go, Runs
    <3>2. Index \in late \/ Bytes(Index) = run.manifest[Index]
      BY <2>1, PathsAssumption DEF InstallInv, BundleInv, AllWalked, Verified
    <3>3. BundleInv'
      BY <2>1, <3>1, <3>2 DEF InstallInv, BundleInv, Accepted, Walking, AllWalked, Lists, Verified, Bytes
    <3>4. MachineInv'
      BY <2>1, <3>1 DEF InstallInv, MachineInv, Unchanged, Bytes
    <3> QED  BY <3>1, <3>3, <3>4 DEF ReportIsTrue
  <2> QED  BY <2>1, <2>2, FinishInv DEF Results, Unchanged
<1>10. CASE AptSimulate
  <2>1. PICK found \in {{}, {"apt"}} : Go([run EXCEPT !.problems = @ \cup found, !.pc = "plan"]) /\ run.pc = "simulate"
    BY <1>10 DEF AptSimulate, At
  <2>2. /\ run'.pc = "plan" /\ run'.lists = run.lists /\ run'.names = run.names /\ run'.problems = run.problems \cup found
        /\ run'.at = run.at /\ run'.manifest = run.manifest /\ run'.signed = run.signed
        /\ run'.opts = run.opts /\ run'.applied = run.applied /\ run'.failed = run.failed
        /\ UNCHANGED <<bundle, machine, before, late>>
    BY <1>r, <2>1 DEF Go, Runs
  <2>3. BundleInv'
    BY <2>1, <2>2 DEF InstallInv, BundleInv, Accepted, Walking, AllWalked, Lists, Verified, Bytes
  <2>4. MachineInv'
    BY <2>1, <2>2 DEF InstallInv, MachineInv, Unchanged, Bytes
  <2> QED  BY <2>2, <2>3, <2>4 DEF ReportIsTrue
<1>11. CASE PlanInstall
  <2>1. /\ run.pc = "plan"
        /\ \/ Go([run EXCEPT !.pc = "idle", !.ok = (run.problems = {}), !.result = "ok"])
           \/ Finish(RefusalClass(run.problems)) \/ Finish("usage")
           \/ run.problems = {} /\ Go([run EXCEPT !.pc = IF Options.dpkg THEN "pool" ELSE "apt"])
    BY <1>11 DEF PlanInstall, At
  <2>2. RefusalClass(run.problems) \in Results
    BY DEF RefusalClass, Results
  <2>3. CASE Go([run EXCEPT !.pc = "idle", !.ok = (run.problems = {}), !.result = "ok"])
    <3>1. /\ run'.pc = "idle" /\ run'.applied = run.applied /\ UNCHANGED <<bundle, machine, before, late>>
      BY <1>r, <2>3 DEF Go, Runs
    <3> QED  BY <2>1, <3>1 DEF InstallInv, MachineInv, BundleInv, Accepted, Walking, AllWalked, Lists, Verified, Unchanged, ReportIsTrue
  <2>4. CASE run.problems = {} /\ Go([run EXCEPT !.pc = IF Options.dpkg THEN "pool" ELSE "apt"])
    <3>1. /\ run'.pc = (IF run.opts.dpkg THEN "pool" ELSE "apt") /\ run'.lists = run.lists /\ run'.names = run.names
          /\ run'.at = run.at /\ run'.manifest = run.manifest /\ run'.signed = run.signed
          /\ run'.opts = run.opts /\ run'.applied = run.applied /\ run'.failed = run.failed
          /\ UNCHANGED <<bundle, machine, before, late>>
      BY <1>r, <2>4 DEF Go, Runs, Options
    <3>2. BundleInv'
      BY <2>1, <3>1 DEF InstallInv, BundleInv, Accepted, Walking, AllWalked, Lists, Verified, Bytes
    <3>3. MachineInv'
      BY <2>1, <2>4, <3>1 DEF InstallInv, MachineInv, Unchanged, Bytes
    <3> QED  BY <3>1, <3>2, <3>3 DEF ReportIsTrue
  <2> QED  BY <2>1, <2>2, <2>3, <2>4, FinishInv DEF Results, Unchanged
<1>12. CASE ApplyApt
  <2> DEFINE good == {d \in run.names : Acceptable(d)}
  <2>0. run.pc = "apt" /\ UNCHANGED <<bundle, before, late>>
    BY <1>12 DEF ApplyApt, Change, Go, At
  <2>1. ASSUME NEW ps, ps = Configured(SetTo(machine.packages, good, "installed"), Debs),
               \A d \in run.names : Acceptable(d) \/ machine.packages[d] = [state |-> "installed", from |-> Named(d)],
               run.names # {}, Change(ps, [run EXCEPT !.pc = "source"])
        PROVE  BundleInv' /\ MachineInv' /\ ReportIsTrue'
    <3>1. /\ run'.pc = "source" /\ run'.names = run.names
          /\ run'.at = run.at /\ run'.manifest = run.manifest /\ run'.signed = run.signed
          /\ run'.opts = run.opts /\ run'.applied = run.applied /\ run'.failed = run.failed
      BY <1>r, <2>1 DEF Change, Runs
    <3>2. machine'.packages = ps /\ machine'.source = machine.source
      BY <2>1 DEF Change, InstallInv, Types, Machines
    <3>3. \A d \in Debs : machine.packages[d].state \in States
      BY DEF InstallInv, Types, Machines
    <3>4. \A d \in Debs : ps[d].state # "unpacked" /\ (d \in good => ps[d].state = "installed")
                          /\ (machine.packages[d].state = "installed" => ps[d].state = "installed")
      BY <2>1, <3>3 DEF Configured, SetTo, States
    <3>5. \A d \in run.names : d \in Debs /\ (d \in good \/ machine.packages[d].state = "installed")
      <4>1. run.names \subseteq Debs
        BY <1>r DEF Runs
      <4>2. ASSUME NEW d \in run.names, ~Acceptable(d)  PROVE machine.packages[d].state = "installed"
        <5>1. machine.packages[d] = [state |-> "installed", from |-> Named(d)]
          BY <2>1, <4>2
        <5>2. \A x : [state |-> "installed", from |-> x].state = "installed"
          OBVIOUS
        <5> QED  BY <5>1, <5>2
      <4> QED  BY <4>1, <4>2
    <3>6. BundleInv'
      BY <2>0, <3>1 DEF InstallInv, BundleInv, Accepted, Walking, AllWalked, Lists, Verified, Bytes
    <3>7. MachineInv'
      BY <2>0, <2>1, <3>1, <3>2, <3>4, <3>5 DEF InstallInv, MachineInv, Unchanged, Done, Settled, InPlace
    <3> QED  BY <3>1, <3>6, <3>7 DEF ReportIsTrue
  <2>2. ASSUME NEW ps, Change(ps, Failed)  PROVE BundleInv' /\ MachineInv' /\ ReportIsTrue'
    BY <2>0, <2>2, FailedInv DEF Verified
  <2>3. ASSUME run.names = {}, Go([run EXCEPT !.pc = "source"])  PROVE BundleInv' /\ MachineInv' /\ ReportIsTrue'
    <3>1. /\ run'.pc = "source" /\ run'.names = run.names
          /\ run'.at = run.at /\ run'.manifest = run.manifest /\ run'.signed = run.signed
          /\ run'.opts = run.opts /\ run'.applied = run.applied /\ run'.failed = run.failed
          /\ UNCHANGED <<bundle, machine, before, late>>
      BY <1>r, <2>3 DEF Go, Runs
    <3>2. ~run.opts.dpkg
      BY <2>0 DEF InstallInv, BundleInv, Accepted, Lists, Verified
    <3>3. BundleInv'
      BY <2>0, <3>1 DEF InstallInv, BundleInv, Accepted, Walking, AllWalked, Lists, Verified, Bytes
    <3>4. MachineInv'
      BY <2>0, <2>3, <3>1, <3>2 DEF InstallInv, MachineInv, Unchanged, Done, InPlace
    <3> QED  BY <3>1, <3>3, <3>4 DEF ReportIsTrue
  <2> QED  BY <1>12, <2>1, <2>2, <2>3 DEF ApplyApt
<1>13. CASE ListPool
  <2>0. run.pc = "pool"
    BY <1>13 DEF ListPool, At
  <2>1. CASE Go(Failed)
    BY <2>0, <2>1, FailedInv DEF Verified
  <2>2. CASE Go([run EXCEPT !.pc = "unpack", !.files = PoolDebFiles])
    <3>1. /\ run'.pc = "unpack" /\ run'.names = run.names /\ run'.files = PoolDebFiles
          /\ run'.at = run.at /\ run'.manifest = run.manifest /\ run'.signed = run.signed
          /\ run'.opts = run.opts /\ run'.applied = run.applied /\ run'.failed = run.failed
          /\ UNCHANGED <<bundle, machine, before, late>>
      BY <1>r, <2>2 DEF Go, Runs
    <3>2. \A d \in run.names : d \in late \/ d \in PoolDebFiles
      BY <1>r, <2>0 DEF InstallInv, MachineInv, PoolDebFiles, Runs
    <3>3. BundleInv'
      BY <2>0, <3>1 DEF InstallInv, BundleInv, Accepted, Walking, AllWalked, Lists, Verified, Bytes
    <3>4. MachineInv'
      BY <2>0, <3>1, <3>2 DEF InstallInv, MachineInv, Unchanged
    <3> QED  BY <3>1, <3>3, <3>4 DEF ReportIsTrue
  <2> QED  BY <1>13, <2>1, <2>2 DEF ListPool
<1>14. CASE Unpack
  <2>0. run.pc = "unpack"
    BY <1>14 DEF Unpack, At
  <2>1. CASE Change(SetTo(machine.packages, Chunk, "unpacked"), [run EXCEPT !.files = @ \ Chunk])
    <3>1. /\ run'.pc = "unpack" /\ run'.names = run.names /\ run'.files = run.files \ Chunk
          /\ run'.at = run.at /\ run'.manifest = run.manifest /\ run'.signed = run.signed
          /\ run'.opts = run.opts /\ run'.applied = run.applied /\ run'.failed = run.failed
          /\ UNCHANGED <<bundle, before, late>>
      BY <1>r, <2>0, <2>1 DEF Change, Runs
    <3>2. machine'.packages = SetTo(machine.packages, Chunk, "unpacked") /\ machine'.source = machine.source
      BY <2>1 DEF Change, InstallInv, Types, Machines
    <3>3. \A d \in Debs : IF d \in Chunk THEN machine'.packages[d].state = "unpacked"
                          ELSE machine'.packages[d] = machine.packages[d]
      BY <3>2 DEF SetTo
    <3>4. run.names \subseteq Debs
      BY <1>r DEF Runs
    <3>5. BundleInv'
      BY <2>0, <3>1 DEF InstallInv, BundleInv, Accepted, Walking, AllWalked, Lists, Verified, Bytes
    <3>6. MachineInv'
      BY <2>0, <3>1, <3>2, <3>3, <3>4 DEF InstallInv, MachineInv, Unchanged
    <3> QED  BY <3>1, <3>5, <3>6 DEF ReportIsTrue
  <2>2. ASSUME NEW ps, Change(ps, Failed)  PROVE BundleInv' /\ MachineInv' /\ ReportIsTrue'
    BY <2>0, <2>2, FailedInv DEF Verified
  <2> QED  BY <1>14, <2>1, <2>2 DEF Unpack
<1>15. CASE Configure
  <2>0. run.pc = "unpack" /\ run.files = {}
    BY <1>15 DEF Configure, At
  <2>1. CASE Change(Configured(machine.packages, Debs), [run EXCEPT !.pc = "record"])
    <3>1. /\ run'.pc = "record" /\ run'.names = run.names
          /\ run'.at = run.at /\ run'.manifest = run.manifest /\ run'.signed = run.signed
          /\ run'.opts = run.opts /\ run'.applied = run.applied /\ run'.failed = run.failed
          /\ UNCHANGED <<bundle, before, late>>
      BY <1>r, <2>1 DEF Change, Runs
    <3>2. machine'.packages = Configured(machine.packages, Debs) /\ machine'.source = machine.source
      BY <2>1 DEF Change, InstallInv, Types, Machines
    <3>3. \A d \in Debs : /\ machine'.packages[d].state # "unpacked"
                          /\ machine.packages[d].state # "absent" => machine'.packages[d].state = "installed"
      <4> \A d \in Debs : machine.packages[d] \in [state : States, from : Byte]
        BY DEF InstallInv, Types, Machines
      <4> QED  BY <3>2 DEF Configured, States
    <3>4. run.names \subseteq Debs
      BY <1>r DEF Runs
    <3>5. BundleInv'
      BY <2>0, <3>1 DEF InstallInv, BundleInv, Accepted, Walking, AllWalked, Lists, Verified, Bytes
    <3>d. run.opts.dpkg /\ run'.opts.dpkg
      BY <2>0, <3>1 DEF InstallInv, BundleInv, Lists
    <3>6. MachineInv'
      BY <2>0, <3>1, <3>2, <3>3, <3>4, <3>d DEF InstallInv, MachineInv, Unchanged, Done, Settled, InPlace
    <3> QED  BY <3>1, <3>5, <3>6 DEF ReportIsTrue
  <2>2. ASSUME NEW ps, Change(ps, Failed)  PROVE BundleInv' /\ MachineInv' /\ ReportIsTrue'
    BY <2>0, <2>2, FailedInv DEF Verified
  <2> QED  BY <1>15, <2>1, <2>2 DEF Configure
<1>16. CASE PersistSource
  <2>0. run.pc = "source"
    BY <1>16 DEF PersistSource, At
  <2>1. /\ run'.pc = "record" /\ run'.names = run.names
        /\ run'.at = run.at /\ run'.manifest = run.manifest /\ run'.signed = run.signed
        /\ run'.opts = run.opts /\ run'.applied = run.applied /\ run'.failed = run.failed
        /\ UNCHANGED <<bundle, before, late>>
    BY <1>r, <1>16 DEF PersistSource, Go, Runs
  <2>2. machine'.packages = machine.packages /\ (machine'.source = machine.source \/ run.opts.keep)
    BY <1>16 DEF PersistSource, Go, InstallInv, Types, Machines, Options
  <2>3. ~run.opts.dpkg /\ ~(run.opts.keep /\ ~run.opts.dpkg /\ bundle.shared)
    BY <2>0 DEF InstallInv, BundleInv, Lists, MachineInv
  <2>4. BundleInv'
    BY <2>0, <2>1 DEF InstallInv, BundleInv, Accepted, Walking, AllWalked, Lists, Verified, Bytes
  <2>5. MachineInv'
    BY <2>0, <2>1, <2>2, <2>3 DEF InstallInv, MachineInv, Unchanged, Done, Settled, InPlace
  <2> QED  BY <2>1, <2>4, <2>5 DEF ReportIsTrue
<1>17. CASE RecordEvidence
  <2>0. run.pc = "record"
    BY <1>17 DEF RecordEvidence, At
  <2>1. /\ run'.pc = "idle" /\ run'.names = run.names /\ run'.opts = run.opts
        /\ run'.applied /\ run'.ok = ~run.failed /\ UNCHANGED <<bundle, machine, before, late>>
    BY <1>r, <1>17 DEF RecordEvidence, Go, Runs
  <2>2. BundleInv'
    BY <2>1 DEF BundleInv, Accepted, Walking, AllWalked, Lists, Verified
  <2>3. MachineInv'
    BY <2>1 DEF MachineInv, Unchanged
  <2>4. ReportIsTrue'
    BY <2>0, <2>1 DEF InstallInv, MachineInv, ReportIsTrue, Done, Settled, InPlace
  <2> QED  BY <2>2, <2>3, <2>4
<1> QED
  BY <1>1, <1>2, <1>3, <1>4, <1>5, <1>6, <1>7, <1>8, <1>9, <1>10, <1>11, <1>12, <1>13, <1>14, <1>15, <1>16, <1>17
     DEF InstallNext

(* The invariant holds of every run of the installer. *)
LEMMA InstallInvariant == InstallSpec => []InstallInv
<1>1. InstallInit => InstallInv
  <2> SUFFICES ASSUME InstallInit PROVE InstallInv
    OBVIOUS
  <2>1. bundle \in AnyBundle
    <3>1. bundle \in Media
      BY DEF InstallInit
    <3>2. /\ bundle = [manifest |-> bundle.manifest, sig |-> bundle.sig, disk |-> bundle.disk, shared |-> bundle.shared]
          /\ bundle.disk \in [PathSet -> Byte]
      BY <3>1, BundlesAssumption
    <3>3. /\ bundle.manifest \in {b.manifest : b \in Media} /\ bundle.sig \in {b.sig : b \in Media}
          /\ bundle.shared \in {b.shared : b \in Media}
      BY <3>1
    <3> QED  BY <3>2, <3>3 DEF AnyBundle
  <2>2. machine \in Machines
    BY DEF InstallInit, Machines, States, Byte, Missing
  <2>3. run.pc = "idle" /\ ~run.applied /\ machine = before
    BY DEF InstallInit, NoRun
  <2>4. Types
    BY <2>1, <2>2, NoRunIsRun DEF InstallInit, Types
  <2> QED  BY <2>3, <2>4 DEF InstallInv, BundleInv, Accepted, Walking, AllWalked, Lists, Verified, MachineInv, Unchanged, ReportIsTrue
<1>2. InstallInv /\ [InstallNext]_ivars => InstallInv'
  <2> SUFFICES ASSUME InstallInv, [InstallNext]_ivars PROVE InstallInv'
    OBVIOUS
  <2>1. CASE InstallNext
    <3>1. Types'
      BY <2>1, TypesStep DEF InstallInv
    <3> QED  BY <2>1, <3>1, RunInv, MediumInv DEF InstallInv
  <2>2. CASE UNCHANGED ivars
    BY <2>2 DEF ivars, InstallInv, Types, BundleInv, Accepted, Walking, AllWalked, Lists, MachineInv, ReportIsTrue,
                Done, Settled, InPlace, Bytes
  <2> QED  BY <2>1, <2>2
<1> QED  BY <1>1, <1>2, PTL DEF InstallSpec

(* What the report of an installation says is so (report.OK, report.Applied,   *)
(* the refusals of execute, dpkg --configure -a): for any bundle, options and   *)
(* number of runs, with the medium changing at any step and apt or dpkg failing *)
(* half-way.                                                                    *)
THEOREM ReportsAreTrue == InstallSpec => []ReportIsTrue
<1>1. InstallInv => ReportIsTrue
  BY DEF InstallInv
<1> QED  BY <1>1, InstallInvariant, PTL

-----------------------------------------------------------------------------
(* What reaches the machine.                                               *)

Attested(d) ==
  /\ run.signed \/ run.opts.allowUnsigned
  /\ \/ machine'.packages[d].from = run.manifest[d]
     \/ run.opts.dpkg /\ d \in late
     \/ ~run.opts.dpkg /\ Index \in late

(* Unpacking takes the file's bytes, configuring changes none. *)
LEMMA FromOf ==
  ASSUME Types, NEW ds \in SUBSET Debs, NEW ks \in SUBSET Debs, NEW state \in States, NEW d \in Debs
  PROVE  /\ SetTo(machine.packages, ds, state)[d].from = IF d \in ds THEN Bytes(d) ELSE machine.packages[d].from
         /\ Configured(machine.packages, ks)[d].from = machine.packages[d].from
         /\ Configured(SetTo(machine.packages, ds, state), ks)[d].from
              = IF d \in ds THEN Bytes(d) ELSE machine.packages[d].from
<1> DEFINE M == [Debs -> [state : States, from : Byte]]
<1>1. machine.packages \in M /\ SetTo(machine.packages, ds, state) \in M
  BY ChangedMachine DEF Types, Machines
<1>2. SetTo(machine.packages, ds, state)[d].from = IF d \in ds THEN Bytes(d) ELSE machine.packages[d].from
  BY DEF SetTo
<1>3. ASSUME NEW m \in M  PROVE Configured(m, ks)[d].from = m[d].from
  BY DEF Configured
<1> QED  BY <1>1, <1>2, <1>3

(* One step: bytes come from apt, which compares them with the index it read, *)
(* or from dpkg.                                                              *)
LEMMA StepAttests ==
  ASSUME InstallInv, InstallNext, NEW d \in Debs,
         machine'.packages[d].from # machine.packages[d].from
  PROVE  Attested(d)
<1>t. Types /\ run \in Runs /\ run.names \in SUBSET Debs
  BY DEF InstallInv, Types, Runs
<1>p. d \in PathSet
  BY PathsAssumption
<1>m. ASSUME NEW ps, NEW r, Change(ps, r)  PROVE machine'.packages = ps
  BY <1>m, <1>t DEF Change, Types, Machines
<1>1. CASE machine' = machine
  BY <1>1
<1>2. CASE PersistSource
  BY <1>2, <1>t DEF PersistSource, Go, Types, Machines
<1>3. CASE ApplyApt
  <2>1. run.pc = "apt"
    BY <1>3 DEF ApplyApt, At
  <2>2. ASSUME NEW ds \in SUBSET {e \in run.names : Acceptable(e)}, NEW ks \in SUBSET Debs, NEW state \in States,
               NEW r, Change(Configured(SetTo(machine.packages, ds, state), ks), r)
        PROVE  d \in run.names /\ Acceptable(d) /\ machine'.packages[d].from = Bytes(d)
    <3>1. ds \in SUBSET Debs
      BY <1>t
    <3> QED  BY <1>m, <1>t, <2>2, <3>1, FromOf
  <2>3. Acceptable(d) /\ machine'.packages[d].from = Bytes(d)
    <3>1. CASE Change(Configured(SetTo(machine.packages, {e \in run.names : Acceptable(e)}, "installed"), Debs), [run EXCEPT !.pc = "source"])
      BY <2>2, <3>1 DEF States
    <3>2. ASSUME NEW un \in SUBSET {e \in run.names : Acceptable(e)}, NEW done \in SUBSET un,
                 Change(Configured(SetTo(machine.packages, un, "unpacked"), done), Failed)
          PROVE  Acceptable(d) /\ machine'.packages[d].from = Bytes(d)
      <4>1. done \in SUBSET Debs
        BY <1>t
      <4> QED  BY <2>2, <3>2, <4>1 DEF States
    <3>3. CASE Go([run EXCEPT !.pc = "source"])
      BY <3>3 DEF Go
    <3> QED  BY <1>3, <3>1, <3>2, <3>3 DEF ApplyApt
  <2>4. /\ run.manifest = bundle.manifest.files /\ (run.signed \/ run.opts.allowUnsigned) /\ ~run.opts.dpkg
        /\ Index \in late \/ run.lists = run.manifest[Index]
    BY <2>1 DEF InstallInv, BundleInv, Accepted, Lists, Verified
  <2>5. Indexes[run.manifest[Index]][d] \in {0, run.manifest[d]}
    <3>1. PICK b \in Media : bundle.manifest = b.manifest
      BY <1>t DEF Types, AnyBundle
    <3> QED  BY <2>4, <3>1, BundlesAssumption
  <2> QED  BY <2>3, <2>4, <2>5 DEF Attested, Acceptable, Named
<1>4. CASE Unpack
  <2>1. run.pc = "unpack"
    BY <1>4 DEF Unpack, At
  <2>2. \E ds \in SUBSET Debs, r \in {Failed, [run EXCEPT !.files = @ \ Chunk]} :
           Change(SetTo(machine.packages, ds, "unpacked"), r)
    BY <1>4, <1>t DEF Unpack, Present, Chunk, Runs
  <2>3. machine'.packages[d].from = Bytes(d)
    BY <1>m, <1>t, <2>2, FromOf DEF States
  <2>4. run.opts.dpkg /\ (run.signed \/ run.opts.allowUnsigned) /\ (d \in late \/ Bytes(d) = run.manifest[d])
    BY <1>p, <2>1 DEF InstallInv, BundleInv, Accepted, AllWalked, Lists, Verified
  <2> QED  BY <2>3, <2>4 DEF Attested
<1>5. CASE Configure
  <2>1. \E ks \in SUBSET Debs, r \in {Failed, [run EXCEPT !.pc = "record"]} :
           Change(Configured(machine.packages, ks), r)
    BY <1>5 DEF Configure
  <2> QED  BY <1>m, <1>t, <2>1, FromOf DEF States
<1> QED
  BY <1>1, <1>2, <1>3, <1>4, <1>5
     DEF InstallNext, Execute, MediumChanges, InstallKilled, VerifyManifest, CheckFile, CheckLock, LoadLock,
         CheckMachine, Select, AptUpdate, AptSimulate, PlanInstall, ListPool, RecordEvidence, Finish, Go

(* Bytes reach the machine only under a manifest that a trusted key signed or  *)
(* the operator accepted unsigned, and they are the bytes it lists, unless the  *)
(* medium changed after it was checked: the file itself for dpkg, the index for *)
(* apt (execute, applyApt, applyDpkg), for any bundle whose index agrees with   *)
(* its manifest.                                                                *)
THEOREM OnlyAttestedBytes == InstallSpec => InstalledIsAttested
<1> DEFINE Step == \A d \in Debs : machine'.packages[d].from # machine.packages[d].from =>
       /\ run.signed \/ run.opts.allowUnsigned
       /\ \/ machine'.packages[d].from = run.manifest[d]
          \/ run.opts.dpkg /\ d \in late
          \/ ~run.opts.dpkg /\ Index \in late
<1>1. InstallInv /\ [InstallNext]_ivars => [Step]_ivars
  BY StepAttests DEF Attested
<1>2. InstallSpec => [][InstallNext]_ivars
  BY PTL DEF InstallSpec
<1> QED  BY <1>1, <1>2, InstallInvariant, PTL DEF InstalledIsAttested

-----------------------------------------------------------------------------
(* The apt backends: what a resolution and a closed-world check keep true.    *)

(* What every plan says: a held package at the version the target has, and    *)
(* one version of a package.                                                  *)
SelectionFields == {"name", "version", "file", "reason", "verified", "from", "sha"}
HeldStays(plan) ==
  \A s \in plan : DOMAIN s = SelectionFields /\ (s.name \in Held => s.version = Installed[s.name])
OneVersion(plan) == \A s, u \in plan : s.name = u.name => s.version = u.version

(* The call a build is in. *)
TaskInv(t) ==
  /\ DOMAIN t = DOMAIN NoTask
  /\ t.exit # "plan"
  /\ t.pc # "idle" => t.result = "none" /\ DOMAIN t.versions \cap Held = {}
  /\ DOMAIN t.versions \cap Held = {} \/ t.job = "closed"
  /\ t.pinned \subseteq Held
  /\ t.pc = "simulate" => t.kind = "local" /\ t.job = "closed"
  /\ t.pc = "exited" => t.kind = "container"
  /\ HeldStays(t.plan)

(* The envelope in its work directory. *)
EnvelopeInv(e) == DOMAIN e = DOMAIN NoEnvelope /\ HeldStays(e.plan) /\ OneVersion(e.plan) /\ \A f \in e.files : f.sha # 0

(* What the host has checked when it reads the files once more. *)
CheckedPlan(t) ==
  /\ \A f \in t.listed : f.sha # 0
  /\ \A s \in t.plan :
       IF External(s) THEN s.name \in t.req.externals
       ELSE \E f \in t.listed : f.file = s.file /\ (s.sha = 0 \/ f.sha = s.sha)
Fresh(t, e) ==
  t.kind = "container" /\ t.pc # "idle" =>
    /\ e.ok => e.run = t.run
    /\ t.pc \in {"copy", "reverify"} => e.run = t.run /\ CheckedPlan(t)

(* What a closed-world check that passed has shown. *)
VersionsSettled(t, e) == t.result = "ok" => \A n \in DOMAIN t.want : After(t, e, n) = {t.want[n]}

AptInv ==
  /\ DOMAIN task = Builds /\ DOMAIN envelope = Builds
  /\ \A b \in Builds :
       TaskInv(task[b]) /\ EnvelopeInv(envelope[b]) /\ Fresh(task[b], envelope[b]) /\ VersionsSettled(task[b], envelope[b])

(* What AcceptedPlanIsOnTheHost says of one step, and of one build's next task. *)
Holding(b, s) ==
  IF s.from = "vendor" THEN s.name \in task[b].req.externals /\ VendorBytes(s.file) \in {1} /\ s.sha \in {0, 1}
  ELSE store.host[b][s.file] # 0 /\ s.sha \in {0, store.host[b][s.file]}
OnTheHost ==
  \A b \in Builds :
    (Inside(b) /\ ~Planned(b) /\ Planned(b)') =>
      envelope[b].run = task[b].run /\ \A s \in task'[b].plan : Holding(b, s)
Accepts(b, t) ==
  (Inside(b) /\ ~Planned(b) /\ t.result = "plan" /\ t.job = "resolve") =>
      envelope[b].run = task[b].run /\ \A s \in t.plan : Holding(b, s)

Good(b, t, e) == TaskInv(t) /\ EnvelopeInv(e) /\ Fresh(t, e) /\ VersionsSettled(t, e) /\ Accepts(b, t)

LEMMA GoodStep ==
  ASSUME AptInv, NEW b \in Builds, NEW t, NEW e, Good(b, t, e),
         task' = [task EXCEPT ![b] = t] \/ (task' = task /\ t = task[b]),
         envelope' = [envelope EXCEPT ![b] = e] \/ (envelope' = envelope /\ e = envelope[b])
  PROVE  AptInv' /\ OnTheHost
<1>1. /\ DOMAIN task = Builds /\ DOMAIN envelope = Builds /\ DOMAIN task' = Builds /\ DOMAIN envelope' = Builds
      /\ task'[b] = t /\ envelope'[b] = e
      /\ \A c \in Builds \ {b} : task'[c] = task[c] /\ envelope'[c] = envelope[c]
  BY DEF AptInv
<1>2. ASSUME NEW c \in Builds
      PROVE  /\ TaskInv(task'[c]) /\ EnvelopeInv(envelope'[c]) /\ Fresh(task'[c], envelope'[c])
             /\ VersionsSettled(task'[c], envelope'[c])
  <2>1. CASE c = b
    BY <1>1, <2>1 DEF Good
  <2>2. CASE c # b
    <3>1. task'[c] = task[c] /\ envelope'[c] = envelope[c]
      BY <1>1, <2>2
    <3> QED  BY <3>1 DEF AptInv
  <2> QED  BY <2>1, <2>2
<1>3. AptInv'
  BY <1>1, <1>2 DEF AptInv, TaskInv, EnvelopeInv, Fresh, VersionsSettled, After, HeldStays, OneVersion, CheckedPlan, External
<1>4. OnTheHost
  BY <1>1 DEF Good, Accepts, OnTheHost, Planned
<1> QED  BY <1>3, <1>4

(* A step on the way: the call goes on. *)
Follows(s, t) ==
  /\ DOMAIN t = DOMAIN s
  /\ t.kind = s.kind /\ t.run = s.run /\ t.job = s.job /\ t.exit = s.exit /\ t.result = s.result /\ t.plan = s.plan
  /\ t.pc \notin {"idle", "exited", "copy", "reverify", "simulate"}
  /\ DOMAIN t.versions \cap Held = {}
  /\ t.pinned \subseteq Held

LEMMA FollowsIsGood ==
  ASSUME AptInv, NEW b \in Builds, task[b].pc # "idle", NEW t, Follows(task[b], t)
  PROVE  Good(b, t, envelope[b])
<1>1. TaskInv(task[b]) /\ EnvelopeInv(envelope[b]) /\ Fresh(task[b], envelope[b]) /\ task[b].result = "none"
  BY DEF AptInv, TaskInv
<1>2. TaskInv(t)
  BY <1>1 DEF TaskInv, Follows
<1>3. Fresh(t, envelope[b])
  BY <1>1 DEF Fresh, Follows
<1>4. VersionsSettled(t, envelope[b]) /\ Accepts(b, t)
  BY <1>1 DEF VersionsSettled, Accepts, Follows
<1> QED  BY <1>1, <1>2, <1>3, <1>4 DEF Good

(* A call that ends, and a process that exits. *)
LEMMA NoTaskFields ==
  /\ NoTask.pc = "idle" /\ NoTask.exit = "none" /\ NoTask.result = "none" /\ NoTask.plan = {} /\ NoTask.pinned = {}
  /\ NoTask.versions = <<>> /\ NoTask.job = "resolve" /\ NoTask.kind = "none" /\ NoTask.want = <<>>
  /\ DOMAIN NoTask = {"pc", "run", "job", "req", "kind", "want", "versions", "pinned", "roots", "upgraded", "todo",
                      "confirmed", "unresolved", "listed", "plan", "exit", "result"}
BY DEF NoTask

LEMMA OverFields ==
  ASSUME NEW s, NEW class
  PROVE  LET t == Over(s, class)
         IN /\ DOMAIN t = DOMAIN NoTask /\ t.pc = "idle" /\ t.exit = "none" /\ t.result = class /\ t.plan = {}
            /\ t.pinned = {} /\ t.versions = <<>> /\ t.job = s.job /\ t.kind = s.kind /\ t.want = s.want /\ t.run = s.run
BY NoTaskFields DEF Over

LEMMA ExitedFields ==
  ASSUME NEW s, NEW class
  PROVE  LET t == Exited(s, class)
         IN /\ DOMAIN t = DOMAIN NoTask /\ t.pc = "exited" /\ t.exit = class /\ t.result = "none" /\ t.plan = {}
            /\ t.pinned = {} /\ t.versions = <<>> /\ t.job = s.job /\ t.kind = s.kind /\ t.want = s.want /\ t.run = s.run
BY NoTaskFields DEF Exited

LEMMA EndIsGood ==
  ASSUME AptInv, NEW b \in Builds, task[b].pc # "idle", NEW class
  PROVE  /\ class \notin {"plan", "ok"} => Good(b, Over(task[b], class), envelope[b])
         /\ class # "plan" /\ Inside(b) => Good(b, Exited(task[b], class), envelope[b])
<1>1. EnvelopeInv(envelope[b]) /\ Fresh(task[b], envelope[b]) /\ DOMAIN <<>> = {}
  BY DEF AptInv
<1>2. ASSUME class \notin {"plan", "ok"} PROVE Good(b, Over(task[b], class), envelope[b])
  <2> DEFINE t == Over(task[b], class)
  <2>1. /\ DOMAIN t = DOMAIN NoTask /\ t.pc = "idle" /\ t.exit = "none" /\ t.result = class /\ t.plan = {}
        /\ t.pinned = {} /\ t.versions = <<>>
    BY OverFields
  <2> HIDE DEF t
  <2>2. TaskInv(t)
    BY <1>1, <2>1 DEF TaskInv, HeldStays
  <2> QED  BY <1>1, <1>2, <2>1, <2>2 DEF Good, Fresh, VersionsSettled, Accepts, t
<1>3. ASSUME class # "plan", Inside(b) PROVE Good(b, Exited(task[b], class), envelope[b])
  <2> DEFINE t == Exited(task[b], class)
  <2>1. /\ DOMAIN t = DOMAIN NoTask /\ t.pc = "exited" /\ t.exit = class /\ t.result = "none" /\ t.plan = {}
        /\ t.pinned = {} /\ t.versions = <<>> /\ t.kind = task[b].kind /\ t.run = task[b].run
    BY ExitedFields
  <2> HIDE DEF t
  <2>2. TaskInv(t)
    BY <1>1, <1>3, <2>1 DEF TaskInv, HeldStays, Inside
  <2>3. Fresh(t, envelope[b])
    BY <1>1, <2>1 DEF Fresh
  <2> QED  BY <1>1, <1>3, <2>1, <2>2, <2>3 DEF Good, VersionsSettled, Accepts, t
<1> QED  BY <1>2, <1>3

(* The three ways a step of a call is taken. *)
LEMMA GoesOn ==
  ASSUME AptInv, NEW b \in Builds, task[b].pc # "idle", NEW t, Follows(task[b], t),
         task' = [task EXCEPT ![b] = t], envelope' = envelope
  PROVE  AptInv' /\ OnTheHost
<1>1. Good(b, t, envelope[b])
  BY FollowsIsGood
<1>2. PICK e : e = envelope[b]
  OBVIOUS
<1>3. Good(b, t, e) /\ (envelope' = [envelope EXCEPT ![b] = e] \/ (envelope' = envelope /\ e = envelope[b]))
  BY <1>1, <1>2
<1> QED  BY <1>3, GoodStep

LEMMA GivesUp ==
  ASSUME AptInv, NEW b \in Builds, task[b].pc # "idle", NEW class, class \notin {"plan", "ok"},
         Become(b, Failing(b, class)) \/ Refuse(b, class)
  PROVE  AptInv' /\ OnTheHost
<1>1. PICK e : e = envelope[b]
  OBVIOUS
<1>2. PICK t : t = Over(task[b], class)
  OBVIOUS
<1>3. PICK x : x = Exited(task[b], class)
  OBVIOUS
<1>4. Good(b, t, e) /\ (Inside(b) => Good(b, x, e))
  BY <1>1, <1>2, <1>3, EndIsGood
<1>5. envelope' = envelope /\ (task' = [task EXCEPT ![b] = t] \/ (Inside(b) /\ task' = [task EXCEPT ![b] = x]))
  BY <1>2, <1>3 DEF Become, Failing, Refuse
<1> QED  BY <1>1, <1>4, <1>5, GoodStep

LEMMA RecordKeeps ==
  ASSUME NEW t, NEW acts, DOMAIN t = DOMAIN NoTask, DOMAIN t.versions \cap Held = {}, t.pinned \subseteq Held
  PROVE  LET r == Record(t, acts)
         IN /\ DOMAIN r = DOMAIN NoTask
            /\ DOMAIN r.versions \cap Held = {} /\ r.pinned \subseteq Held
            /\ r.kind = t.kind /\ r.run = t.run /\ r.job = t.job /\ r.exit = t.exit /\ r.result = t.result
            /\ r.plan = t.plan /\ r.pc = t.pc
<1> DEFINE more == [n \in DOMAIN acts \ Held |-> acts[n]]
           r == [t EXCEPT !.versions = Override(@, more), !.pinned = @ \cup {n \in DOMAIN acts \cap Held : Installed[n] # 0}]
<1>1. DOMAIN Override(t.versions, more) \cap Held = {}
  BY DEF Override
<1>2. r = Record(t, acts)
  BY DEF Record
<1>3. /\ DOMAIN r = DOMAIN t /\ r.versions = Override(t.versions, more)
      /\ r.pinned = t.pinned \cup {n \in DOMAIN acts \cap Held : Installed[n] # 0}
      /\ r.kind = t.kind /\ r.run = t.run /\ r.job = t.job /\ r.exit = t.exit /\ r.result = t.result
      /\ r.plan = t.plan /\ r.pc = t.pc
  BY NoTaskFields
<1> QED  BY <1>1, <1>2, <1>3

-----------------------------------------------------------------------------
(* The steps of a resolution. *)

LEMMA UpdateStep ==
  ASSUME AptInv, NEW b \in Builds, Update(b)
  PROVE  AptInv' /\ OnTheHost
<1>1. task[b].pc = "update" /\ TaskInv(task[b])
  BY DEF Update, InStep, AptInv
<1>2. CASE Become(b, [task[b] EXCEPT !.pc = "upgrade"])
  <2>1. PICK t : t = [task[b] EXCEPT !.pc = "upgrade"]
    OBVIOUS
  <2>2. Follows(task[b], t)
    BY <1>1, <2>1, NoTaskFields DEF Follows, TaskInv
  <2> QED  BY <1>1, <1>2, <2>1, <2>2, GoesOn DEF Become
<1>3. CASE \E class \in {"resolution", "environment"} : Become(b, Failing(b, class))
  BY <1>1, <1>3, GivesUp
<1> QED  BY <1>2, <1>3 DEF Update

LEMMA FullUpgradeStep ==
  ASSUME AptInv, NEW b \in Builds, FullUpgrade(b)
  PROVE  AptInv' /\ OnTheHost
<1>1. task[b].pc = "upgrade" /\ TaskInv(task[b])
  BY DEF FullUpgrade, InStep, AptInv
<1>2. PICK t : t = [task[b] EXCEPT !.pc = "packages"]
  OBVIOUS
<1>3. Follows(task[b], t) /\ DOMAIN t = DOMAIN NoTask
  BY <1>1, <1>2, NoTaskFields DEF Follows, TaskInv
<1>4. CASE Become(b, t)
  BY <1>1, <1>3, <1>4, GoesOn DEF Become
<1>5. CASE \E class \in {"environment", "resolution"} : Become(b, Failing(b, class))
  BY <1>1, <1>5, GivesUp
<1>6. CASE \E acts \in UpgradeProposals(b) :
             Become(b, [Record(t, acts) EXCEPT !.roots = @ \cup DOMAIN acts, !.upgraded = DOMAIN acts])
  <2>1. PICK acts : Become(b, [Record(t, acts) EXCEPT !.roots = @ \cup DOMAIN acts, !.upgraded = DOMAIN acts])
    BY <1>6
  <2>2. PICK r : r = Record(t, acts)
    OBVIOUS
  <2>3. PICK u : u = [r EXCEPT !.roots = @ \cup DOMAIN acts, !.upgraded = DOMAIN acts]
    OBVIOUS
  <2>4. Follows(task[b], r) /\ DOMAIN r = DOMAIN NoTask
    BY <1>3, <2>2, RecordKeeps DEF Follows
  <2>5. Follows(task[b], u)
    BY <2>3, <2>4, NoTaskFields DEF Follows
  <2> QED  BY <1>1, <2>1, <2>2, <2>3, <2>5, GoesOn DEF Become
<1> QED  BY <1>2, <1>4, <1>5, <1>6 DEF FullUpgrade

LEMMA SimulatePackagesStep ==
  ASSUME AptInv, NEW b \in Builds, SimulatePackages(b)
  PROVE  AptInv' /\ OnTheHost
<1>1. task[b].pc = "packages" /\ TaskInv(task[b])
  BY DEF SimulatePackages, InStep, AptInv
<1>2. PICK t : t = [task[b] EXCEPT !.pc = "externals", !.todo = task[b].req.externals]
  OBVIOUS
<1>3. Follows(task[b], t) /\ DOMAIN t = DOMAIN NoTask
  BY <1>1, <1>2, NoTaskFields DEF Follows, TaskInv
<1>4. CASE Become(b, t)
  BY <1>1, <1>3, <1>4, GoesOn DEF Become
<1>5. CASE \E class \in {"environment", "resolution"} : Become(b, Failing(b, class))
  BY <1>1, <1>5, GivesUp
<1>6. CASE \E acts \in Proposals(b, t.req.packages) : Become(b, [Record(t, acts) EXCEPT !.roots = @ \cup t.req.packages])
  <2>1. PICK acts : Become(b, [Record(t, acts) EXCEPT !.roots = @ \cup t.req.packages])
    BY <1>6
  <2>2. PICK r : r = Record(t, acts)
    OBVIOUS
  <2>3. PICK u : u = [r EXCEPT !.roots = @ \cup t.req.packages]
    OBVIOUS
  <2>4. Follows(task[b], r) /\ DOMAIN r = DOMAIN NoTask
    BY <1>3, <2>2, RecordKeeps DEF Follows
  <2>5. Follows(task[b], u)
    BY <2>3, <2>4, NoTaskFields DEF Follows
  <2> QED  BY <1>1, <2>1, <2>2, <2>3, <2>5, GoesOn DEF Become
<1> QED  BY <1>2, <1>4, <1>5, <1>6 DEF SimulatePackages

LEMMA SimulateExternalsStep ==
  ASSUME AptInv, NEW b \in Builds, SimulateExternals(b)
  PROVE  AptInv' /\ OnTheHost
<1>1. task[b].pc = "externals" /\ TaskInv(task[b])
  BY DEF SimulateExternals, InStep, AptInv
<1>2. PICK t : t = [task[b] EXCEPT !.pc = "fetch"]
  OBVIOUS
<1>3. Follows(task[b], t) /\ DOMAIN t = DOMAIN NoTask
  BY <1>1, <1>2, NoTaskFields DEF Follows, TaskInv
<1>4. CASE Become(b, t)
  BY <1>1, <1>3, <1>4, GoesOn DEF Become
<1>5. CASE \E class \in {"environment", "resolution"} : Become(b, Failing(b, class))
  BY <1>1, <1>5, GivesUp
<1>6. CASE Become(b, [t EXCEPT !.pc = "single"])
  <2>1. PICK u : u = [t EXCEPT !.pc = "single"]
    OBVIOUS
  <2>2. Follows(task[b], u)
    BY <1>3, <2>1, NoTaskFields DEF Follows
  <2> QED  BY <1>1, <1>6, <2>1, <2>2, GoesOn DEF Become
<1>7. CASE \E acts \in Proposals(b, t.todo) :
             Become(b, [Record(t, acts) EXCEPT !.confirmed = t.todo, !.roots = @ \cup t.todo, !.todo = {}])
  <2>1. PICK acts : Become(b, [Record(t, acts) EXCEPT !.confirmed = t.todo, !.roots = @ \cup t.todo, !.todo = {}])
    BY <1>7
  <2>2. PICK r : r = Record(t, acts)
    OBVIOUS
  <2>3. PICK u : u = [r EXCEPT !.confirmed = t.todo, !.roots = @ \cup t.todo, !.todo = {}]
    OBVIOUS
  <2>4. Follows(task[b], r) /\ DOMAIN r = DOMAIN NoTask
    BY <1>3, <2>2, RecordKeeps DEF Follows
  <2>5. Follows(task[b], u)
    BY <2>3, <2>4, NoTaskFields DEF Follows
  <2> QED  BY <1>1, <2>1, <2>2, <2>3, <2>5, GoesOn DEF Become
<1> QED  BY <1>2, <1>4, <1>5, <1>6, <1>7 DEF SimulateExternals

LEMMA SimulateExternalStep ==
  ASSUME AptInv, NEW b \in Builds, SimulateExternal(b)
  PROVE  AptInv' /\ OnTheHost
<1>1. task[b].pc = "single" /\ TaskInv(task[b])
  BY DEF SimulateExternal, InStep, AptInv
<1>2. CASE Become(b, [task[b] EXCEPT !.pc = "fetch"])
  <2>1. PICK u : u = [task[b] EXCEPT !.pc = "fetch"]
    OBVIOUS
  <2>2. Follows(task[b], u)
    BY <1>1, <2>1, NoTaskFields DEF Follows, TaskInv
  <2> QED  BY <1>1, <1>2, <2>1, <2>2, GoesOn DEF Become
<1>3. PICK n : n = FirstOf(task[b].todo)
  OBVIOUS
<1>4. PICK t : t = [task[b] EXCEPT !.todo = @ \ {n}]
  OBVIOUS
<1>5. Follows(task[b], t) /\ DOMAIN t = DOMAIN NoTask
  BY <1>1, <1>4, NoTaskFields DEF Follows, TaskInv
<1>6. CASE \E class \in {"environment", "resolution"} : Become(b, Failing(b, class))
  BY <1>1, <1>6, GivesUp
<1>7. CASE Become(b, [t EXCEPT !.unresolved = @ \cup {n}])
  <2>1. PICK u : u = [t EXCEPT !.unresolved = @ \cup {n}]
    OBVIOUS
  <2>2. Follows(task[b], u)
    BY <1>5, <2>1, NoTaskFields DEF Follows
  <2> QED  BY <1>1, <1>7, <2>1, <2>2, GoesOn DEF Become
<1>8. CASE \E acts \in Proposals(b, {n}) : Become(b, [Record(t, acts) EXCEPT !.confirmed = @ \cup {n}, !.roots = @ \cup {n}])
  <2>1. PICK acts : Become(b, [Record(t, acts) EXCEPT !.confirmed = @ \cup {n}, !.roots = @ \cup {n}])
    BY <1>8
  <2>2. PICK r : r = Record(t, acts)
    OBVIOUS
  <2>3. PICK u : u = [r EXCEPT !.confirmed = @ \cup {n}, !.roots = @ \cup {n}]
    OBVIOUS
  <2>4. Follows(task[b], r) /\ DOMAIN r = DOMAIN NoTask
    BY <1>5, <2>2, RecordKeeps DEF Follows
  <2>5. Follows(task[b], u)
    BY <2>3, <2>4, NoTaskFields DEF Follows
  <2> QED  BY <1>1, <2>1, <2>2, <2>3, <2>5, GoesOn DEF Become
<1> QED  BY <1>2, <1>3, <1>4, <1>6, <1>7, <1>8 DEF SimulateExternal

LEMMA DownloadStep ==
  ASSUME AptInv, NEW b \in Builds, Download(b)
  PROVE  AptInv' /\ OnTheHost
<1>1. task[b].pc = "fetch" /\ TaskInv(task[b]) /\ DOMAIN task = Builds
  BY DEF Download, InStep, AptInv
<1>2. CASE /\ task' = [task EXCEPT ![b] = [@ EXCEPT !.pc = IF task[b].pinned = {} THEN "build" ELSE "list"]]
           /\ envelope' = envelope
  <2>1. PICK t : t = [task[b] EXCEPT !.pc = IF task[b].pinned = {} THEN "build" ELSE "list"]
    OBVIOUS
  <2>2. Follows(task[b], t)
    BY <1>1, <2>1, NoTaskFields DEF Follows, TaskInv
  <2>3. task' = [task EXCEPT ![b] = t]
    BY <1>1, <1>2, <2>1
  <2> QED  BY <1>1, <1>2, <2>2, <2>3, GoesOn
<1>3. CASE \E class \in {"resolution", "incomplete"} : Become(b, Failing(b, class))
  BY <1>1, <1>3, GivesUp
<1> QED  BY <1>2, <1>3 DEF Download

LEMMA HeldListStep ==
  ASSUME AptInv, NEW b \in Builds, HeldList(b)
  PROVE  AptInv' /\ OnTheHost
<1>1. task[b].pc = "list" /\ TaskInv(task[b])
  BY DEF HeldList, InStep, AptInv
<1>2. PICK t : t = [task[b] EXCEPT !.pc = "held", !.listed = IF Inside(b) THEN {} ELSE store.cwd]
  OBVIOUS
<1>3. Follows(task[b], t)
  BY <1>1, <1>2, NoTaskFields DEF Follows, TaskInv
<1>4. task' = [task EXCEPT ![b] = t] /\ envelope' = envelope
  BY <1>2 DEF HeldList, Become
<1> QED  BY <1>1, <1>3, <1>4, GoesOn

LEMMA HeldDownloadStep ==
  ASSUME AptInv, NEW b \in Builds, HeldDownload(b)
  PROVE  AptInv' /\ OnTheHost
<1>1. task[b].pc = "held" /\ TaskInv(task[b]) /\ DOMAIN task = Builds
  BY DEF HeldDownload, InStep, AptInv
<1>2. CASE task' = [task EXCEPT ![b].pc = "move"] /\ envelope' = envelope
  <2>1. PICK t : t = [task[b] EXCEPT !.pc = "move"]
    OBVIOUS
  <2>2. Follows(task[b], t)
    BY <1>1, <2>1, NoTaskFields DEF Follows, TaskInv
  <2>3. task' = [task EXCEPT ![b] = t]
    BY <1>1, <1>2, <2>1
  <2> QED  BY <1>1, <1>2, <2>2, <2>3, GoesOn
<1>3. CASE \E class \in {"resolution", "incomplete"} : Become(b, Failing(b, class))
  BY <1>1, <1>3, GivesUp
<1> QED  BY <1>2, <1>3 DEF HeldDownload

LEMMA HeldMoveStep ==
  ASSUME AptInv, NEW b \in Builds, HeldMove(b)
  PROVE  AptInv' /\ OnTheHost
<1>1. task[b].pc = "move" /\ TaskInv(task[b]) /\ DOMAIN task = Builds
  BY DEF HeldMove, InStep, AptInv
<1>2. PICK t : t = [task[b] EXCEPT !.pc = "build"]
  OBVIOUS
<1>3. Follows(task[b], t)
  BY <1>1, <1>2, NoTaskFields DEF Follows, TaskInv
<1>4. task' = [task EXCEPT ![b] = t] /\ envelope' = envelope
  BY <1>1, <1>2 DEF HeldMove
<1> QED  BY <1>1, <1>3, <1>4, GoesOn

LEMMA ContainerKilledStep ==
  ASSUME AptInv, NEW b \in Builds, ContainerKilled(b)
  PROVE  AptInv' /\ OnTheHost
<1>1. task[b].pc # "idle" /\ Become(b, Failing(b, "environment"))
  BY DEF ContainerKilled, Failing
<1> QED  BY <1>1, GivesUp

(* Files that change on a disk change no call and no envelope. *)
LEMMA DiskChangesStep ==
  ASSUME AptInv, DiskChanges
  PROVE  AptInv' /\ OnTheHost
<1>1. task' = task /\ envelope' = envelope
  BY DEF DiskChanges
<1>2. /\ DOMAIN task' = Builds /\ DOMAIN envelope' = Builds
      /\ \A c \in Builds : /\ TaskInv(task'[c]) /\ EnvelopeInv(envelope'[c]) /\ Fresh(task'[c], envelope'[c])
                           /\ VersionsSettled(task'[c], envelope'[c])
  BY <1>1 DEF AptInv
<1>3. AptInv'
  BY <1>2 DEF AptInv, TaskInv, EnvelopeInv, Fresh, VersionsSettled, After, HeldStays, OneVersion, CheckedPlan, External
<1> QED  BY <1>1, <1>3 DEF OnTheHost, Planned

LEMMA StartResolveStep ==
  ASSUME AptInv, NEW b \in Builds, NEW req, StartResolve(b, req)
  PROVE  AptInv' /\ OnTheHost
<1>1. PICK localFits \in BOOLEAN, containerFits \in BOOLEAN :
        LET kind == SelectBackend(req.backend, localFits, containerFits)
            t == [NoTask EXCEPT !.run = tally.resolves + 1, !.req = req, !.kind = kind]
        IN /\ task' = [task EXCEPT ![b] = IF kind = "none" THEN [t EXCEPT !.result = "environment"] ELSE [t EXCEPT !.pc = "update"]]
           /\ envelope' = ForgetPlan(b, kind)
  BY DEF StartResolve
<1>2. PICK kind : kind = SelectBackend(req.backend, localFits, containerFits)
  OBVIOUS
<1>3. PICK s : s = [NoTask EXCEPT !.run = tally.resolves + 1, !.req = req, !.kind = kind]
  OBVIOUS
<1>4. PICK t : t = IF kind = "none" THEN [s EXCEPT !.result = "environment"] ELSE [s EXCEPT !.pc = "update"]
  OBVIOUS
<1>5. PICK e : e = IF kind = "container" THEN NoEnvelope ELSE envelope[b]
  OBVIOUS
<1>6. /\ DOMAIN s = DOMAIN NoTask /\ s.kind = kind /\ s.exit = "none" /\ s.result = "none" /\ s.plan = {} /\ s.pinned = {}
      /\ s.versions = <<>> /\ s.pc = "idle"
  BY <1>3, NoTaskFields
<1>7. /\ DOMAIN t = DOMAIN NoTask /\ t.kind = kind /\ t.exit = "none" /\ t.plan = {} /\ t.pinned = {}
      /\ t.versions = <<>> /\ (t.pc = "idle" \/ (t.pc = "update" /\ t.result = "none")) /\ t.result \in {"environment", "none"}
  BY <1>4, <1>6, NoTaskFields
<1>8. TaskInv(t)
  BY <1>7 DEF TaskInv, HeldStays
<1>9. EnvelopeInv(e)
  BY <1>5 DEF EnvelopeInv, AptInv, NoEnvelope, HeldStays, OneVersion
<1>10. Fresh(t, e)
  BY <1>5, <1>7 DEF Fresh, NoEnvelope
<1>11. Good(b, t, e)
  BY <1>7, <1>8, <1>9, <1>10 DEF Good, VersionsSettled, Accepts
<1>12. task' = [task EXCEPT ![b] = t] /\ (envelope' = [envelope EXCEPT ![b] = e] \/ (envelope' = envelope /\ e = envelope[b]))
  BY <1>1, <1>2, <1>3, <1>4, <1>5 DEF ForgetPlan
<1> QED  BY <1>11, <1>12, GoodStep

LEMMA AlteredPlan ==
  ASSUME NEW plan, NEW s \in plan, NEW t, HeldStays(plan), OneVersion(plan),
         DOMAIN t = DOMAIN s, t.name = s.name, t.version = s.version
  PROVE  HeldStays((plan \ {s}) \cup {t}) /\ OneVersion((plan \ {s}) \cup {t})
BY DEF HeldStays, OneVersion

LEMMA EnvelopeAlteredStep ==
  ASSUME AptInv, NEW b \in Builds, EnvelopeAltered(b)
  PROVE  AptInv' /\ OnTheHost
<1>1. task[b].pc = "exited" /\ TaskInv(task[b]) /\ EnvelopeInv(envelope[b]) /\ Fresh(task[b], envelope[b])
      /\ envelope[b].ok /\ task[b].result = "none" /\ DOMAIN task = Builds /\ DOMAIN envelope = Builds
  BY DEF EnvelopeAltered, InStep, AptInv, TaskInv
<1>2. PICK d : d = envelope[b]
  OBVIOUS
<1>3. DOMAIN d = {"run", "ok", "plan", "unresolved", "files"}
  BY <1>1, <1>2 DEF EnvelopeInv, NoEnvelope
<1>4. SUFFICES ASSUME NEW e, envelope' = [envelope EXCEPT ![b] = e], EnvelopeInv(e), e.run = d.run
               PROVE  AptInv' /\ OnTheHost
  <2>1. CASE envelope' = [envelope EXCEPT ![b].ok = FALSE]
    <3>1. PICK e : e = [d EXCEPT !.ok = FALSE]
      OBVIOUS
    <3>2. DOMAIN e = DOMAIN d /\ e.run = d.run /\ e.plan = d.plan /\ e.files = d.files
      BY <1>3, <3>1
    <3>3. EnvelopeInv(e)
      BY <1>1, <1>2, <3>2 DEF EnvelopeInv
    <3>4. envelope' = [envelope EXCEPT ![b] = e]
      BY <1>2, <2>1, <3>1
    <3> QED  BY <1>4, <3>2, <3>3, <3>4
  <2>2. CASE envelope' = [envelope EXCEPT ![b].unresolved = {}]
    <3>1. PICK e : e = [d EXCEPT !.unresolved = {}]
      OBVIOUS
    <3>2. DOMAIN e = DOMAIN d /\ e.run = d.run /\ e.plan = d.plan /\ e.files = d.files
      BY <1>3, <3>1
    <3>3. EnvelopeInv(e)
      BY <1>1, <1>2, <3>2 DEF EnvelopeInv
    <3>4. envelope' = [envelope EXCEPT ![b] = e]
      BY <1>2, <2>2, <3>1
    <3> QED  BY <1>4, <3>2, <3>3, <3>4
  <2>3. ASSUME NEW f \in envelope[b].files, envelope' = [envelope EXCEPT ![b].files = @ \ {f}]
        PROVE  AptInv' /\ OnTheHost
    <3>1. PICK e : e = [d EXCEPT !.files = @ \ {f}]
      OBVIOUS
    <3>2. DOMAIN e = DOMAIN d /\ e.run = d.run /\ e.plan = d.plan /\ e.files = d.files \ {f}
      BY <1>3, <3>1
    <3>3. EnvelopeInv(e)
      BY <1>1, <1>2, <3>2 DEF EnvelopeInv
    <3>4. envelope' = [envelope EXCEPT ![b] = e]
      BY <1>2, <2>3, <3>1
    <3> QED  BY <1>4, <3>2, <3>3, <3>4
  <2>4. ASSUME NEW s \in envelope[b].plan, NEW change \in {"reason", "sha", "other"},
               LET t == CASE change = "reason" -> [s EXCEPT !.reason = <<"external">>]
                          [] change = "sha" -> [s EXCEPT !.sha = 2]
                          [] OTHER -> [s EXCEPT !.sha = 0, !.reason = Blank]
               IN envelope' = [envelope EXCEPT ![b].plan = (@ \ {s}) \cup {t}]
        PROVE  AptInv' /\ OnTheHost
    <3>1. PICK t : t = CASE change = "reason" -> [s EXCEPT !.reason = <<"external">>]
                         [] change = "sha" -> [s EXCEPT !.sha = 2]
                         [] OTHER -> [s EXCEPT !.sha = 0, !.reason = Blank]
      OBVIOUS
    <3>2. DOMAIN s = SelectionFields
      BY <1>1 DEF EnvelopeInv, HeldStays
    <3>3. DOMAIN t = DOMAIN s /\ t.name = s.name /\ t.version = s.version
      BY <2>4, <3>1, <3>2 DEF SelectionFields
    <3>4. PICK e : e = [d EXCEPT !.plan = (@ \ {s}) \cup {t}]
      OBVIOUS
    <3>5. DOMAIN e = DOMAIN d /\ e.run = d.run /\ e.plan = (d.plan \ {s}) \cup {t} /\ e.files = d.files
      BY <1>3, <3>4
    <3>6. EnvelopeInv(e)
      <4>1. s \in d.plan /\ HeldStays(d.plan) /\ OneVersion(d.plan)
        BY <1>1, <1>2 DEF EnvelopeInv
      <4>2. HeldStays((d.plan \ {s}) \cup {t}) /\ OneVersion((d.plan \ {s}) \cup {t})
        BY <3>3, <4>1, AlteredPlan
      <4> QED  BY <1>1, <1>2, <3>5, <4>2 DEF EnvelopeInv
    <3>7. envelope' = [envelope EXCEPT ![b] = e]
      BY <1>2, <2>4, <3>1, <3>4
    <3> QED  BY <1>4, <3>5, <3>6, <3>7
  <2> QED  BY <2>1, <2>2, <2>3, <2>4 DEF EnvelopeAltered
<1>5. PICK t : t = task[b]
  OBVIOUS
<1>6. Good(b, t, e)
  BY <1>1, <1>2, <1>4, <1>5 DEF Good, Fresh, VersionsSettled, Accepts
<1>7. task' = [task EXCEPT ![b] = t] \/ (task' = task /\ t = task[b])
  BY <1>5 DEF EnvelopeAltered
<1>8. envelope' = [envelope EXCEPT ![b] = e] \/ (envelope' = envelope /\ e = envelope[b])
  BY <1>4
<1> QED  BY <1>6, <1>7, <1>8, GoodStep

-----------------------------------------------------------------------------
(* The plan a resolution builds. *)

LEMMA ReasonsKeepVersions ==
  ASSUME NEW roots, NEW selections, NEW deps, \A s \in selections : DOMAIN s = SelectionFields,
         NEW u \in AttributeReasons(roots, selections, deps)
  PROVE  \E s \in selections : DOMAIN u = SelectionFields /\ u.name = s.name /\ u.version = s.version
<1>1. PICK s \in selections : \E r : u = [s EXCEPT !.reason = r]
  BY DEF AttributeReasons
<1> QED  BY <1>1 DEF SelectionFields

LEMMA SelectionsAreChosen ==
  ASSUME NEW b, NEW u \in Selections(b)
  PROVE  DOMAIN u = SelectionFields /\ \E f \in Chosen(b) : u.name = f[1] /\ u.version = f[2]
<1> DEFINE named == {Selection(b, f) : f \in Chosen(b) \cap Listed(b)}
<1>1. \A s \in named : DOMAIN s = SelectionFields /\ \E f \in Chosen(b) : s.name = f[1] /\ s.version = f[2]
  BY DEF Selection, SelectionFields
<1>2. PICK v \in AttributeReasons(AttributionRoots(task[b], named), named, Needs) : u = Upgraded(task[b], v)
  BY DEF Selections
<1> HIDE DEF named
<1>3. PICK s \in named : DOMAIN v = SelectionFields /\ v.name = s.name /\ v.version = s.version
  BY <1>1, <1>2, ReasonsKeepVersions
<1>4. DOMAIN u = SelectionFields /\ u.name = v.name /\ u.version = v.version
  BY <1>2, <1>3 DEF Upgraded, SelectionFields
<1> QED  BY <1>1, <1>3, <1>4

LEMMA PlanIsGood ==
  ASSUME NEW b, DOMAIN task[b].versions \cap Held = {}, task[b].pinned \subseteq Held
  PROVE  HeldStays(Selections(b)) /\ OneVersion(Selections(b))
<1>1. \A f \in Chosen(b) : f[1] \in Held => f[2] = Installed[f[1]]
  BY DEF Chosen, Pinned
<1>2. \A f, g \in Chosen(b) : f[1] = g[1] => f[2] = g[2]
  BY DEF Chosen, Pinned
<1> QED  BY <1>1, <1>2, SelectionsAreChosen DEF HeldStays, OneVersion

LEMMA BuildPlanStep ==
  ASSUME AptInv, NEW b \in Builds, BuildPlan(b)
  PROVE  AptInv' /\ OnTheHost
<1>1. task[b].pc = "build" /\ TaskInv(task[b])
  BY DEF BuildPlan, InStep, AptInv
<1>2. PICK plan : plan = Selections(b)
  OBVIOUS
<1>3. HeldStays(plan) /\ OneVersion(plan)
  BY <1>1, <1>2, PlanIsGood DEF TaskInv
<1>4. CASE Inside(b)
  <2>1. PICK class \in {"ok", "incomplete"} : task' = [task EXCEPT ![b] = Exited(task[b], class)]
    BY <1>4 DEF BuildPlan
  <2>2. PICK files : files = Scan(ArchivesOf(b))
    OBVIOUS
  <2>3. PICK e : e = [run |-> task[b].run, ok |-> TRUE, plan |-> plan, unresolved |-> task[b].unresolved, files |-> files]
    OBVIOUS
  <2>4. PICK t : t = Exited(task[b], class)
    OBVIOUS
  <2>5. \A f \in files : f.sha # 0
    BY <2>2 DEF Scan
  <2>6. EnvelopeInv(e)
    BY <1>3, <2>3, <2>5 DEF EnvelopeInv, NoEnvelope
  <2>7. Good(b, t, envelope[b])
    BY <1>1, <1>4, <2>1, <2>4, EndIsGood
  <2>8. t.result = "none" /\ t.run = task[b].run /\ t.pc = "exited"
    BY <2>4, ExitedFields
  <2>9. Good(b, t, e)
    BY <2>3, <2>6, <2>7, <2>8 DEF Good, Fresh, VersionsSettled, Accepts
  <2>10. task' = [task EXCEPT ![b] = t] /\ envelope' = [envelope EXCEPT ![b] = e]
    BY <1>2, <1>4, <2>1, <2>2, <2>3, <2>4 DEF BuildPlan
  <2> QED  BY <2>9, <2>10, GoodStep
<1>5. CASE ~Inside(b)
  <2>1. PICK s : s = Over(task[b], "plan")
    OBVIOUS
  <2>2. PICK t : t = [s EXCEPT !.plan = plan]
    OBVIOUS
  <2>3. /\ DOMAIN s = DOMAIN NoTask /\ s.pc = "idle" /\ s.exit = "none" /\ s.result = "plan"
        /\ s.pinned = {} /\ s.versions = <<>>
    BY <2>1, OverFields
  <2>4. /\ DOMAIN t = DOMAIN NoTask /\ t.pc = "idle" /\ t.exit = "none" /\ t.result = "plan" /\ t.plan = plan
        /\ t.pinned = {} /\ t.versions = <<>>
    BY <2>2, <2>3, NoTaskFields
  <2>5. TaskInv(t)
    BY <1>3, <2>4 DEF TaskInv
  <2>6. PICK e : e = envelope[b]
    OBVIOUS
  <2>7. Good(b, t, e)
    BY <1>5, <2>4, <2>5, <2>6 DEF Good, Fresh, VersionsSettled, Accepts, AptInv
  <2>8. task' = [task EXCEPT ![b] = t] /\ envelope' = envelope
    BY <1>2, <1>5, <2>1, <2>2 DEF BuildPlan, Become
  <2> QED  BY <2>6, <2>7, <2>8, GoodStep
<1> QED  BY <1>4, <1>5

-----------------------------------------------------------------------------
(* The host, after the container exited. *)

LEMMA ReadEnvelopeStep ==
  ASSUME AptInv, NEW b \in Builds, ReadEnvelope(b)
  PROVE  AptInv' /\ OnTheHost
<1>1. /\ task[b].pc = "exited" /\ TaskInv(task[b]) /\ task[b].result = "none" /\ task[b].kind = "container"
      /\ EnvelopeInv(envelope[b]) /\ Fresh(task[b], envelope[b])
  BY DEF ReadEnvelope, InStep, AptInv, TaskInv
<1>2. PICK e : e = envelope[b]
  OBVIOUS
<1>3. CrossCheck(b, e) \in {"ok", "verification", "environment"}
  BY DEF CrossCheck
<1>4. CASE task[b].exit \notin {"ok", "incomplete"} /\ Refuse(b, task[b].exit)
  <2>1. PICK class : class = task[b].exit
    OBVIOUS
  <2>2. class \notin {"plan", "ok"}
    BY <1>1, <1>4, <2>1 DEF TaskInv
  <2> QED  BY <1>1, <1>4, <2>1, <2>2, GivesUp
<1>5. CASE Refuse(b, "verification")
  BY <1>1, <1>5, GivesUp
<1>6. CASE CrossCheck(b, e) # "ok" /\ Refuse(b, CrossCheck(b, e))
  <2>1. PICK class : class = CrossCheck(b, e)
    OBVIOUS
  <2>2. Refuse(b, class) /\ class \notin {"plan", "ok"}
    BY <1>3, <1>6, <2>1
  <2> QED  BY <1>1, <2>2, GivesUp
<1>7. CASE /\ e.ok /\ CrossCheck(b, e) = "ok"
           /\ Become(b, [task[b] EXCEPT !.pc = IF task[b].req.volume THEN "copy" ELSE "reverify", !.plan = e.plan,
                                        !.unresolved = e.unresolved, !.listed = e.files])
  <2>1. PICK t : t = [task[b] EXCEPT !.pc = IF task[b].req.volume THEN "copy" ELSE "reverify", !.plan = e.plan,
                                     !.unresolved = e.unresolved, !.listed = e.files]
    OBVIOUS
  <2>2. /\ DOMAIN t = DOMAIN NoTask /\ t.pc \in {"copy", "reverify"} /\ t.plan = e.plan /\ t.listed = e.files
        /\ t.req = task[b].req /\ t.result = "none" /\ t.exit = task[b].exit /\ t.versions = task[b].versions
        /\ t.pinned = task[b].pinned /\ t.run = task[b].run /\ t.kind = "container" /\ t.job = task[b].job
    BY <1>1, <2>1, NoTaskFields DEF TaskInv
  <2>3. \A s \in e.plan : ~SelectionProblem(e, task[b].req.externals, s)
    BY <1>7 DEF CrossCheck
  <2>4. CheckedPlan(t)
    BY <1>1, <1>2, <2>2, <2>3 DEF CheckedPlan, SelectionProblem, ByKey, FilesOf, EnvelopeInv
  <2>5. TaskInv(t)
    BY <1>1, <1>2, <2>2 DEF TaskInv, EnvelopeInv
  <2>6. Fresh(t, e)
    BY <1>1, <1>2, <1>7, <2>2, <2>4 DEF Fresh
  <2>7. Good(b, t, e)
    BY <1>1, <1>2, <2>2, <2>5, <2>6 DEF Good, VersionsSettled, Accepts
  <2>8. task' = [task EXCEPT ![b] = t] /\ envelope' = envelope
    BY <1>7, <2>1 DEF Become
  <2> QED  BY <1>2, <2>7, <2>8, GoodStep
<1> QED  BY <1>2, <1>4, <1>5, <1>6, <1>7 DEF ReadEnvelope

LEMMA CopyVolumeStep ==
  ASSUME AptInv, NEW b \in Builds, CopyVolume(b)
  PROVE  AptInv' /\ OnTheHost
<1>1. /\ task[b].pc = "copy" /\ TaskInv(task[b]) /\ task[b].result = "none" /\ DOMAIN task = Builds
      /\ EnvelopeInv(envelope[b]) /\ Fresh(task[b], envelope[b])
  BY DEF CopyVolume, InStep, AptInv, TaskInv
<1>2. CASE task' = [task EXCEPT ![b].pc = "reverify"] /\ envelope' = envelope
  <2>1. PICK t : t = [task[b] EXCEPT !.pc = "reverify"]
    OBVIOUS
  <2>2. PICK e : e = envelope[b]
    OBVIOUS
  <2>3. /\ DOMAIN t = DOMAIN NoTask /\ t.pc = "reverify" /\ t.plan = task[b].plan /\ t.listed = task[b].listed
        /\ t.req = task[b].req /\ t.result = "none" /\ t.exit = task[b].exit /\ t.versions = task[b].versions
        /\ t.pinned = task[b].pinned /\ t.run = task[b].run /\ t.kind = task[b].kind /\ t.job = task[b].job
    BY <1>1, <2>1, NoTaskFields DEF TaskInv
  <2>4. TaskInv(t)
    BY <1>1, <2>3 DEF TaskInv
  <2>5. Fresh(t, e)
    BY <1>1, <2>2, <2>3 DEF Fresh, CheckedPlan
  <2>6. Good(b, t, e)
    BY <1>1, <2>2, <2>3, <2>4, <2>5 DEF Good, VersionsSettled, Accepts
  <2>7. task' = [task EXCEPT ![b] = t]
    BY <1>1, <1>2, <2>1
  <2> QED  BY <1>2, <2>2, <2>6, <2>7, GoodStep
<1>3. CASE Refuse(b, "environment")
  BY <1>1, <1>3, GivesUp
<1> QED  BY <1>2, <1>3 DEF CopyVolume

LEMMA AcceptPlanStep ==
  ASSUME AptInv, NEW b \in Builds, AcceptPlan(b)
  PROVE  AptInv' /\ OnTheHost
<1>1. /\ task[b].pc = "reverify" /\ TaskInv(task[b])
      /\ EnvelopeInv(envelope[b]) /\ Fresh(task[b], envelope[b])
  BY DEF AcceptPlan, InStep, AptInv
<1>2. CASE Refuse(b, "verification") \/ Refuse(b, "incomplete")
  BY <1>1, <1>2, GivesUp
<1>3. CASE /\ ReverifyFiles(b) /\ ReverifyExternalFiles(b)
           /\ Become(b, [Over(task[b], "plan") EXCEPT !.plan = RewriteStagedPaths(task[b].plan)])
  <2>1. PICK s : s = Over(task[b], "plan")
    OBVIOUS
  <2>2. PICK plan : plan = RewriteStagedPaths(task[b].plan)
    OBVIOUS
  <2>3. PICK t : t = [s EXCEPT !.plan = plan]
    OBVIOUS
  <2>4. PICK e : e = envelope[b]
    OBVIOUS
  <2>5. /\ DOMAIN s = DOMAIN NoTask /\ s.pc = "idle" /\ s.exit = "none" /\ s.result = "plan"
        /\ s.pinned = {} /\ s.versions = <<>>
    BY <2>1, OverFields
  <2>6. /\ DOMAIN t = DOMAIN NoTask /\ t.pc = "idle" /\ t.exit = "none" /\ t.result = "plan" /\ t.plan = plan
        /\ t.pinned = {} /\ t.versions = <<>>
    BY <2>3, <2>5, NoTaskFields
  <2>7. ASSUME NEW u \in plan
        PROVE  \E r \in task[b].plan :
                 /\ DOMAIN u = SelectionFields /\ u.name = r.name /\ u.version = r.version /\ u.file = r.file /\ u.sha = r.sha
                 /\ u.from = IF External(r) THEN "vendor" ELSE "archives"
    <3>1. PICK r \in task[b].plan : u = [r EXCEPT !.from = IF External(r) THEN "vendor" ELSE "archives"]
      BY <2>2 DEF RewriteStagedPaths
    <3>2. DOMAIN r = SelectionFields
      BY <1>1 DEF TaskInv, HeldStays
    <3> QED  BY <3>1, <3>2 DEF SelectionFields
  <2>8. HeldStays(plan)
    BY <1>1, <2>7 DEF TaskInv, HeldStays
  <2>9. TaskInv(t)
    BY <2>6, <2>8 DEF TaskInv
  <2>10. ASSUME Inside(b) PROVE envelope[b].run = task[b].run /\ \A u \in plan : Holding(b, u)
    <3>1. envelope[b].run = task[b].run /\ CheckedPlan(task[b])
      BY <1>1, <2>10 DEF Fresh, Inside
    <3>2. ASSUME NEW u \in plan PROVE Holding(b, u)
      <4>1. PICK r \in task[b].plan :
                 /\ u.name = r.name /\ u.file = r.file /\ u.sha = r.sha
                 /\ u.from = IF External(r) THEN "vendor" ELSE "archives"
        BY <2>7
      <4>2. CASE External(r)
        BY <1>3, <3>1, <4>1, <4>2 DEF CheckedPlan, ReverifyExternalFiles, VendorBytes, Holding
      <4>3. CASE ~External(r)
        <5>1. PICK f \in task[b].listed : f.file = r.file /\ (r.sha = 0 \/ f.sha = r.sha) /\ f.sha # 0
          BY <3>1, <4>3 DEF CheckedPlan
        <5>2. store.host[b][r.file] = f.sha
          BY <1>3, <5>1 DEF ReverifyFiles
        <5> QED  BY <4>1, <4>3, <5>1, <5>2 DEF Holding
      <4> QED  BY <4>2, <4>3
    <3> QED  BY <3>1, <3>2
  <2>11. Good(b, t, e)
    BY <1>1, <2>4, <2>6, <2>9, <2>10 DEF Good, Fresh, VersionsSettled, Accepts
  <2>12. task' = [task EXCEPT ![b] = t] /\ envelope' = envelope
    BY <1>3, <2>1, <2>2, <2>3 DEF Become
  <2> QED  BY <2>4, <2>11, <2>12, GoodStep
<1> QED  BY <1>2, <1>3 DEF AcceptPlan

-----------------------------------------------------------------------------
(* The closed-world check. *)

LEMMA StartClosedWorldStep ==
  ASSUME AptInv, NEW b \in Builds, StartClosedWorld(b)
  PROVE  AptInv' /\ OnTheHost
<1>1. PICK want : want = Locked(task[b].plan)
  OBVIOUS
<1>2. PICK kind : kind = task[b].kind
  OBVIOUS
<1>u. PICK up : up = IF kind = "local" THEN {s.name : s \in {r \in task[b].plan : r.reason = <<"upgrade">>}} ELSE {}
  OBVIOUS
<1>3. PICK s : s = [NoTask EXCEPT !.run = task[b].run, !.job = "closed", !.kind = kind, !.want = want, !.upgraded = up,
                      !.req = [task[b].req EXCEPT !.packages = {}, !.externals = DOMAIN want, !.volume = FALSE]]
  OBVIOUS
<1>4. PICK t : t = IF task[b].plan = {} THEN [s EXCEPT !.result = "skipped"]
                   ELSE [s EXCEPT !.pc = IF kind = "local" THEN "simulate" ELSE "update"]
  OBVIOUS
<1>5. PICK e : e = IF kind = "container" THEN NoEnvelope ELSE envelope[b]
  OBVIOUS
<1>6. /\ DOMAIN s = DOMAIN NoTask /\ s.kind = kind /\ s.exit = "none" /\ s.result = "none" /\ s.plan = {} /\ s.pinned = {}
      /\ s.versions = <<>> /\ s.pc = "idle" /\ s.job = "closed"
  BY <1>3, NoTaskFields
<1>7. /\ DOMAIN t = DOMAIN NoTask /\ t.kind = kind /\ t.exit = "none" /\ t.plan = {} /\ t.pinned = {}
      /\ t.versions = <<>> /\ t.job = "closed"
      /\ \/ t.pc = "idle" /\ t.result = "skipped"
         \/ t.pc = "update" /\ t.result = "none"
         \/ t.pc = "simulate" /\ t.result = "none" /\ t.kind = "local"
  BY <1>4, <1>6, NoTaskFields
<1>8. TaskInv(t)
  BY <1>7 DEF TaskInv, HeldStays
<1>9. EnvelopeInv(e)
  BY <1>5 DEF EnvelopeInv, AptInv, NoEnvelope, HeldStays, OneVersion
<1>10. Fresh(t, e)
  BY <1>5, <1>7 DEF Fresh, NoEnvelope
<1>11. Good(b, t, e)
  BY <1>7, <1>8, <1>9, <1>10 DEF Good, VersionsSettled, Accepts
<1>12. task' = [task EXCEPT ![b] = t] /\ (envelope' = [envelope EXCEPT ![b] = e] \/ (envelope' = envelope /\ e = envelope[b]))
  BY <1>1, <1>2, <1>u, <1>3, <1>4, <1>5 DEF ForgetPlan, StartClosedWorld
<1> QED  BY <1>11, <1>12, GoodStep

(* In a closed world apt proposes the locked versions only. *)
LEMMA OnlyTheLocked ==
  ASSUME NEW b \in Builds, task[b].job = "closed", NEW names, NEW acts \in Proposals(b, names), NEW n \in DOMAIN acts
  PROVE  n \in DOMAIN task[b].want /\ acts[n] = task[b].want[n]
<1>1. PICK want : want = task[b].want
  OBVIOUS
<1>2. Listed(b) = {<<m, want[m]>> : m \in DOMAIN want}
  BY <1>1 DEF Listed
<1>3. PICK D, offers : /\ offers = [m \in Names |-> {v \in Versions : <<m, v>> \in Listed(b) /\ v # Installed[m]}]
                       /\ acts \in [D -> Versions] /\ \A m \in D : <<m, acts[m]>> \in Listed(b)
  BY DEF Proposals
<1>4. <<n, acts[n]>> \in Listed(b)
  BY <1>3
<1>5. PICK m \in DOMAIN want : <<n, acts[n]>> = <<m, want[m]>>
  BY <1>2, <1>4
<1> QED  BY <1>1, <1>5

LEMMA ClosedWorldLocalStep ==
  ASSUME AptInv, NEW b \in Builds, ClosedWorldLocal(b)
  PROVE  AptInv' /\ OnTheHost
<1>1. /\ task[b].pc = "simulate" /\ task[b].kind = "local" /\ task[b].job = "closed" /\ EnvelopeInv(envelope[b])
  BY DEF ClosedWorldLocal, InStep, AptInv, TaskInv
<1>2. CASE Refuse(b, "failed")
  BY <1>1, <1>2, GivesUp
<1>3. ASSUME NEW acts \in Proposals(b, DOMAIN task[b].want), NEW class \in {"failed", "ok"},
             \A n \in DOMAIN task[b].want : n \in DOMAIN acts \/ Installed[n] = task[b].want[n],
             Become(b, [Over(task[b], class) EXCEPT !.versions = acts])
      PROVE  AptInv' /\ OnTheHost
  <2>1. \A n \in DOMAIN acts : n \in DOMAIN task[b].want /\ acts[n] = task[b].want[n]
    BY <1>1, OnlyTheLocked
  <2>2. PICK s : s = Over(task[b], class)
    OBVIOUS
  <2>3. PICK t : t = [s EXCEPT !.versions = acts]
    OBVIOUS
  <2>4. PICK e : e = envelope[b]
    OBVIOUS
  <2>5. /\ DOMAIN s = DOMAIN NoTask /\ s.pc = "idle" /\ s.exit = "none" /\ s.result = class /\ s.plan = {}
        /\ s.pinned = {} /\ s.job = "closed" /\ s.kind = "local" /\ s.want = task[b].want
    BY <1>1, <2>2, OverFields
  <2>6. /\ DOMAIN t = DOMAIN NoTask /\ t.pc = "idle" /\ t.exit = "none" /\ t.result = class /\ t.plan = {}
        /\ t.pinned = {} /\ t.job = "closed" /\ t.kind = "local" /\ t.want = task[b].want /\ t.versions = acts
    BY <2>3, <2>5, NoTaskFields
  <2>7. TaskInv(t)
    BY <2>6 DEF TaskInv, HeldStays
  <2>8. VersionsSettled(t, e)
    BY <1>3, <2>1, <2>6 DEF VersionsSettled, After
  <2>9. Good(b, t, e)
    BY <1>1, <2>4, <2>6, <2>7, <2>8 DEF Good, Fresh, Accepts
  <2>10. task' = [task EXCEPT ![b] = t] /\ envelope' = envelope
    BY <1>3, <2>2, <2>3 DEF Become
  <2> QED  BY <2>4, <2>9, <2>10, GoodStep
<1>4. ASSUME NEW acts \in Proposals(b, DOMAIN task[b].want),
             \A n \in DOMAIN task[b].want : n \in DOMAIN acts \/ Installed[n] = task[b].want[n],
             NEW diverged \in BOOLEAN,
             Become(b, [Over(task[b], IF diverged THEN "failed" ELSE "ok") EXCEPT !.versions = acts])
      PROVE  AptInv' /\ OnTheHost
  <2>1. CASE diverged
    BY <1>3, <1>4, <2>1
  <2>2. CASE ~diverged
    BY <1>3, <1>4, <2>2
  <2> QED  BY <2>1, <2>2
<1>5. CASE \E acts \in Proposals(b, DOMAIN task[b].want) :
             /\ \A n \in DOMAIN task[b].want : n \in DOMAIN acts \/ Installed[n] = task[b].want[n]
             /\ \E diverged \in BOOLEAN : Become(b, [Over(task[b], IF diverged THEN "failed" ELSE "ok") EXCEPT !.versions = acts])
  BY <1>4, <1>5
<1> QED  BY <1>2, <1>5 DEF ClosedWorldLocal

(* A plan with one version of a package locks that version. *)
LEMMA LockedIs ==
  ASSUME NEW plan, OneVersion(plan), NEW s \in plan
  PROVE  s.name \in DOMAIN Locked(plan) /\ Locked(plan)[s.name] = s.version
<1>1. PICK n : n = s.name
  OBVIOUS
<1>2. PICK c : c = CHOOSE u \in plan : u.name = n
  OBVIOUS
<1>3. c \in plan /\ c.name = n
  BY <1>1, <1>2
<1>4. n \in {u.name : u \in plan}
  BY <1>1
<1>5. Locked(plan)[n] = c.version
  BY <1>2, <1>4 DEF Locked
<1> QED  BY <1>1, <1>3, <1>4, <1>5 DEF OneVersion, Locked

LEMMA ClosedWorldVerdictStep ==
  ASSUME AptInv, NEW b \in Builds, ClosedWorldVerdict(b)
  PROVE  AptInv' /\ OnTheHost
<1>1. /\ task[b].pc = "exited" /\ task[b].kind = "container" /\ task[b].job = "closed" /\ EnvelopeInv(envelope[b])
  BY DEF ClosedWorldVerdict, InStep, AptInv, TaskInv
<1>2. CASE Refuse(b, "failed")
  BY <1>1, <1>2, GivesUp
<1>3. CASE VersionMismatches(task[b].want, envelope[b].plan) = {} /\ Refuse(b, "ok")
  <2>1. PICK t : t = Over(task[b], "ok")
    OBVIOUS
  <2>2. PICK e : e = envelope[b]
    OBVIOUS
  <2>3. /\ DOMAIN t = DOMAIN NoTask /\ t.pc = "idle" /\ t.exit = "none" /\ t.result = "ok" /\ t.plan = {}
        /\ t.pinned = {} /\ t.job = "closed" /\ t.kind = "container" /\ t.want = task[b].want /\ t.versions = <<>>
    BY <1>1, <2>1, OverFields
  <2>4. TaskInv(t)
    BY <2>3 DEF TaskInv, HeldStays
  <2>5. ASSUME NEW n \in DOMAIN t.want PROVE After(t, e, n) = {t.want[n]}
    <3> DEFINE own == {s.version : s \in {r \in e.plan : r.name = n}}
    <3>1. OneVersion(e.plan) /\ VersionMismatches(t.want, e.plan) = {}
      BY <1>1, <1>3, <2>2, <2>3 DEF EnvelopeInv
    <3>2. CASE own = {}
      <4>1. n \notin {s.name : s \in e.plan}
        BY <3>2
      <4>2. Installed[n] = t.want[n]
        BY <2>5, <3>1, <4>1 DEF VersionMismatches
      <4> QED  BY <2>3, <3>2, <4>2 DEF After
    <3>3. CASE own # {}
      <4>1. \A s \in e.plan : s.name = n => s.version = t.want[n]
        BY <2>5, <3>1, LockedIs DEF VersionMismatches, UpgradeMismatches
      <4>2. own = {t.want[n]}
        BY <3>3, <4>1
      <4> QED  BY <2>3, <3>3, <4>2 DEF After
    <3> QED  BY <3>2, <3>3
  <2>6. Good(b, t, e)
    BY <1>1, <2>2, <2>3, <2>4, <2>5 DEF Good, Fresh, Accepts, VersionsSettled
  <2>7. task' = [task EXCEPT ![b] = t] /\ envelope' = envelope
    BY <1>3, <2>1 DEF Refuse, Become
  <2> QED  BY <2>2, <2>6, <2>7, GoodStep
<1> QED  BY <1>2, <1>3 DEF ClosedWorldVerdict

-----------------------------------------------------------------------------

LEMMA AptStarts == AptInit => AptInv
<1> SUFFICES ASSUME AptInit PROVE AptInv
  OBVIOUS
<1>1. DOMAIN task = Builds /\ DOMAIN envelope = Builds
  BY DEF AptInit
<1>2. /\ TaskInv(NoTask) /\ EnvelopeInv(NoEnvelope) /\ Fresh(NoTask, NoEnvelope)
      /\ VersionsSettled(NoTask, NoEnvelope)
  <2>1. TaskInv(NoTask)
    BY NoTaskFields DEF TaskInv, HeldStays
  <2>2. EnvelopeInv(NoEnvelope)
    BY DEF EnvelopeInv, NoEnvelope, HeldStays, OneVersion
  <2> QED  BY <2>1, <2>2, NoTaskFields DEF Fresh, VersionsSettled
<1>3. \A b \in Builds : task[b] = NoTask /\ envelope[b] = NoEnvelope
  BY DEF AptInit
<1> QED  BY <1>1, <1>2, <1>3 DEF AptInv

LEMMA AptSteps ==
  ASSUME AptInv, [AptNext]_avars
  PROVE  AptInv' /\ (OnTheHost \/ UNCHANGED avars)
<1>1. CASE UNCHANGED avars
  <2>1. task' = task /\ envelope' = envelope
    BY <1>1 DEF avars
  <2>2. /\ DOMAIN task' = Builds /\ DOMAIN envelope' = Builds
        /\ \A c \in Builds : /\ TaskInv(task'[c]) /\ EnvelopeInv(envelope'[c]) /\ Fresh(task'[c], envelope'[c])
                             /\ VersionsSettled(task'[c], envelope'[c])
    BY <2>1 DEF AptInv
  <2>3. AptInv'
    BY <2>2 DEF AptInv, TaskInv, EnvelopeInv, Fresh, VersionsSettled, After, HeldStays, OneVersion, CheckedPlan, External
  <2> QED  BY <1>1, <2>3
<1>2. CASE DiskChanges
  BY <1>2, DiskChangesStep
<1>3. ASSUME NEW b \in Builds, NEW req \in Resolves, StartResolve(b, req) PROVE AptInv' /\ OnTheHost
  BY <1>3, StartResolveStep
<1>4. ASSUME NEW b \in Builds,
             \/ Update(b) \/ FullUpgrade(b) \/ SimulatePackages(b) \/ SimulateExternals(b) \/ SimulateExternal(b)
             \/ Download(b) \/ HeldList(b) \/ HeldDownload(b) \/ HeldMove(b) \/ BuildPlan(b)
      PROVE  AptInv' /\ OnTheHost
  BY <1>4, UpdateStep, FullUpgradeStep, SimulatePackagesStep, SimulateExternalsStep, SimulateExternalStep,
     DownloadStep, HeldListStep, HeldDownloadStep, HeldMoveStep, BuildPlanStep
<1>5. ASSUME NEW b \in Builds,
             \/ ReadEnvelope(b) \/ CopyVolume(b) \/ AcceptPlan(b)
             \/ StartClosedWorld(b) \/ ClosedWorldLocal(b) \/ ClosedWorldVerdict(b)
             \/ ContainerKilled(b) \/ EnvelopeAltered(b)
      PROVE  AptInv' /\ OnTheHost
  BY <1>5, ReadEnvelopeStep, CopyVolumeStep, AcceptPlanStep, StartClosedWorldStep, ClosedWorldLocalStep,
     ClosedWorldVerdictStep, ContainerKilledStep, EnvelopeAlteredStep
<1> QED  BY <1>1, <1>2, <1>3, <1>4, <1>5 DEF AptNext

(* A plan accepted from a container is this run's own and is on the host, for  *)
(* every set of builds, archive, snapshot and request                          *)
(* (containerBackend.Resolve, containerCrossCheckEnvelope and the two          *)
(* containerReverify functions): AptInv carries what was checked at the        *)
(* envelope to the moment the files are hashed again.                          *)
THEOREM AcceptedPlanIsHeld == AptSpec => AcceptedPlanIsOnTheHost
<1>1. AptInv /\ [AptNext]_avars => AptInv'
  BY AptSteps
<1>2. AptInv /\ [AptNext]_avars =>
        [\A b \in Builds :
           (Inside(b) /\ ~Planned(b) /\ Planned(b)') =>
             /\ envelope[b].run = task[b].run
             /\ \A s \in task'[b].plan :
                  IF s.from = "vendor" THEN s.name \in task[b].req.externals /\ VendorBytes(s.file) \in {1} /\ s.sha \in {0, 1}
                  ELSE store.host[b][s.file] # 0 /\ s.sha \in {0, store.host[b][s.file]}]_avars
  BY AptSteps DEF OnTheHost, Holding
<1> QED  BY AptStarts, <1>1, <1>2, PTL DEF AptSpec, AcceptedPlanIsOnTheHost

(* A held package keeps its version in every plan and a closed-world check     *)
(* that passes leaves every locked package at its locked version, whatever apt *)
(* proposes (record, ClosedWorld of both backends,                             *)
(* containerVersionMismatches): AptInv adds that every plan and envelope has   *)
(* one version of a package.                                                   *)
THEOREM VersionsStayLocked == AptSpec => []VersionsAreLocked
<1>1. AptInv /\ [AptNext]_avars => AptInv'
  BY AptSteps
<1>2. AptInv => VersionsAreLocked
  BY DEF AptInv, TaskInv, HeldStays, VersionsSettled, VersionsAreLocked, Planned
<1> QED  BY AptStarts, <1>1, <1>2, PTL DEF AptSpec
=============================================================================
