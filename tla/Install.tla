------------------------------- MODULE Install -------------------------------
(***************************************************************************)
(* debark install (core/install, core/verify, internal/cli/cmd_install.go) *)
(* on a machine and a bundle directory: verify the bundle, plan, then let  *)
(* apt or dpkg change the machine.                                         *)
(*                                                                         *)
(* The bundle lies on a medium whose files may change at any step; apt,    *)
(* dpkg and gpg are external, and a process may fail half-way.  A file's   *)
(* bytes are a number, which stands for its digest and size: 0 is no file, *)
(* Link something that is not a regular file.                              *)
(***************************************************************************)
EXTENDS Naturals, Sequences, FiniteSets, SequencesExt

CONSTANTS
  Paths,         \* the files a bundle may hold, in the order they are walked
  Debs,          \* those of them under repo/pool
  Link,          \* the bytes of a link or other special file
  Media,         \* the bundles a machine may be given
  LockDocs,      \* bytes of lock.json -> what they say
  Indexes,       \* bytes of Packages -> the bytes it names for a deb, 0 for none
  RunOptions,    \* Options, and whether to apply
  Arch, Foreign, \* of the machine
  MaxBlocks,     \* maxSignatureBlocks
  ChunkSize,     \* chunkSize
  MaxInstalls,   \* bound: calls of install
  MaxChanges     \* bound: changes of the medium

PathSet == {Paths[i] : i \in DOMAIN Paths}
Missing == 0
LockFile == "lock.json"
Index == "Packages"
Byte == {Missing, 1, 2, Link}

(* A repository, a lock and a pool are files of the bundle; a lock names pool    *)
(* files; and the index that a manifest lists names, for every file it names,    *)
(* the bytes the manifest lists: the builder derives both from the same pool.    *)
ASSUME PathsAssumption == Paths \in Seq(PathSet) /\ Debs \cup {Index, LockFile} \subseteq PathSet
ASSUME BundlesAssumption ==
  \A b \in Media : /\ b = [manifest |-> b.manifest, sig |-> b.sig, disk |-> b.disk, shared |-> b.shared]
                     /\ b.disk \in [PathSet -> Byte]
                     /\ \A d \in Debs : Indexes[b.manifest.files[Index]][d] \in {0, b.manifest.files[d]}
ASSUME LockDocsAssumption ==
  \A x \in Byte : DOMAIN LockDocs[x].packages \cup LockDocs[x].install \cup LockDocs[x].upgrade
                     \cup LockDocs[x].assumed \subseteq Debs

VARIABLES
  bundle,   \* manifest, sig, disk, shared
  machine,  \* packages: per deb its state and bytes; source: --keep-source's file
  before,   \* history: the machine when the run started
  run,      \* the run under way
  late,     \* history: files that changed after this run had checked them
  count     \* installs, changes

ivars == <<bundle, machine, before, run, late, count>>

NoDoc == [ok |-> FALSE, arch |-> "", foreign |-> {}, packages |-> <<>>, install |-> {}, upgrade |-> {}, assumed |-> {}]
NoRun == [pc |-> "idle", opts |-> [apply |-> FALSE], at |-> 0, manifest |-> <<>>, signed |-> FALSE, problems |-> {},
          lk |-> NoDoc, names |-> {}, lists |-> 0, files |-> {}, missing |-> {}, failed |-> FALSE,
          applied |-> FALSE, ok |-> FALSE, warned |-> {}, result |-> "none"]

InstallInit ==
  /\ bundle \in Media
  /\ machine = [packages |-> [d \in Debs |-> [state |-> "absent", from |-> 0]], source |-> FALSE]
  /\ before = machine
  /\ run = NoRun
  /\ late = {}
  /\ count = [installs |-> 0, changes |-> 0]

At(pc) == run.pc = pc
Go(r) == run' = r /\ UNCHANGED <<bundle, machine, before, late, count>>
Finish(class) == Go([run EXCEPT !.pc = "idle", !.result = class])
Options == run.opts

-----------------------------------------------------------------------------
(* The medium, between any two steps.                                      *)

Checked(p) == run.pc # "idle" /\ \E i \in 1..run.at : Paths[i] = p
MediumChanges ==
  /\ count.changes < MaxChanges /\ run.pc # "idle"
  /\ \E i \in DOMAIN Paths, c \in Byte :
       /\ bundle.disk[Paths[i]] # c
       /\ bundle' = [bundle EXCEPT !.disk[Paths[i]] = c]
       /\ late' = IF Checked(Paths[i]) THEN late \cup {Paths[i]} ELSE late
  /\ count' = [count EXCEPT !.changes = @ + 1]
  /\ UNCHANGED <<machine, before, run>>

Bytes(p) == bundle.disk[p]

-----------------------------------------------------------------------------
(* Verify first.                                                           *)

(* newInstallCmd and execute's first lines; a bundle that is no directory, or  *)
(* a caller that would skip digests, is refused at once.                       *)
Execute(o) ==
  /\ At("idle") /\ count.installs < MaxInstalls
  /\ count' = [count EXCEPT !.installs = @ + 1]
  /\ before' = machine /\ late' = {}
  /\ run' = IF o.skip THEN [NoRun EXCEPT !.opts = o, !.result = "usage"]
            ELSE [NoRun EXCEPT !.opts = o, !.pc = "verify"]
  /\ UNCHANGED <<bundle, machine>>

LooksLikeBundle == bundle.manifest.state # "missing" \/ bundle.sig.state # "none" \/ \E i \in DOMAIN Paths : Bytes(Paths[i]) # Missing

(* checkSignatures: an invalid signature of a trusted key, or a verifier that   *)
(* cannot tell, ends the loop; otherwise one valid one is enough.               *)
Ends(blocks) == {i \in DOMAIN blocks : blocks[i] \in {"invalid", "error"}}
CheckSignatures(sig, o) ==
  LET blocks == sig.blocks
  IN IF blocks = <<>> THEN IF o.allowUnsigned THEN "unsigned" ELSE "stop"
     ELSE IF Len(blocks) > MaxBlocks \/ o.sameMedia THEN "stop"
     ELSE IF Ends(blocks) # {} THEN IF blocks[CHOOSE i \in Ends(blocks) : \A j \in Ends(blocks) : i <= j] = "error" THEN "error" ELSE "stop"
     ELSE IF Contains(blocks, "valid") THEN "signed"
     ELSE IF o.allowUnsigned THEN "unsigned" ELSE "stop"

(* runVerify up to the signatures: the manifest is read once, and everything  *)
(* after this trusts the copy in memory.                                      *)
VerifyManifest ==
  /\ At("verify")
  /\ LET sig == CheckSignatures(bundle.sig, Options)
     IN IF ~LooksLikeBundle THEN Finish("usage")
        ELSE IF \/ bundle.manifest.state # "ok" \/ bundle.sig.state = "malformed"
                \/ (bundle.sig.state = "ok" /\ ~bundle.sig.over) \/ sig = "stop" THEN Finish("verification")
        ELSE IF sig = "error" THEN Finish("environment")
        ELSE Go([run EXCEPT !.pc = "files", !.manifest = bundle.manifest.files, !.signed = (sig = "signed"),
                            !.problems = IF bundle.manifest.dup THEN {"manifest"} ELSE {}])

\* Mutant of FileProblem: the bundle is not searched for files nobody listed.
FileProblemListed(p) == IF run.manifest[p] # 0 /\ Bytes(p) # run.manifest[p] THEN {p} ELSE {}

(* checkFiles: a listed file that is not there, one that is not listed, one   *)
(* that is not regular or holds other bytes.                                  *)
FileProblem(p) == IF Bytes(p) = Link \/ Bytes(p) # run.manifest[p] THEN {p} ELSE {}
CheckFile ==
  /\ At("files") /\ run.at < Len(Paths)
  /\ Go([run EXCEPT !.at = @ + 1, !.problems = @ \cup FileProblem(Paths[run.at + 1])])

(* checkRepository, checkLockAndSnapshot and checkLockPackages. *)
LockProblem(m, doc) ==
  \/ ~doc.ok
  \/ \E d \in DOMAIN doc.packages : m[d] = 0 \/ m[d] # doc.packages[d]
CheckLock ==
  /\ At("files") /\ run.at = Len(Paths)
  /\ IF \/ run.problems # {} \/ bundle.manifest.repository # run.manifest[Index]
        \/ Bytes(LockFile) # bundle.manifest.lock \/ LockProblem(run.manifest, LockDocs[Bytes(LockFile)])
     THEN Finish("verification")
     ELSE Go([run EXCEPT !.pc = "lock"])

-----------------------------------------------------------------------------
(* The plan.                                                               *)

(* loadLock: lock.json is read again. *)
LoadLock ==
  /\ At("lock")
  /\ IF ~LockDocs[Bytes(LockFile)].ok THEN Finish("usage")
     ELSE Go([run EXCEPT !.pc = "machine", !.lk = LockDocs[Bytes(LockFile)]])

MissingForeignArchs(required) == required \ (Foreign \cup {Arch})

(* compareAssumedInstalled: what the base assumes and the machine lacks. *)
BaseDivergence(assumed) == {d \in assumed : machine.packages[d].state # "installed"}
KeepSourceTrustProblem == Options.keep /\ ~Options.dpkg /\ bundle.shared

(* dpkg and apt-get can be run, and the machine is of the bundle's kind. *)
CheckMachine ==
  /\ At("machine")
  /\ \/ Finish("environment")
     \/ IF (run.lk.arch # "" /\ run.lk.arch # Arch) \/ MissingForeignArchs(run.lk.foreign) # {} THEN Finish("mismatch")
        ELSE IF KeepSourceTrustProblem THEN Finish("usage")
        ELSE Go([run EXCEPT !.pc = "select", !.missing = BaseDivergence(run.lk.assumed)])

(* selectInstallSet and selectUpgradeSet; the dpkg path takes every package.   *)
(* An --only of nothing but blanks is given, and names no package.             *)
NoName == "blank"
SelectInstallSet(lk, o) ==
  LET all  == IF o.all \/ o.dpkg THEN DOMAIN lk.packages ELSE lk.install
      kept == IF o.only = {} \/ o.dpkg THEN all ELSE all \cap o.only
  IN kept \cup (IF o.upgrade /\ ~o.dpkg THEN lk.upgrade ELSE {})
SelectionFails(lk, o) ==
  ~o.dpkg /\ ((~o.all /\ ~(lk.install \subseteq DOMAIN lk.packages))
              \/ ~(o.only \ {NoName} \subseteq (IF o.all THEN DOMAIN lk.packages ELSE lk.install)))

(* missingPoolFiles and diskShortfall, over the packages selected. *)
MissingPoolFiles(names) == {d \in names : Bytes(d) \in {Missing, Link}}
Select ==
  /\ At("select")
  /\ LET names == SelectInstallSet(run.lk, Options)
     IN IF SelectionFails(run.lk, Options) THEN Finish("usage")
        ELSE \E disk \in {{}, {"disk"}} :
               Go([run EXCEPT !.names = names, !.problems = MissingPoolFiles(names) \cup disk,
                              !.pc = IF Options.dpkg THEN "plan" ELSE "update"])

(* newPrivateRoot and apt-get update: the repository's index is read here. *)
AptUpdate ==
  /\ At("update")
  /\ \/ Finish("environment")
     \/ /\ Bytes(Index) \notin {Missing, Link}
        /\ Go([run EXCEPT !.lists = Bytes(Index), !.pc = IF run.names = {} THEN "plan" ELSE "simulate"])

(* apt-get -s install and parseAptSim *)
AptSimulate ==
  /\ At("simulate")
  /\ \E found \in {{}, {"apt"}} : Go([run EXCEPT !.problems = @ \cup found, !.pc = "plan"])

(* The refusals before anything is changed, requireConfirmation the last. *)
RefusalClass(problems) == IF problems \cap Debs # {} THEN "verification" ELSE IF "disk" \in problems THEN "environment" ELSE "resolution"
PlanInstall ==
  /\ At("plan")
  /\ IF ~Options.apply THEN Go([run EXCEPT !.pc = "idle", !.ok = (run.problems = {}), !.result = "ok"])
     ELSE IF run.problems # {} THEN Finish(RefusalClass(run.problems))
     ELSE IF ~Options.yes /\ ~Options.tty THEN Finish("usage")
     ELSE Go([run EXCEPT !.pc = IF Options.dpkg THEN "pool" ELSE "apt"])

-----------------------------------------------------------------------------
(* The change.                                                             *)

SetTo(packages, ds, state) == [d \in Debs |-> IF d \in ds THEN [state |-> state, from |-> Bytes(d)] ELSE packages[d]]
Configured(packages, ds) == [d \in Debs |-> IF d \in ds /\ packages[d].state = "unpacked" THEN [packages[d] EXCEPT !.state = "installed"] ELSE packages[d]]
Change(packages, r) ==
  /\ machine' = [machine EXCEPT !.packages = packages]
  /\ run' = r
  /\ UNCHANGED <<bundle, before, late, count>>

Failed == [run EXCEPT !.pc = "record", !.failed = TRUE]

(* applyApt: nothing to install runs no apt.  Apt takes a file only if it is the *)
(* one the index it read names; when it fails, some packages may be in place and *)
(* others half-way; when it does not, it has finished whatever was half-way.   *)
Named(d) == Indexes[run.lists][d]
Acceptable(d) == Named(d) # 0 /\ Bytes(d) = Named(d)
ApplyApt ==
  /\ At("apt")
  /\ \/ run.names = {} /\ Go([run EXCEPT !.pc = "source"])
     \/ /\ run.names # {}
        /\ \A d \in run.names : Acceptable(d) \/ machine.packages[d] = [state |-> "installed", from |-> Named(d)]
        /\ Change(Configured(SetTo(machine.packages, {d \in run.names : Acceptable(d)}, "installed"), Debs), [run EXCEPT !.pc = "source"])
     \/ /\ run.names # {}
        /\ \E un \in SUBSET {d \in run.names : Acceptable(d)} : \E done \in SUBSET un :
             Change(Configured(SetTo(machine.packages, un, "unpacked"), done), Failed)

(* applyDpkg: every .deb under the pool, in chunks, then --configure -a. *)
PoolDebFiles == {d \in Debs : Bytes(d) # Missing}
ListPool ==
  /\ At("pool")
  /\ IF PoolDebFiles = {} THEN Go(Failed) ELSE Go([run EXCEPT !.pc = "unpack", !.files = PoolDebFiles])

(* The first files of those that are left, in the order of the walk. *)
Walked(p) == CHOOSE i \in DOMAIN Paths : Paths[i] = p
Chunk == {d \in run.files : Cardinality({e \in run.files : Walked(e) < Walked(d)}) < ChunkSize}
Present(ds) == {d \in ds : Bytes(d) \notin {Missing, Link}}
\* Mutant of Unpack: a chunk that fails does not stop the ones after it.
UnpackGoesOn ==
  /\ At("unpack") /\ run.files # {}
  /\ \E un \in SUBSET Present(Chunk) :
       Change(SetTo(machine.packages, un, "unpacked"), [run EXCEPT !.files = @ \ Chunk])
Unpack ==
  /\ At("unpack") /\ run.files # {}
  /\ \/ /\ Present(Chunk) = Chunk
        /\ Change(SetTo(machine.packages, Chunk, "unpacked"), [run EXCEPT !.files = @ \ Chunk])
     \/ \E un \in SUBSET Present(Chunk) : Change(SetTo(machine.packages, un, "unpacked"), Failed)

Configure ==
  /\ At("unpack") /\ run.files = {}
  /\ \/ Change(Configured(machine.packages, Debs), [run EXCEPT !.pc = "record"])
     \/ \E done \in SUBSET Debs : Change(Configured(machine.packages, done), Failed)

(* PersistSource, whose failure is a warning. *)
PersistSource ==
  /\ At("source")
  /\ \/ /\ Options.keep
        /\ machine' = [machine EXCEPT !.source = TRUE]
        /\ run' = [run EXCEPT !.pc = "record"]
        /\ UNCHANGED <<bundle, before, late, count>>
     \/ Go([run EXCEPT !.pc = "record", !.warned = IF Options.keep THEN @ \cup {"source"} ELSE @])

(* recordEvidence and the end of execute; the private root goes with the run. *)
RecordEvidence ==
  /\ At("record")
  /\ \E warning \in {{}, {"evidence"}} :
       Go([run EXCEPT !.pc = "idle", !.applied = TRUE, !.ok = ~run.failed, !.warned = @ \cup warning,
                      !.result = IF run.failed THEN "resolution" ELSE "ok"])

(* The process is killed; what apt or dpkg did stays. *)
InstallKilled == ~At("idle") /\ Finish("killed")

-----------------------------------------------------------------------------
InstallNext ==
  \/ \E o \in RunOptions : Execute(o)
  \/ MediumChanges \/ InstallKilled
  \/ VerifyManifest \/ CheckFile \/ CheckLock \/ LoadLock \/ CheckMachine \/ Select
  \/ AptUpdate \/ AptSimulate \/ PlanInstall
  \/ ApplyApt \/ ListPool \/ Unpack \/ Configure \/ PersistSource \/ RecordEvidence

InstallSpec == InstallInit /\ [][InstallNext]_ivars

-----------------------------------------------------------------------------
(* Properties.                                                             *)

InstallTypeOK ==
  /\ \A d \in Debs : machine.packages[d].state \in {"absent", "unpacked", "installed"}
  /\ machine.source \in BOOLEAN /\ run.at \in 0..Len(Paths) /\ run.names \subseteq Debs
  /\ late \subseteq PathSet

(* Bytes reach the machine only under a manifest that a trusted key signed or   *)
(* the operator accepted unsigned, and they are the bytes it lists, unless the  *)
(* medium changed after the file was checked; for apt the index must have       *)
(* changed too ("There is no code path below this point that runs against an    *)
(* unverified bundle", execute; the pool is walked again by applyDpkg).         *)
InstalledIsAttested ==
  [][\A d \in Debs : machine'.packages[d].from # machine.packages[d].from =>
       /\ run.signed \/ run.opts.allowUnsigned
       /\ \/ machine'.packages[d].from = run.manifest[d]
          \/ run.opts.dpkg /\ d \in late
          \/ ~run.opts.dpkg /\ Index \in late]_ivars

(* What the report says is so.  A call that did not apply, whether it planned   *)
(* or refused, left the machine as it found it.  A run that says it applied and *)
(* is OK has every package it named in place, but for those whose file was      *)
(* taken away meanwhile, and leaves no package half-way, not even one that an   *)
(* earlier run which failed left so; only where apt had nothing to install are  *)
(* the packages as they were, half-way ones too (report.OK, report.Applied; the  *)
(* refusals of execute; applyApt's return without names; dpkg --configure -a).  *)
ReportIsTrue ==
  run.pc = "idle" =>
    /\ ~run.applied /\ run.result # "killed" => machine = before
    /\ run.applied /\ run.ok =>
         /\ IF run.names = {} /\ ~run.opts.dpkg THEN machine.packages = before.packages
            ELSE \A d \in Debs : machine.packages[d].state # "unpacked"
         /\ \A d \in run.names : machine.packages[d].state = "installed" \/ d \in late
         /\ machine.source # before.source => run.opts.keep /\ ~bundle.shared
=============================================================================
