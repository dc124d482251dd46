----------------------------- MODULE AptBackend -----------------------------
(***************************************************************************)
(* core/apt: resolving a request with the host's apt (local backend), or   *)
(* with the same code run by a second debark inside a container, whose     *)
(* plan envelope the host then checks; and the closed-world check of the   *)
(* finished bundle.                                                        *)
(*                                                                         *)
(* apt-get, the container runtime and the disks are external.  A package   *)
(* is a name of one architecture, a .deb file name is <<name, version>>,   *)
(* and a file's bytes are a number: 0 is no file, 1 what the index's       *)
(* digest says, 2 anything else.                                           *)
(***************************************************************************)
EXTENDS Naturals, Sequences, FiniteSets, SequencesExt

CONSTANTS
  Builds,       \* processes that resolve, each with its work and archives directory
  NameOrder,    \* the package names, in lexical order
  Versions,     \* package versions, small naturals
  Archive,      \* <<name, version>> -> whether a [trusted=yes] source lists it too
  Vendor,       \* the .deb files the host staged as the external repository
  Installed,    \* dpkg status of the snapshot: name -> version, 0 for none
  Held,         \* names on hold in it
  Needs,        \* name -> names its control data relates it to
  Resolves,     \* what a build may be asked for
  MaxResolves,  \* bound: calls of Resolve
  MaxDiskFaults \* bound: changes of a disk or of an envelope

VARIABLES
  task,      \* task[b]: the call b is in, or the last one
  store,     \* host[b], the shared volume, the host's working directory
  envelope,  \* envelope[b]: plan.json in b's work directory
  tally      \* resolves, faults

avars == <<task, store, envelope, tally>>

Names == ToSet(NameOrder)
DebFiles == Names \X Versions
EmptyDir == [f \in DebFiles |-> 0]
NoEnvelope == [run |-> 0, ok |-> FALSE, plan |-> {}, unresolved |-> {}, files |-> {}]
NoTask == [pc |-> "idle", run |-> 0, job |-> "resolve", req |-> [packages |-> {}, externals |-> {}, upgrades |-> FALSE, volume |-> FALSE, backend |-> "auto"],
           kind |-> "none", want |-> <<>>, versions |-> <<>>, pinned |-> {}, roots |-> {}, upgraded |-> {},
           todo |-> {}, confirmed |-> {}, unresolved |-> {}, listed |-> {}, plan |-> {}, exit |-> "none", result |-> "none"]

AptInit ==
  /\ task = [b \in Builds |-> NoTask]
  /\ store = [host |-> [b \in Builds |-> EmptyDir], volume |-> EmptyDir, cwd |-> {}]
  /\ envelope = [b \in Builds |-> NoEnvelope]
  /\ tally = [resolves |-> 0, faults |-> 0]

InStep(b, pc) == task[b].pc = pc
Become(b, t) == task' = [task EXCEPT ![b] = t] /\ UNCHANGED <<store, envelope, tally>>
Inside(b) == task[b].kind = "container"

(* A call that ends; what it had gathered is gone. *)
Over(t, result) == [NoTask EXCEPT !.run = t.run, !.req = t.req, !.job = t.job, !.kind = t.kind, !.want = t.want, !.result = result]
Refuse(b, class) == Become(b, Over(task[b], class))

(* A step of apt that fails: the local backend returns the class, the process *)
(* in a container exits with it.                                              *)
Exited(t, class) == [NoTask EXCEPT !.pc = "exited", !.exit = class, !.run = t.run, !.job = t.job, !.req = t.req, !.kind = t.kind, !.want = t.want]
Failing(b, class) == IF Inside(b) THEN Exited(task[b], class) ELSE Over(task[b], class)

-----------------------------------------------------------------------------
(* Choosing a backend and starting.                                        *)

(* localMismatchReason; the container backend is asked only when it is needed. *)
SelectBackend(requested, localFits, containerFits) ==
  CASE requested = "local" -> IF localFits THEN "local" ELSE "none"
    [] requested = "container" -> IF containerFits THEN "container" ELSE "none"
    [] OTHER -> IF localFits THEN "local" ELSE IF containerFits THEN "container" ELSE "none"

(* A container run forgets the plan.json an earlier run left behind. *)
\* Mutant of ForgetPlan: an old plan.json is left in place.
ForgetPlanKept(b, kind) == envelope
ForgetPlan(b, kind) == IF kind = "container" THEN [envelope EXCEPT ![b] = NoEnvelope] ELSE envelope

StartResolve(b, req) ==
  /\ InStep(b, "idle") /\ tally.resolves < MaxResolves
  /\ \E localFits, containerFits \in BOOLEAN :
       LET kind == SelectBackend(req.backend, localFits, containerFits)
           t == [NoTask EXCEPT !.run = tally.resolves + 1, !.req = req, !.kind = kind]
       IN /\ task' = [task EXCEPT ![b] = IF kind = "none" THEN [t EXCEPT !.result = "environment"] ELSE [t EXCEPT !.pc = "update"]]
          /\ envelope' = ForgetPlan(b, kind)
  /\ tally' = [tally EXCEPT !.resolves = @ + 1]
  /\ UNCHANGED store

-----------------------------------------------------------------------------
(* localBackend.Resolve: what apt is asked, and what is kept of its answers. *)

(* What the private root's sources list: the target's, and the external     *)
(* repository; for a closed-world check only the bundle's.                   *)
Listed(b) == IF task[b].job = "closed" THEN {<<n, task[b].want[n]>> : n \in DOMAIN task[b].want}
             ELSE DOMAIN Archive \cup (IF task[b].req.externals # {} THEN Vendor ELSE {})

Update(b) ==
  /\ InStep(b, "update")
  /\ \/ Become(b, [task[b] EXCEPT !.pc = "upgrade"])
     \/ \E class \in {"resolution", "environment"} : Become(b, Failing(b, class))

(* apt's answers (external): the actions it proposes, at most one version of  *)
(* a package, none for what is installed at that version.                     *)
Reach(names) ==
  LET step[k \in 0..Len(NameOrder)] == IF k = 0 THEN names ELSE step[k - 1] \cup UNION {Needs[n] : n \in step[k - 1]}
  IN step[Len(NameOrder)]
Proposals(b, names) ==
  LET scope == Reach(names)
      offers(n) == {v \in Versions : <<n, v>> \in Listed(b) /\ v # Installed[n]}
      must == {n \in scope : Installed[n] = 0}
      may == {n \in scope : offers(n) # {}}
  IN IF ~(must \subseteq may) THEN {}
     ELSE UNION {{acts \in [D -> Versions] : \A n \in D : acts[n] \in offers(n)} : D \in {E \in SUBSET may : must \subseteq E}}
UpgradeProposals(b) == Proposals(b, {n \in Names : Installed[n] # 0})

(* record: a held package is kept at the version it has; of the others the   *)
(* last simulation that names one wins.                                      *)
Override(f, g) == [n \in DOMAIN f \cup DOMAIN g |-> IF n \in DOMAIN g THEN g[n] ELSE f[n]]
Record(t, acts) ==
  [t EXCEPT !.versions = Override(@, [n \in DOMAIN acts \ Held |-> acts[n]]),
            !.pinned = @ \cup {n \in DOMAIN acts \cap Held : Installed[n] # 0}]

FullUpgrade(b) ==
  /\ InStep(b, "upgrade")
  /\ LET t == [task[b] EXCEPT !.pc = "packages"]
     IN IF ~t.req.upgrades \/ t.job = "closed" THEN Become(b, t)
        ELSE \/ Become(b, t)   \* apt reports problems: skipped with a warning
             \/ \E class \in {"environment", "resolution"} : Become(b, Failing(b, class))
             \/ \E acts \in UpgradeProposals(b) :
                  Become(b, [Record(t, acts) EXCEPT !.roots = @ \cup DOMAIN acts, !.upgraded = DOMAIN acts])

SimulatePackages(b) ==
  /\ InStep(b, "packages")
  /\ LET t == [task[b] EXCEPT !.pc = "externals", !.todo = task[b].req.externals]
     IN IF t.req.packages = {} THEN Become(b, t)
        ELSE \/ \E class \in {"environment", "resolution"} : Become(b, Failing(b, class))
             \/ \E acts \in Proposals(b, t.req.packages) : Become(b, [Record(t, acts) EXCEPT !.roots = @ \cup t.req.packages])

(* All external names at once; when apt cannot, one by one, so that the one   *)
(* that cannot be satisfied is named and the others are kept.                 *)
SimulateExternals(b) ==
  /\ InStep(b, "externals")
  /\ LET t == [task[b] EXCEPT !.pc = "fetch"]
     IN IF t.todo = {} THEN Become(b, t)
        ELSE \/ \E class \in {"environment", "resolution"} : Become(b, Failing(b, class))
             \/ Become(b, [t EXCEPT !.pc = "single"])
             \/ \E acts \in Proposals(b, t.todo) :
                  Become(b, [Record(t, acts) EXCEPT !.confirmed = t.todo, !.roots = @ \cup t.todo, !.todo = {}])
FirstOf(names) == NameOrder[CHOOSE i \in DOMAIN NameOrder : NameOrder[i] \in names /\ \A j \in 1..(i - 1) : NameOrder[j] \notin names]
SimulateExternal(b) ==
  /\ InStep(b, "single")
  /\ IF task[b].todo = {} THEN Become(b, [task[b] EXCEPT !.pc = "fetch"])
     ELSE LET n == FirstOf(task[b].todo)
              t == [task[b] EXCEPT !.todo = @ \ {n}]
          IN \/ \E class \in {"environment", "resolution"} : Become(b, Failing(b, class))   \* simulateParseError
             \/ Become(b, [t EXCEPT !.unresolved = @ \cup {n}])
             \/ \E acts \in Proposals(b, {n}) :
                  Become(b, [Record(t, acts) EXCEPT !.confirmed = @ \cup {n}, !.roots = @ \cup {n}])

-----------------------------------------------------------------------------
(* fetchAndBuildSelections.                                                *)

ArchivesOf(b) == IF Inside(b) /\ task[b].req.volume THEN store.volume ELSE store.host[b]
WithArchives(b, dir) == IF Inside(b) /\ task[b].req.volume THEN [store EXCEPT !.volume = dir] ELSE [store EXCEPT !.host[b] = dir]
Placed(dir, files) == [f \in DebFiles |-> IF f \in files THEN 1 ELSE dir[f]]
Pinned(t) == {<<n, Installed[n]>> : n \in t.pinned}

(* apt-get install --print-uris and --download-only of the exact versions; a   *)
(* vendor file, and one of the bundle, is used where it lies.                  *)
Download(b) ==
  /\ InStep(b, "fetch")
  /\ LET t == task[b]
         files == {<<n, t.versions[n]>> : n \in DOMAIN t.versions} \ (IF t.job = "closed" THEN Listed(b) ELSE Vendor \ DOMAIN Archive)
     IN \/ /\ task' = [task EXCEPT ![b] = [@ EXCEPT !.pc = IF t.pinned = {} THEN "build" ELSE "list"]]
           /\ store' = WithArchives(b, Placed(ArchivesOf(b), files))
           /\ UNCHANGED <<envelope, tally>>
        \/ DOMAIN t.versions # {} /\ \E class \in {"resolution", "incomplete"} : Become(b, Failing(b, class))

(* downloadHeldPackages: apt-get download writes into the working directory; *)
(* what is new in it afterwards is moved to the archives.  A container has a *)
(* working directory of its own.                                             *)
HeldList(b) ==
  /\ InStep(b, "list")
  /\ Become(b, [task[b] EXCEPT !.pc = "held", !.listed = IF Inside(b) THEN {} ELSE store.cwd])
HeldDownload(b) ==
  /\ InStep(b, "held")
  /\ \/ /\ task' = [task EXCEPT ![b].pc = "move"]
        /\ store' = IF Inside(b) THEN store ELSE [store EXCEPT !.cwd = @ \cup (Pinned(task[b]) \cap Listed(b))]
        /\ UNCHANGED <<envelope, tally>>
     \/ \E class \in {"resolution", "incomplete"} : Become(b, Failing(b, class))
HeldMove(b) ==
  /\ InStep(b, "move")
  /\ LET new == IF Inside(b) THEN Pinned(task[b]) \cap Listed(b) ELSE Pinned(task[b]) \cap (store.cwd \ task[b].listed)
     IN store' = [WithArchives(b, Placed(ArchivesOf(b), new)) EXCEPT !.cwd = IF Inside(b) THEN @ ELSE @ \ new]
  /\ task' = [task EXCEPT ![b].pc = "build"]
  /\ UNCHANGED <<envelope, tally>>

(* AttributeReasons: the queue of a breadth-first walk from the roots in      *)
(* lexical order; each entry knows its root and its distance.                 *)
InOrder(names) == SelectSeq(NameOrder, LAMBDA n : n \in names)
Walk(roots, known, deps) ==
  LET entry(n, root, dist) == [name |-> n, root |-> root, dist |-> dist]
      start == InOrder(roots \cap known)
      step[k \in 0..Cardinality(known)] ==
        IF k = 0 THEN [i \in DOMAIN start |-> entry(start[i], start[i], 0)]
        ELSE LET q == step[k - 1]
             IN IF k > Len(q) THEN q
                ELSE LET new == InOrder((deps[q[k].name] \cap known) \ {q[i].name : i \in DOMAIN q})
                     IN q \o [i \in DOMAIN new |-> entry(new[i], q[k].root, q[k].dist + 1)]
  IN step[Cardinality(known)]
DependencyOf(root) == <<"dependency-of", root>>
Blank == <<"">>
AttributeReasons(roots, selections, deps) ==
  LET known == {s.name : s \in selections}
      queue == Walk(roots, known, deps)
      via(n) == LET i == CHOOSE i \in DOMAIN queue : queue[i].name = n IN queue[i].root
      reached == {queue[i].name : i \in DOMAIN queue}
      fallback == IF roots \cap known # {} THEN {FirstOf(roots \cap known)} ELSE IF roots # {} THEN {FirstOf(roots)} ELSE {}
      reason(s) == IF s.reason # Blank THEN s.reason
                   ELSE IF s.name \in reached THEN IF via(s.name) # s.name THEN DependencyOf(via(s.name)) ELSE Blank
                   ELSE IF fallback # {} /\ fallback # {s.name} THEN DependencyOf(FirstOf(fallback)) ELSE Blank
  IN {[s EXCEPT !.reason = reason(s)] : s \in selections}

(* A recorded version no index lists is left out; of the rest the digest is   *)
(* the staged file's, or the index's when nothing is staged.                  *)
Chosen(b) == Pinned(task[b]) \cup {<<n, task[b].versions[n]>> : n \in DOMAIN task[b].versions}
Unauthenticated(b, f) == task[b].job = "closed" \/ (f \in DOMAIN Archive /\ Archive[f]) \/ (task[b].req.externals # {} /\ f \in Vendor)
Selection(b, f) ==
  LET t == task[b]
      external == f[1] \in t.confirmed
  IN [name |-> f[1], version |-> f[2], file |-> f,
      reason |-> IF external THEN <<"external">> ELSE IF f[1] \in t.req.packages THEN <<"requested">> ELSE Blank,
      verified |-> IF external \/ Unauthenticated(b, f) THEN "url-unverified" ELSE "apt-signed",
      from |-> IF external THEN "vendor" ELSE "archives",
      sha |-> IF ArchivesOf(b)[f] = 0 THEN 1 ELSE ArchivesOf(b)[f]]
Upgraded(t, s) == IF s.reason = Blank /\ s.name \in t.roots THEN [s EXCEPT !.reason = <<"upgrade">>] ELSE s
AttributionRoots(t, selections) == t.roots \ {s.name : s \in {r \in selections : r.reason = Blank /\ r.name \notin t.upgraded}}
Selections(b) ==
  LET t == task[b]
      named == {Selection(b, f) : f \in Chosen(b) \cap Listed(b)}
  IN {Upgraded(t, s) : s \in AttributeReasons(AttributionRoots(t, named), named, Needs)}

(* The end of Resolve; inside a container writeResolveEnvelope lists every    *)
(* file of the archives directory beside the plan.                            *)
Scan(dir) == {[file |-> f, sha |-> dir[f]] : f \in {g \in DebFiles : dir[g] # 0}}
BuildPlan(b) ==
  /\ InStep(b, "build")
  /\ LET t == task[b]
         plan == Selections(b)
     IN IF Inside(b)
        THEN /\ task' = [task EXCEPT ![b] = Exited(t, IF t.unresolved = {} THEN "ok" ELSE "incomplete")]
             /\ envelope' = [envelope EXCEPT ![b] = [run |-> t.run, ok |-> TRUE, plan |-> plan, unresolved |-> t.unresolved,
                                                     files |-> Scan(ArchivesOf(b))]]
             /\ UNCHANGED <<store, tally>>
        ELSE Become(b, [Over(t, "plan") EXCEPT !.plan = plan])

-----------------------------------------------------------------------------
(* The host, after the container exited.                                   *)

(* containerCrossCheckEnvelope: only a name this build staged may be external; *)
(* every other selection is in files[] as planned, which is keyed by name so   *)
(* that the last file of a name counts; and nothing else is in files[].        *)
FilesOf(env, n) == {f \in env.files : f.file[1] = n}
ByKey(env, n) == {f \in FilesOf(env, n) : \A g \in FilesOf(env, n) : g.file[2] <= f.file[2]}
External(s) == s.reason = <<"external">>
SelectionProblem(env, externals, s) ==
  IF External(s) THEN s.name \notin externals
  ELSE ~\E f \in ByKey(env, s.name) : f.file = s.file /\ (s.sha = 0 \/ f.sha = s.sha)
Unselected(env) == {f \in env.files : \A s \in env.plan : External(s) \/ s.name # f.file[1]}
CrossCheck(b, env) ==
  IF \E s \in env.plan : SelectionProblem(env, task[b].req.externals, s) THEN "verification"
  ELSE IF Unselected(env) # {} THEN IF task[b].req.volume THEN "environment" ELSE "verification"
  ELSE "ok"

(* containerResolve up to the files: exit 3 promises an envelope too. *)
ReadEnvelope(b) ==
  /\ InStep(b, "exited") /\ task[b].job = "resolve"
  /\ LET env == envelope[b]
     IN IF task[b].exit \notin {"ok", "incomplete"} THEN Refuse(b, task[b].exit)
        ELSE IF ~env.ok THEN Refuse(b, "verification")
        ELSE IF CrossCheck(b, env) # "ok" THEN Refuse(b, CrossCheck(b, env))
        ELSE Become(b, [task[b] EXCEPT !.pc = IF task[b].req.volume THEN "copy" ELSE "reverify", !.plan = env.plan,
                                       !.unresolved = env.unresolved, !.listed = env.files])

CopyVolume(b) ==
  /\ InStep(b, "copy")
  /\ \/ /\ store' = [store EXCEPT !.host[b] = [f \in DebFiles |-> IF store.volume[f] # 0 THEN store.volume[f] ELSE @[f]]]
        /\ task' = [task EXCEPT ![b].pc = "reverify"]
        /\ UNCHANGED <<envelope, tally>>
     \/ Refuse(b, "environment")

(* containerReverifyFiles and containerReverifyExternalFiles hash what lies on *)
(* the host now; an exit 3 that names nothing unresolved is not a success.     *)
ReverifyFiles(b) == \A f \in task[b].listed : store.host[b][f.file] = f.sha
VendorBytes(f) == IF f \in Vendor THEN 1 ELSE 0
ReverifyExternalFiles(b) ==
  \A s \in task[b].plan : External(s) => VendorBytes(s.file) # 0 /\ (s.sha = 0 \/ VendorBytes(s.file) = s.sha)
RewriteStagedPaths(plan) == {[s EXCEPT !.from = IF External(s) THEN "vendor" ELSE "archives"] : s \in plan}
AcceptPlan(b) ==
  /\ InStep(b, "reverify")
  /\ IF ~ReverifyFiles(b) \/ ~ReverifyExternalFiles(b) THEN Refuse(b, "verification")
     ELSE IF task[b].exit = "incomplete" /\ task[b].unresolved = {} THEN Refuse(b, "incomplete")
     ELSE Become(b, [Over(task[b], "plan") EXCEPT !.plan = RewriteStagedPaths(task[b].plan)])

-----------------------------------------------------------------------------
(* ClosedWorld: the bundle alone must give the locked versions.            *)

Locked(plan) == [n \in {s.name : s \in plan} |-> (CHOOSE s \in plan : s.name = n).version]
StartClosedWorld(b) ==
  /\ InStep(b, "idle") /\ task[b].result = "plan" /\ task[b].job = "resolve"
  /\ LET t == task[b]
         want == Locked(t.plan)
         upgraded == {s.name : s \in {r \in t.plan : r.reason = <<"upgrade">>}}
         fresh == [NoTask EXCEPT !.run = t.run, !.job = "closed", !.kind = t.kind, !.want = want,
                                 !.upgraded = IF t.kind = "local" THEN upgraded ELSE {},
                                 !.req = [t.req EXCEPT !.packages = {}, !.externals = DOMAIN want, !.volume = FALSE]]
     IN task' = [task EXCEPT ![b] = IF t.plan = {} THEN [fresh EXCEPT !.result = "skipped"]
                                    ELSE [fresh EXCEPT !.pc = IF t.kind = "local" THEN "simulate" ELSE "update"]]
  /\ envelope' = ForgetPlan(b, task[b].kind)
  /\ UNCHANGED <<store, tally>>

(* The local check: apt is asked for the exact versions, of which the bundle    *)
(* lists no other; what it would do to the locked upgrades is compared as well.  *)
UpgradeMismatches(want, acts) == {n \in DOMAIN acts \cap DOMAIN want : acts[n] # want[n]}
ClosedWorldLocal(b) ==
  /\ InStep(b, "simulate")
  /\ \/ Refuse(b, "failed")
     \/ \E acts \in Proposals(b, DOMAIN task[b].want) :
          /\ \A n \in DOMAIN task[b].want : n \in DOMAIN acts \/ Installed[n] = task[b].want[n]   \* apt: name=version
          /\ LET diverged == task[b].req.upgrades /\ UpgradeMismatches(task[b].want, acts) \cap task[b].upgraded # {}
             IN Become(b, [Over(task[b], IF diverged THEN "failed" ELSE "ok") EXCEPT !.versions = acts])

(* containerVersionMismatches: what the inner plan touches has the locked      *)
(* version, what it does not is installed at it.                               *)
\* Mutant of VersionMismatches: only what the inner plan touches is compared.
VersionMismatchesTouched(want, plan) == UpgradeMismatches(want, Locked(plan))
VersionMismatches(want, plan) ==
  LET touched == {s.name : s \in plan}
  IN UpgradeMismatches(want, Locked(plan)) \cup {n \in DOMAIN want \ touched : Installed[n] # want[n]}
ClosedWorldVerdict(b) ==
  /\ InStep(b, "exited") /\ task[b].job = "closed"
  /\ LET env == envelope[b]
     IN Refuse(b, IF task[b].exit # "ok" \/ ~env.ok \/ env.unresolved # {} \/ VersionMismatches(task[b].want, env.plan) # {}
                  THEN "failed" ELSE "ok")

-----------------------------------------------------------------------------
(* What may go wrong outside: files of a mount, and the envelope a process   *)
(* the host cannot vouch for has written.  Files change while they are on    *)
(* their way from the container to the host.                                 *)

DiskFault == tally.faults < MaxDiskFaults /\ tally' = [tally EXCEPT !.faults = @ + 1]
DiskChanges ==
  /\ DiskFault /\ \E b \in Builds : Inside(b) /\ task[b].pc \in {"build", "exited", "copy", "reverify"}
  /\ \E f \in DebFiles, c \in {0, 2} :
       \/ store.volume[f] = 1 /\ store' = [store EXCEPT !.volume[f] = c]
       \/ \E b \in Builds : store.host[b][f] = 1 /\ store' = [store EXCEPT !.host[b][f] = c]
  /\ UNCHANGED <<task, envelope>>
ContainerKilled(b) ==
  /\ Inside(b) /\ task[b].pc \notin {"idle", "exited", "copy", "reverify"}
  /\ Become(b, Exited(task[b], "environment"))
EnvelopeAltered(b) ==
  /\ InStep(b, "exited") /\ envelope[b].ok /\ DiskFault
  /\ LET env == envelope[b]
     IN \/ envelope' = [envelope EXCEPT ![b].ok = FALSE]
        \/ env.unresolved # {} /\ envelope' = [envelope EXCEPT ![b].unresolved = {}]
        \/ \E f \in env.files : envelope' = [envelope EXCEPT ![b].files = @ \ {f}]
        \/ \E s \in env.plan, change \in {"reason", "sha", "other"} :
             LET t == CASE change = "reason" -> [s EXCEPT !.reason = <<"external">>]
                        [] change = "sha" -> [s EXCEPT !.sha = 2]
                        [] OTHER -> [s EXCEPT !.sha = 0, !.reason = Blank]
             IN envelope' = [envelope EXCEPT ![b].plan = (@ \ {s}) \cup {t}]
  /\ UNCHANGED <<task, store>>

-----------------------------------------------------------------------------

AptNext ==
  \/ \E b \in Builds :
       \/ \E req \in Resolves : StartResolve(b, req)
       \/ Update(b) \/ FullUpgrade(b) \/ SimulatePackages(b) \/ SimulateExternals(b) \/ SimulateExternal(b)
       \/ Download(b) \/ HeldList(b) \/ HeldDownload(b) \/ HeldMove(b) \/ BuildPlan(b)
       \/ ReadEnvelope(b) \/ CopyVolume(b) \/ AcceptPlan(b)
       \/ StartClosedWorld(b) \/ ClosedWorldLocal(b) \/ ClosedWorldVerdict(b)
       \/ ContainerKilled(b) \/ EnvelopeAltered(b)
  \/ DiskChanges

AptSpec == AptInit /\ [][AptNext]_avars

-----------------------------------------------------------------------------
(* Properties.                                                             *)

Planned(b) == task[b].result = "plan" /\ task[b].job = "resolve"

(* A plan accepted from a container is this run's own, and the host holds for  *)
(* every selection the bytes the plan states: a vendor file only for a name    *)
(* the build staged, any other in the archives directory, whatever an older    *)
(* plan.json, another build in the shared volume, a truncated mount or the     *)
(* envelope itself says.  (containerBackend.Resolve.)                          *)
AcceptedPlanIsOnTheHost ==
  [][\A b \in Builds :
       (Inside(b) /\ ~Planned(b) /\ Planned(b)') =>
         /\ envelope[b].run = task[b].run
         /\ \A s \in task'[b].plan :
              IF s.from = "vendor" THEN s.name \in task[b].req.externals /\ VendorBytes(s.file) \in {1} /\ s.sha \in {0, 1}
              ELSE store.host[b][s.file] # 0 /\ s.sha \in {0, store.host[b][s.file]}]_avars

(* The versions are those of the plan and of the target.  A package on hold   *)
(* is in a plan only at the version the target has, however many of the       *)
(* simulations (full-upgrade, the requested packages, the external ones       *)
(* together or one by one) proposed to move it, and never joins the           *)
(* exact-version download.  A closed-world check that passes means what the   *)
(* bundle alone would do to the target: every locked package ends at its      *)
(* locked version (record in localBackend.Resolve, ClosedWorld of both        *)
(* backends, containerVersionMismatches).                                     *)
After(t, env, n) ==
  LET own == {s.version : s \in {r \in env.plan : r.name = n}}
  IN IF t.kind = "container" THEN IF own = {} THEN {Installed[n]} ELSE own
     ELSE {IF n \in DOMAIN t.versions THEN t.versions[n] ELSE Installed[n]}
VersionsAreLocked ==
  \A b \in Builds :
    /\ DOMAIN task[b].versions \cap Held = {} \/ task[b].job = "closed"
    /\ Planned(b) => \A s \in task[b].plan : s.name \in Held => s.version = Installed[s.name]
    /\ task[b].result = "ok" => \A n \in DOMAIN task[b].want : After(task[b], envelope[b], n) = {task[b].want[n]}
=============================================================================
