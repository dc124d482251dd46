# debark, specified in TLA+

debark builds, on a machine with a network, a *bundle*: a directory (or tar) holding
a closed set of `.deb` files, the apt repository index over them, the documents that say
where they came from, and a signed manifest over all of it. The bundle crosses an air gap, is
verified there and installed offline. This directory models the parts of debark in which
files are shared, replaced in place, interrupted or read twice. It states what must hold of
them, checks that with TLC on small instances, and proves a large part of it with TLAPS for all instances.

Paths below are relative to `src/`. `PROJECT.json` maps every definition to the lines it
models, and lists components, runs, mutants, findings, hazards and theorems.

## 1. Inventory

| Component | State | Operations | Hard behaviour |
|---|---|---|---|
| `core/store` objects | files `sha256/hh/<digest>`, staging files | `Put`, `PutFile` (copy, dedup, move), `Open`, `Materialise`, `GC` | no locking; hard links shared with bundles; crash and power failure between hash, fsync and rename |
| `core/store` index | `index.json`, `index.lock` | `Record`, `GC`, `lockIndex`/unlock, `Index` | a lock judged stale by age and stolen by name; read-modify-write |
| `core/fetch` | results, semaphore, attempts | `Fetch`, `FetchAll`, `FromLocalFile` | concurrent downloads, retries against changing answers, cancellation |
| `core/engine` inputs | staging directory, origins, failures | `stageExternals` | base names shared by several inputs |
| `core/engine` run, finalize | the bundle directory | `run`, `assemble`, `finalizeBundle` | in-place rebuild over an older bundle, crash anywhere, failing signer |
| `core/bundle` | pool, reports, tar | `Assemble`, prune, `ExportTar`, `ImportTar`, `Open` | partial pools, prune decision |
| `core/manifest`, `core/lock`, `core/repository` | one document each | `Build`, `Save`, `SaveSignature`, `Write` | written twice per build; not atomic |
| `core/verify` | none | `runVerify` | must not accept mixtures of two builds |
| `core/install` | target's apt state, kept source, log | verify, plan, confirm, apply | files read again after verification; chunks of dpkg failing half-way |
| `core/apt` | private root, staging directories, container, shared volume | `Resolve` locally or in a container, the closed-world check | what another process or an inner debark answers; a disk shared by builds |
| `core/sign`, `core/policy` | key sources, trust set, plugin process and its pipes; policy document | sign, verify a block; load and evaluate a policy | answers late, twice or never; which of several keys; a rule dropped on the way |
| `core/snapshot`, `core/sbom`, `core/evidence`, `core/doctor` | none | capture, render, warn | parsing and rendering |
| `internal/cli` | none | commands, among them `store gc` | what GC protects |
| `gui/internal/export` | destination folder, incomplete marker | `Plan`, `Run`, `Verify` | pulled drives, kills, media that lie, repeated exports |
| `gui/internal/app` | job table, target, draft with its undo, event ring, closing | start, cancel, select a target, edit, undo, close | cancellation racing completion; lookups that end after the target changed |
| `gui/internal/cliadapter` | child process, pipes, event file, tailer | `Build` | a file read while it grows; a child that will not end |
| `gui/internal/catalog` | cache directory, catalogue in memory | save, load, sweep; bind, query, build, close; search | processes without a lock; a load that ends after a rebind |
| `gui/internal/readiness` | the report, the running check | checks, actions | a machine that changes while it is probed |
| `gui/frontend` screens | what is shown, calls in flight, sequence numbers | user actions, answers, events | answers that overtake each other |

How they interact: the CLI (or the GUI, through a child CLI process) calls `engine.Build`.
The engine stages external inputs through `fetch` into the store, resolves through an apt
backend, ingests the plan's files into the store (`PutFile`, then `Record`), and lets
`bundle.Assemble` place store objects in the pool, by hard link where it can, and write the index,
the first lock and the first manifest. `finalizeBundle` then rewrites lock, README, SBOM,
evidence and manifest, signs, and `exportTar` packs the result. `verify` and `install` read the
directory; the GUI's export copies it to a drive. Processes share the store and the output
directory through the file system only.

What makes each part correct: an object is what its address says, and a pool file is what
the plan asked for; index updates are not lost and the lock answers; every external
input is staged under its own digest, reported, or lost in a way that is known; a directory accepted by verify is
the finished bundle of one build; a drive without the marker holds the whole bundle, unless
an export over a marked copy ended as it replaced the marker (section 7); only attested bytes
reach the target and its report is true; a signature's verdict is that of the right key; every job the GUI starts reports, once; what it says
of the draft, the catalogue, the copy and the machine is so once its calls are answered.

## 2. Modules

| Module | Models | Properties |
|---|---|---|
| `StoreIndex` | `fsstore.go` `Record`, `GC`, `lockIndex`, `Index`; the ingest and `store gc` callers | `SingleWriterWhileTimely`, `NoLostUpdate`, `ObjectsOutliveTheirMarks`, `LockIndexReturns`; violated: `LockIndexGivesUp`, `NeverCollectsUserSupplied` |
| `ObjectStore` | `fsstore.go` `Put`, `PutFile`, `Materialise`; `local.go`; placing a selection | `ObjectsAreIntact`, `AskedIsGiven` |
| `ExternalInputs` | `fetcher.go`, `inputs.go` `stageExternals` | `InputsAreAccountedFor` |
| `BundleBuild` | `engine.go` `run`, `assemble.go`, `prune.go`, `finalize.go`, tar export, `runVerify` | `SignedMeansFinished`, `ImplementsSignedBundle` |
| `SignedBundle` | abstract: bundles are issued and withdrawn atomically | implemented by `BundleBuild` |
| `BundleOpen` | `Open`, `ImportTar`, `Close` | `OpenIsAllOrNothing` |
| `Policy`, `PrivateRoot` | `core/policy`, the engine's use of it; the private apt root | `PolicyIsApplied`, `RootIsFaithful` |
| `Signing`, `SignVerifier` | `core/sign`: signers, the plugin process; key sources and the verdict on a block | `SignedBlockVerifies`, `PluginStops`, `VerdictIsOfTheKey` |
| `AptBackend` | `core/apt`: resolving locally or in a container, held packages, the closed world | `VersionsAreLocked`, `AcceptedPlanIsOnTheHost` |
| `Install` | `core/install`, `core/verify` file by file | `InstalledIsAttested`, `ReportIsTrue` |
| `Export`, `Volumes`, `ExportScreen` | `gui/internal/export`, its list of drives, its screen | `UnmarkedIsWhole`, `CompleteIsTheBundle`, `EveryDriveOnce`, `ScreenIsOfThisCopy` |
| `App` | `gui/internal/app`: jobs, target, draft, closing | `RunsAccountedFor`, `EveryRunReports`, `DraftIsTrue` |
| `VirtualList`, `PickerScreen` | the picker's list, marks, tray and status | `PagesAreOfTheQuery`, `NoRowWaits`, `QuietScreenIsTrue` |
| `Readiness` | `gui/internal/readiness`, its job and screen | `VerdictIsOfTheMachine`, `QuietReadinessIsTrue` |
| `EventTailer`, `BuildScreen` | one `Build` of the CLI adapter; the event ring and the build screen | `GivenIsTheFile`, `BuildEnds`, `ScreenShowsItsRun`, `EndIsShown` |
| `CatalogCache`, `Catalog`, `CatalogBuild`, `CatalogSearch` | cache directory; catalogue in memory; build from sources; image, index and search | `OnlyDamageIsRemoved`, `NoQuietMismatch`, `ServedTargetWasBound`, `IndexIsTheSources`, `SearchIsRanked` |
| `*Proofs` (8) | theorems | section 5 |
| `MC*` | instances for TLC | section 3 |

**StoreIndex.** One process is a debark process on a shared store. `pc` walks through
`lockIndex` (`create` → `stat` → `steal` or `wait`) and the critical section (`read`, `write`,
`unlock`). The lock file is the pair `holder`, `age`; the *holder* is only the identity of the
file, since neither stealing nor releasing looks at it. Time is discrete (`Tick`). `disturbed` is a
history variable: a lock file outlived its process, or a process its lock. The removal of a lock file may fail (`RemoveFails`), when it is stolen and when it is
released. Several GCs may overlap; a GC and an ingest do not, which the comment on `GC` asks of its callers (`Record` has no caller but a build).

**ObjectStore.** A digest *is* the content (SHA-256 taken as injective). A file carries its
content, whether it was fsync'd, and what befell it. A pool path is its own file or a
link to an object, so an edit in place of a bundle file reaches the object. `Recheck` is the
second read by `materialiseSelections` after `Materialise`'s own.

**ExternalInputs.** `main` is the goroutine of `stageExternals`; `pc[i]` is FetchAll's
goroutine for URL *i*. Every request may be answered differently, and a server may choose the base name.

**BundleBuild.** One directory, `MaxBuilds` builds one after the other, each with a fixed request.
The contents of a file are the build that wrote it and whether it is the first cut
or the final one. Every step may fail, be cancelled or be killed, leaving its file torn.
`Accepts` is `runVerify` with a trusted key. Tar builds work in `<output>.d`, which is
the directory of this model; the tar is published by a rename.

**BundleOpen, Policy, PrivateRoot, SignVerifier.** Decisions with little state: entries of an archive are
judged one by one, and each file is created and then copied within three limits, so it may be there in part or be one byte too long when it is refused; a policy is loaded, merged with key files and
applied to a plan and a snapshot; keyrings are copied and `Signed-By` rewritten; key files are
loaded into a trust set that judges one block. Each result is compared with a definition
that says directly what the operator meant, without following the code's path.

**Signing.** The host's calls, a reader goroutine and the plugin process over two pipes of bounded room.

**AptBackend.** What apt would resolve is a function of the archive (external). The model is about what debark does around
it: staging, the volume shared by container builds, the plan envelope an inner debark returns and the host's checks of it.

**Install.** `bundle.disk` is the medium, whose files change at any step (`MaxChanges`); verification reads file by file, apt or
dpkg read again. `machine` is what is unpacked and configured. A run may be killed anywhere, and a later run meets what it left. With no name to
install, `applyApt` runs no apt.

**Export.** `disk` is the destination, `marker`/`durable` the marker as the running system sees it
and as it would be after pulling the drive. An absent marker has a history: never written, cleared by a verification or by `SkipVerify`, or removed to be replaced. `vouched` is what Run had read of the bundle when the marker last went.

**App.** One action is one critical section under `App.mu`, or a step between two of them. `routines` are the goroutines of jobs; `call`
and `add` are the bound methods that leave the lock while they wait (`SelectTarget`, `addEntries`). `made` and `sent` are ghosts.

**Screens** (`BuildScreen`, `ExportScreen`, `VirtualList`, `PickerScreen`, `Readiness`). A call is sent, answered and
delivered, each at any time against the others. A sequence number that makes a screen ignore an earlier answer is modelled by withdrawing that call. `Readiness!mach`
is what the probes and the engine find on the machine; `EngineBuilds` follows the engine's own choice of runtime and of the binary it mounts.

**Catalogue.** `CatalogCache` has writers, readers and sweepers on one directory without a lock, whose renames, links and removals, file by file, may each fail; `Catalog` the
fields under `c.mu` and `loadMu` with its callers; `CatalogBuild` the workers that download and merge; `CatalogSearch` the pure part.

## 3. Runs

Several modules are checked in one run, side by side: a variable `part`, fixed in the first state, says which of them a behaviour moves, so the run
explores the sum of their states and not their product.

| Run | Shows |
|---|---|
| `store_index` | 2 processes, 2 digests, one fault (kill or stall). The lock excludes while it is timely; no update is lost then; nothing the index marks user-supplied is collected and no entry precedes its object; `lockIndex` answers unless lock files can again and again not be removed. |
| `store_lock_wait` (violation) | A stale lock file that cannot be removed holds `lockIndex` past its deadline, in a loop without a sleep. |
| `store_user_supplied` (violation) | Recording a user-supplied object again as an archive's loses the mark; GC removes it. |
| `objects` | 2 processes, 2 contents, edits, kills, power failure: objects stay intact, stated digests are honoured, placed files are right. |
| `inputs` | a local file and 3 URLs over 2 slots, 2 attempts each, cancellation at any moment; blocks and key sources that are right or wrong in some respects; 2 signatures asked of one plugin. |
| `export` | repeated exports of a bundle rebuilt twice; mount tables of up to 3 mounts; a screen with 2 copies to 3 places, late answers and calls that overtake `StartExport`. |
| `app` | catalogue and export jobs, 2 targets, the window closing at any time: runs are accounted for, and each reports. |
| `picker` | the draft with 2 targets and a build; the list with a page of one row and a cache of two; the marks and the status of the picker; the verdict on 8 machines and the check's screen. |
| `build_events` | a child that writes 3 lines, is cancelled, hangs or is killed, read in chunks of 2; a screen over a ring of 2 with pages of 1. |
| `catalog` | 2 saves, or one beside a sweep, and a reader of one cache; 2 callers and 2 targets in memory; builds from 4 source files by 2 workers, with the searches over the result. |
| `catalog_sources` (violation) | Two repositories that share suite, component and architecture are taken for mirrors; one is not read. |
| `delivery` | 3 builds from 4 kinds of request over 4 `.deb`s, interrupted anywhere; archives of up to 3 entries; policies of up to 3 fields and 6 apt configurations; 2 resolutions, one fault, local or in a container, with a shared volume; 2 installations of bundles of 3 `.deb`s while one file changes: what verify accepts at any moment, that opening is all or nothing, that no rule and no key is lost on the way, that the plan is held to, that only attested bytes are installed. |

Each violation run checks what a comment or document of the repository says; `findings` in `PROJECT.json` quotes the line.

**Bounds.** Two processes, writers, callers or targets are what a race needs: steal against steal, publish against
publish, rebind against load. Lock ages matter only relative to the two limits, so one tick for
`lockStaleAfter` and none for `lockWaitBudget` keep every order of expiries; a second fault adds no new kind of overlap, since the first already ends
`~disturbed`. Three builds cover old, interrupted and final. Two contents of one length and a
third of another separate the size check from the digest check. Two slots for three URLs
make one wait; two attempts reach both the retry and its end. Pages, rings, pipes and caches have the smallest size at which
something is evicted or waits. `MCApp` keeps the tray empty and `MCPicker` keeps the window open: jobs and draft together, with
one package and without the bound on edits, were covered by a one-off run over the inductive invariants of section 5 and are covered by the theorems.
In `MCPicker` the parts of a screen that a part is not about are answered at once.

**Fairness.** `StoreIndex!FairSpec`: the clock ticks, and a process inside an operation is scheduled; nobody is
obliged to start one. `App!Fairness`: the work of a job returns (the adapter and the exporter answer a cancelled context and have
deadlines of their own), goroutines go on, `SelectTarget` and `addEntries` return; users and dialogs owe nothing.
`EventTailer!BuildFairness`: the tailer's timer fires, a read returns, the adapter goes on, a cancelled child exits (it is killed
after a grace period). `BuildScreen!ScreenFairness`: calls are answered and delivered. `Signing`: the host's steps and closing the signer; nothing of
the plugin, so `PluginStops` names the two places where the plugin can hold the host (`HeldByPlugin`). The other modules need none.
Deadlock is checked in `store_index`, `store_user_supplied`, `store_lock_wait` and `objects`; the other systems stop by design (after the last build, when all is delivered, when the window is gone).

## 4. Assumptions

SHA-256 and canonical JSON are injective. Rename is atomic. GC does not overlap builds on one store, and builds of one output directory do not overlap. Verify reads a
directory nobody is writing (`Install` drops this one). Signatures cannot be forged. On an exported drive an
fsync'd file keeps its directory entry. Two generations of a catalogue cache differ in their count or size.

The `ASSUME`s, all evaluated by TLC on the runs' instances:

* `StoreIndex`, `ObjectStore`, `Export`, `BundleBuild`: constants have their types; the `None`s and `Torn` are no values of the sets they stand beside.
* `ExternalInputs`: lists of names and of contents; `None` is no content and no input.
* `Catalog!NoTargetAssumption`: "no target" is no target and no caller.
* `CatalogCache!CacheAssumption`: the number of attempts is a natural; a cache in another format version is one found at the start, since a save writes its own version.
* `SignVerifier!KeysHaveIds`: every key has an id (ids may coincide). `SourcesAssumption`: the bundle exists, what exists lies in directories that exist, a keyring holds gpg keys.
* `Install`: `PathsAssumption` (paths are a list that holds the pool, the index and the lock document), `BundlesAssumption` (bundles are as a finished build left
  them: the index and the manifest agree) and `LockDocsAssumption` (types of the lock document).
* `App!ConstantsAssumption`: `None` is no target and no entry; a key is a package's or a URL's; earlier sessions left caches of targets.
* `BuildScreen!RingAssumption`: the ring and a page of the log hold at least one event. `VirtualList!ListAssumption`: a page has rows, versions are counted from one, a query has a number of rows,
  and "no text" is a text (the field starts empty). `PickerScreen!PickerAssumption`: a target lists finitely many packages.
* `Readiness!ReadinessAssumption`: hosts are the three the code tells apart, a machine answers each probe, and "no check" is no check's name.
* `Policy!PolicyAssumption`: documents, keyrings and keys of settings are lists; a field that is not a list has one word; what calls itself external has a scheme a URI of such a source can have.
* `CatalogBuild`: `SourcesAssumption` and `ArchivesAssumption` give the shapes of stanzas, packages and application components.
* `Volumes!VolumesAssumption`: filesystems have numbers, paths are lists of components that are numbers (their order is the order of the names).
* `EventTailer!TailerAssumption`: lines have lengths, a read takes at least one unit, the limits are naturals.
* `BundleOpen!OpenAssumption`: an archive is a list of entries, sizes and limits are naturals (a tar header with a negative size does not parse).

## 5. Proofs

Theorems hold for every value of the constants (any number of processes, digests, packages, files, builds, runs, targets, faults), from the
`ASSUME`s above only. Every proof has the same shape: an inductive invariant, checked by TLC first, one lemma per action or group of actions, and a last temporal step.

* **StoreIndex.** `IInv` = types, which operation a `pc` carries (`OpInv`), and, while not
  disturbed, `LockInv`: whoever holds is the creator of the lock file, that file is not stale,
  nobody is about to steal, and what the holder has read is still the index. Mutual exclusion alone is not
  inductive: a thief between `stat` and `remove` would break it. `TypeCorrect`, `SingleWriter`, `UpdatesSurvive`; and, from `OpInv` without any assumption on the
  lock, `MarksAreHonoured`: also a writer whose lock was stolen removes no object marked at that moment.
* **ObjectStore.** `OpInv` ties `pc` to the call and the hash: at `publish` and `publishMoved`
  the staged file has the content of `hash`, because each path hashes what it stages and no one else
  can reach that file. From it `ObjectsIntact`: publication never makes an address lie; and `AskedAndGiven`: what is accepted is what was stated, and what was said to be placed is there.
  `TypeCorrect`.
* **BundleBuild.** `Progress` says what the running build has put in place by each step, and
  `SignatureInv` that a whole signature was made over a manifest that lists the final
  documents and every selected package of one signing build. So a directory equal to what a signed
  manifest lists is that build's finished bundle, whatever later builds overwrote: `TypeCorrect`, `SignedIsFinished`. `Refinement` (of `SignedBundle`, under the mapping
  of `BundleBuild`) needs `OrderInv` besides: the last whole signature is of the latest build that signed, so an accepted directory never goes back to an older bundle.
* **ExternalInputs.** `InputsInv`: the semaphore counts the goroutines between acquire and release (`Slots`), what each goroutine may still do
  (`Goroutines`, `Reach`), that a result is of its input (`Reports`), that a staged name holds what its last writer brought (`Directory`, `Attribution`). `InputsAccountedFor`.
* **SignVerifier** (in `ExternalInputsProofs`). `VerifierInv`: the trust set is what `VerifierFor` made of the sources, gpg's answer is one to this block. `TrustIsMeant`: a source that
  passed the same-media check shares no ancestry with the bundle by identity (`PrefixContains`), so the trust set is exactly what the operator meant. `VerdictsAreDeserved`.
* **Signing** (same module). `SigningInv`: no id in the pipes is of a call to come (`RequestOK`, `AnswerOK`), so an answer with the id of the call under way is to its message; key_info is
  asked once, before the first signature, and does not change after one that names a key. `BlocksVerify`.
* **Install.** `InstallInv` = types, `BundleInv` (what a verified manifest says of the medium, as long as nothing changed), `MachineInv` (the machine against the
  one the run found, step by step through the chunks of dpkg) and the report itself. A run that applied and is OK leaves no package half-way, except that apt is not run
  for an empty list of names: then the packages are as they were. `OnlyAttestedBytes`, `ReportsAreTrue`.
* **AptBackend** (in `InstallProofs`). `AptInv`: before the host reads an envelope, one that parses is of this run (`Fresh`: plan.json was forgotten first); what the cross-check
  established about the plan and `files[]` is still so when the files are hashed again (`CheckedPlan`); every plan and every envelope, altered ones too, has one version of a package and a
  held one at its installed version (`HeldStays`, `OneVersion`), which needs that pinned names are held and recorded ones are not. `AcceptedPlanIsHeld`, `VersionsStayLocked`.
* **Export.** The invariant says, of the marker as seen and as it would be after pulling the drive, what
  its absence vouches for; that both are present while files change; and how far the loops of
  Run and Verify have come. `UnmarkedIsWhole` is not inductive without the durable half. Its exception, an export over a marked copy that ended
  between the removal of the old marker and the creation of the new one, is a state of the invariant: no file changes in it and no copy was answered complete. `TypeCorrect`,
  `UnmarkedWhole`, `MarkedWhileChanging`, `CompleteIsExact`.
* **Volumes** (in `ExportProofs`). A finite set that is totally ordered has a sorted list: the elements are ranked by how many come before (`SortedExists`); mounts and rows are so ordered (`MountsAreOrdered`,
  `RowsAreOrdered`). In it an outer part of a filesystem comes first (`OuterFirst`), so by an invariant of the fold (`OneMoreChosen`) nothing chosen lies within another and everything lies within something chosen:
  `DrivesOnce`. It needs that roots are compared by depth before name, the order that the code's own comment argues for.
* **Catalog.** What a caller has read of the bound target and of the index in memory, against the history of bindings during its call; one holder of `loadMu`, one build.
  `NoQuietSubstitute`, `LoadsAndBuildsAreSerialised`.
* **CatalogCache.** `CacheInv` says, step by step of a save that began alone on a whole cache, what keeps a mismatch from being quiet: the pair fits, or the marker's temporary
  or the link set aside is still there; `MismatchIsNeverQuiet`, with the exception the code has: the new marker could not be put in place, nothing had
  been linked aside to go back to, and the old marker could not be removed either (`stuck`, `cache.go:1501`). `DamageInv` is about every save, alone or not: a marker that was in place has no temporary left, and an index
  neither in place nor set aside has none either, so a generation once gone never returns (`MarkerGone`, `IndexGone`, stable under every step: `Onward`). A load whose
  two looks agree on a mismatch, while the directory was at no time quietly damaged or being removed by somebody else, would have seen a generation return; `RemovalIsDeserved`. The second look is needed: the mutant that decides at once breaks it.
* **CatalogBuild** (in `CatalogProofs`). `SourcesInv`: what a group's download ended with is what its mirrors publish (`Downloaded`), in particular nothing only if every mirror
  says so (`Tries`); the merger's entries are, one per name, the stanza read last among those read so far (`MergedSoFar`), and sorting keeps them (`Matching`).
  The lemmas before it follow a source to its references and the references to their groups. `CatalogueIsTheSources`.
* **App.** `JobInv`: goroutines of one job differ in generation, one that has not ended is the current one, a running job has one, and sent events and goroutines add up to the
  generation; `NoRunIsLost`. `DraftInv`: a catalogue build that has not ended is of the chosen target (which is why `SelectTarget` must wait for it), marks,
  undo and lookup speak of the target of their generation, and a running build is of the draft as it is (which is why it keeps edits away); `DraftStaysTrue`.
* **BuildScreen, VirtualList** (in `AppProofs`). An event on its way, in the ring or in a page of the log has the number its build gave it, and what the screen counted of that build is the numbers up to
  its last, once each: `ScreenCountsEventsOnce`. A page in the list or on its way was asked of the query and version it carries: `ListShowsItsQuery`; a visible row without a page has a request, a timer or a
  render to come that asks for it: `EveryRowIsAskedFor`.
* **PickerScreen** (same module). `PickerInv` has three independent parts, for the edit lock (`LifeInv`), the catalogue's status (`StatusInv`), and the marks with the count and the tray (`SelInv`). Each says
  that the screen is right, or that an event, an unread call or a call whose answer is right will put it right. Independent parts keep the proof short: a handler is described once (`ShowLoadingIs`, `ApplyStatusIs`,
  `RenderIs`, ...) by what it leaves alone and what it puts right. The marks need most: a summary with the present revision must have been heard of before a tray page can count as its answer. `QuietPickerIsTrue`.
* **Readiness** (in `ExportProofs`). Per host the rows are a fixed set and the verdict a function of them: `VerdictFollowsTheMachine`. It names the machines on which rows and engine disagree: another runtime answers
  than the one the engine takes (`OtherRuntime`), or the engine mounts a file no row is about (`ByConfig`, or a Linux host) that does not fit (`MountFits`). If the screen's rows are not the application's, then the end of the last
  job is still to be told, rows are to come, or the first read is: `QuietScreenShowsTheChecks`.
* **EventTailer** (in `ExportProofs`). What is written is line after line, each with its end (`WrittenIsLaid`, `NextUnit`). `BuildInv` says that what was handed over is right for the units read so far (`Delivered`)
  and what the tailer keeps is the unfinished line, or says that it is already too long (`TailText`); within a chunk the same is an invariant of the fold, unit by unit (`UnitStep`, `ConsumeKeeps`). For the end it follows
  who may still move: after the tailer's last drain nothing it has not read was seen by `Wait`, and no event was refused, because the job still runs. `EventsAreTheFile`, `BuildTyped`.
* **Policy, the private root** (in `BundleBuildProofs`). An offence of a field that the document has is found by the rule of that field, and the document reaches the rules whole (`OffenceIsFound`,
  `DocumentRules`): `PolicyGoverns`. A copied keyring has the bytes of the path that named it, also where two paths share a base name (`CopyIsTheKeyring`); each level of a setting is judged with its prefix
  joined, so what passes at a level passes at all above (`FlattenOfPrefix`, `CarriedIsHarmless`): `RootIsTheSnapshots`.
* **BundleOpen** (same module). `OpenInv`: what is on the disk is the regular files among the entries read so far, and what is left of the allowance is the total less their sizes; the one that is being
  copied is there in part, and has one byte too many at most before it is refused: `OpenGivesTheArchive`.
  The lemmas about `FlattenSeq` and about sums over a finite set unfold the community modules' folds and get the recursive function from a least counterexample, where the library's induction theorems cannot be used.

**Only model-checked.** Liveness (`LockIndexReturns`, `EveryRunReports`, `BuildEnds`, `EndIsShown`, `PluginStops`): TLAPS has no rules for fairness here. `SearchIsRanked` compares
the result of a sort over scores with its order, one pure function on bounded inputs. `ScreenIsOfThisCopy` needs a history of every call and copy (`copy.first` and the
order in which calls overtake each other); `MCExport` explores all orders, those in which checks and plans overtake `StartExport` too.

## 6. Not modelled, and the plan

Parsing and rendering (snapshot capture, control files, SBOM, README, catalogue lists, base
definitions, error classes) have no state and no order to get wrong. What apt and
containers do is external. Left out of modelled parts: event forwarding from a container, image pulls, categories and details of the
picker, progress, settings, sizes and labels of drives, commands of the adapter other than `Build`, and the rejection of `BuildStatus` or `BuildLog`
on the build screen (the bound methods return no error, so only the runtime below them can fail such a call). `MaxRuns` is 1 in `EventTailer`: the tailer ends before `Build` returns.

What stays unproved, and why, is at the end of section 5.

## 7. Where the code and its words differ

Three differences have runs (section 3). Others were met while modelling and have none:

* One writer: once a lock goes stale two stealers can both enter, since the second removes the first one's *new* lock (`fsstore.go:594`; the comment at `:39` promises single-writer discipline).
* `putByMove` publishes a file nobody fsync'd (`fsstore.go:331`, against `:29`).
* An unsigned rebuild keeps the old signature file, and verify refuses it even with `--allow-unsigned` (`finalize.go:442`, `verify.go:178`, against `finalize.go:214`). `finalize.go:284` says that every error path
  before signing returns before `evidence.json` exists, but the manifest may fail after it (425–435). Verify refuses both directories.
* Inputs dropped after staging, or replaced by one of the same base name, appear in no failure list (`inputs.go:128`, `:199`, `:230-236`), where `docs/formats.md:742` has every input that did not make
  it into the bundle under `fetch_failed`. `InputsAreAccountedFor` names them as the third way (`Overtaken`).
* A repeated export removes the old marker before it creates its own (`copy.go:334-343`): if it is killed or fails in between, an unmarked half copy may stay, where `export.go:369-376` has the marker
  after every outcome but a verified copy. It is the exception in `UnmarkedIsWhole`.
* Policy: inline `approved_keys` are called equivalent to the key file (`policy/iface.go:82-83`, `engine/defaults.go:105-117`), but the check of the apt root gets the file's keys only (`engine/policy.go:24-38`):
  of inline ones only what each package claims is checked. Approved keys are checked per keyring file. A nested `APT { Solver { … } }` block is dropped where the flat spelling is carried.
* Plugin signers: the comment at `plugin.go:384` bounds a call, but the write to stdin and the read of the handshake are unbounded.
* apt: a stale `.deb` may stay in the volume `debark-archives-cache`; two local builds with held packages share a download in the working directory; a version absent from the index is silently left out; an incomplete inner result is reported as a verification failure.
* Catalogue: two writers may leave an index and a marker of one shape but different saves (`NoQuietMismatch` says when); a save that alone cannot remove the marker leaves the old one beside the new index
  (`cache.go:1501`, against "never leave a quiet mismatch" at `:1443-1448`); a load after `Close` publishes again; a slow lazy load may overwrite the index of a build.
* GUI: after `Shutdown` a failing close may clear `stopping`, and edits go on (`DraftIsTrue` holds of them); a cancelled readiness pass replaces the report with its killed probes (`bindings.go:820-824`); the container probe is OK with docker off when podman answers (`checks.go:171-174`), while the engine
  takes the first runtime on the `PATH` (`container_driver.go:74-77`); the check of the Linux binary says that it reads the config key `self_binary` (`readiness.go:502`), which `bindings.go:450-453` does not pass,
  and a Linux host mounts a named or sibling binary (`container.go:227-264`) that no row is about; a drive that is plugged in again leaves the export screen without a plan; a copy may be started twice when the screen is hidden and shown while `StartExport` is queued (`export.js:2099-2104`); a query the backend trims does not match the list's guard (`picker-list.js`).
