-------------------------------- MODULE App --------------------------------
(***************************************************************************)
(* The GUI's application object (gui/internal/app): five background jobs,  *)
(* the target, the catalogue's status, the draft (the tray of chosen        *)
(* packages with its undo) and the closing of the window.                  *)
(*                                                                         *)
(* One action is one critical section under App.mu, or one step a          *)
(* goroutine takes between two of them.  A bound method that is refused    *)
(* changes nothing, so a refusal is a stuttering step and has no action.   *)
(* A target stands for a resolved catalog.Target together with the digest  *)
(* of its snapshot file; Content says which packages its catalogue lists.  *)
(***************************************************************************)
EXTENDS Naturals, FiniteSets

CONSTANTS Kinds, Targets, AptKeys, UrlKeys, Digests, Content, None,
          Caches,     \* catalogue caches that earlier sessions may have left: sets of targets
          MaxGen,     \* bound: starts of each job
          MaxTarget,  \* bound: target generations
          MaxRev      \* bound: selection revisions

VARIABLES
  jobs,     \* job k: running, cancelled, gen
  routines, \* goroutines of the jobs: kind, gen, pc, out, the target at the start
  sent,     \* ghost: finished events sent, per job
  life,     \* stopping, closePending, closeAllowed, baseCancelled, catClosed, pc
  call,     \* the SelectTarget call in flight: pc, want, wait
  target,   \* a.target: the chosen target or None
  tgen,     \* a.targetGeneration
  cat,      \* catalogStatus: state, ready; and the catalogue: bound, disk
  sel,      \* the tray: key -> entry or None
  rev,      \* a.selectionRevision, the revision of the build inputs
  undo,     \* a.undo
  add,      \* the addEntries call in flight
  build,    \* buildState's captured revisions and the last complete build's
  made      \* ghost: target and inputs of the last complete build

jobVars   == <<jobs, routines, sent>>
draftVars == <<sel, rev, undo>>
vars == <<jobVars, life, call, target, tgen, cat, draftVars, add, build, made>>

Keys == AptKeys \cup UrlKeys
Entry == [digest : Digests \cup {None}, known : BOOLEAN]
ASSUME ConstantsAssumption ==
  None \notin Targets \cup Entry /\ AptKeys \cap UrlKeys = {} /\ Caches \subseteq SUBSET Targets

NoUndo == [token |-> 0, rev |-> 0, target |-> 0, entries |-> None]
NoCall == [pc |-> "none", want |-> None, wait |-> 0]
NoAdd  == [pc |-> "none", keys |-> {}, digest |-> None, gen |-> 0, known |-> {}]

(* What a build is made from: the keys and their pinned digests. *)
Inputs(s) == [k \in {x \in Keys : s[x] # None} |-> s[k].digest]

Count(s) == Cardinality({k \in Keys : s[k] # None})

TypeOK ==
  /\ jobs \in [Kinds -> [running : BOOLEAN, cancelled : BOOLEAN, gen : Nat]]
  /\ \A k \in Kinds : jobs[k].gen <= MaxGen[k]
  /\ routines \subseteq [kind : Kinds, gen : Nat,
                         pc : {"working", "returned", "report"},
                         out : {"ok", "failed", "cancelled"}, ct : Targets \cup {None}]
  /\ sent \in [Kinds -> Nat]
  /\ life \in [stopping : BOOLEAN, closePending : BOOLEAN, closeAllowed : BOOLEAN,
               baseCancelled : BOOLEAN, catClosed : BOOLEAN,
               pc : {"none", "confirm", "stop", "wait", "allow", "quit"}]
  /\ call \in [pc : {"none", "checked", "resolving", "waiting", "leaving"},
               want : Targets \cup {None}, wait : Nat]
  /\ target \in Targets \cup {None}
  /\ tgen \in 0..MaxTarget
  /\ cat \in [state : {"none", "not-built", "building", "ready", "failed", "cancelled"},
              ready : BOOLEAN, bound : Targets \cup {None}, disk : SUBSET Targets]
  /\ sel \in [Keys -> Entry \cup {None}]
  /\ rev \in 1..MaxRev
  /\ build \in [tgen : 0..MaxTarget, rev : 0..MaxRev, inputs : {None} \cup UNION {[K -> Digests \cup {None}] : K \in SUBSET Keys},
                completeTarget : 0..MaxTarget, completeSelection : 0..MaxRev]

Init ==
  /\ jobs = [k \in Kinds |-> [running |-> FALSE, cancelled |-> FALSE, gen |-> 0]]
  /\ routines = {}
  /\ sent = [k \in Kinds |-> 0]
  /\ life = [stopping |-> FALSE, closePending |-> FALSE, closeAllowed |-> FALSE,
             baseCancelled |-> FALSE, catClosed |-> FALSE, pc |-> "none"]
  /\ call = NoCall /\ target = None /\ tgen = 0
  /\ \E d \in Caches :
       cat = [state |-> "none", ready |-> FALSE, bound |-> None, disk |-> d]
  /\ sel = [k \in Keys |-> None] /\ rev = 1 /\ undo = NoUndo
  /\ add = NoAdd
  /\ build = [tgen |-> 0, rev |-> 0, inputs |-> None, completeTarget |-> 0, completeSelection |-> 0]
  /\ made = None

-----------------------------------------------------------------------------
(* Jobs.                                                                   *)

Running(k) == k \in Kinds /\ jobs[k].running

\* Mutant of JobStart: a start does not move the generation.
JobStartSameGen(k) ==
  /\ jobs[k].gen < MaxGen[k]
  /\ jobs' = [jobs EXCEPT ![k] = [running |-> TRUE, cancelled |-> life.baseCancelled,
                                  gen |-> @.gen]]
  /\ routines' = routines \cup
       {[kind |-> k, gen |-> jobs[k].gen, pc |-> "working", out |-> "ok", ct |-> target]}
  /\ UNCHANGED sent

(* job.start: a context under baseCtx, the next generation, a goroutine. *)
JobStart(k) ==
  /\ jobs[k].gen < MaxGen[k]
  /\ jobs' = [jobs EXCEPT ![k] = [running |-> TRUE, cancelled |-> life.baseCancelled,
                                  gen |-> @.gen + 1]]
  /\ routines' = routines \cup
       {[kind |-> k, gen |-> jobs[k].gen + 1, pc |-> "working", out |-> "ok", ct |-> target]}
  /\ UNCHANGED sent

(* job.stop on a set of jobs: cancels the contexts of the ones that run. *)
JobStop(K) == [k \in Kinds |-> [jobs[k] EXCEPT !.cancelled = @ \/ (k \in K /\ jobs[k].running)]]

(* job.finish: only the goroutine of the current generation may finish it. *)
Current(r) == jobs[r.kind].gen = r.gen /\ jobs[r.kind].running

JobsStopped == (\A k \in Kinds : ~jobs[k].running) /\ call.pc = "none"

(* mutationErrorLocked: no edits while closing, building or copying. *)
Closing == life.stopping \/ life.closePending
MutationError == Closing \/ Running("build") \/ Running("export")

(* The work returns.  A run whose context was cancelled counts as cancelled   *)
(* whatever the work answered; a catalogue build that succeeds has published  *)
(* its cache by then even if it is then called cancelled.                     *)
Return(r) ==
  /\ r.pc = "working"
  /\ \E ok \in BOOLEAN :
       /\ r.kind \in {"catalog", "build"} \/ ok   \* the others' failures change no state here
       /\ ok => ~(r.kind = "catalog" /\ life.catClosed)
       /\ routines' = (routines \ {r}) \cup
            {[r EXCEPT !.pc = "returned",
                       !.out = IF jobs[r.kind].cancelled THEN "cancelled"
                               ELSE IF ok THEN "ok" ELSE "failed"]}
       /\ cat' = IF r.kind = "catalog" /\ ok
                 THEN [cat EXCEPT !.disk = @ \cup {r.ct}] ELSE cat
  /\ UNCHANGED <<jobs, sent, life, call, target, tgen, draftVars, add, build, made>>

(* revalidateSelectionLocked: re-mark the apt entries against the catalogue; *)
(* a lookup that fails leaves them unknown.                                  *)
Revalidated(ready, bound, lookup) ==
  [k \in Keys |-> IF sel[k] # None /\ k \in AptKeys
                  THEN [sel[k] EXCEPT !.known = ready /\ lookup /\ k \in Content[bound]]
                  ELSE sel[k]]

CatalogFinished(r) ==
  /\ cat' = [cat EXCEPT !.ready = @ \/ r.out = "ok",
                        !.state = IF r.out = "ok" THEN "ready" ELSE r.out]
  /\ \E lookup \in BOOLEAN :
       sel' = Revalidated(cat'.ready, cat.bound, lookup /\ r.out # "cancelled")
  /\ UNCHANGED <<build, made>>

(* Only a build that succeeded, was not cancelled and left a whole bundle  *)
(* marks the draft as saved, for the revisions captured when it started.   *)
BuildFinished(r) ==
  /\ \E whole \in BOOLEAN :   \* bundle path, exit class success, nothing unresolved
       IF r.out = "ok" /\ whole
       THEN /\ build' = [build EXCEPT !.completeTarget = build.tgen,
                                      !.completeSelection = build.rev]
            /\ made' = [target |-> r.ct, inputs |-> build.inputs]
       ELSE UNCHANGED <<build, made>>
  /\ UNCHANGED <<cat, sel>>

(* The goroutine takes the lock and ends its run; a stale one goes away silently. *)
Finish(r) ==
  /\ r.pc = "returned"
  /\ IF Current(r)
     THEN /\ jobs' = [jobs EXCEPT ![r.kind] = [@ EXCEPT !.running = FALSE, !.cancelled = FALSE]]
          /\ routines' = (routines \ {r}) \cup {[r EXCEPT !.pc = "report"]}
          /\ CASE r.kind = "catalog" -> CatalogFinished(r)
               [] r.kind = "build" -> BuildFinished(r)
               [] OTHER -> UNCHANGED <<cat, sel, build, made>>
     ELSE /\ routines' = routines \ {r}
          /\ UNCHANGED <<jobs, cat, sel, build, made>>
  /\ UNCHANGED <<sent, life, call, target, tgen, rev, undo, add>>

\* Mutant of Report: a cancelled run ends without an event.
ReportUnlessCancelled(r) ==
  /\ r.pc = "report"
  /\ routines' = routines \ {r}
  /\ sent' = [sent EXCEPT ![r.kind] = IF r.out = "cancelled" THEN @ ELSE @ + 1]
  /\ UNCHANGED <<jobs, life, call, target, tgen, cat, draftVars, add, build, made>>

(* After the unlock: the finished event. *)
Report(r) ==
  /\ r.pc = "report"
  /\ routines' = routines \ {r}
  /\ sent' = [sent EXCEPT ![r.kind] = @ + 1]
  /\ UNCHANGED <<jobs, life, call, target, tgen, cat, draftVars, add, build, made>>

-----------------------------------------------------------------------------
(* Starting and cancelling.                                                *)

(* StartReadinessCheck, RecheckReadiness and StartVerify only look, and are    *)
(* refused only by a close; RunReadinessAction, which may change the machine,  *)
(* and StartExport are refused by every mutation guard.                        *)
StartSideJob(k) ==
  /\ ~Running(k)
  /\ IF k = "export" THEN ~MutationError ELSE ~Closing
  /\ JobStart(k)
  /\ UNCHANGED <<life, call, target, tgen, cat, draftVars, add, build, made>>

(* StartCatalogBuild: a ready catalogue is rebuilt only when forced. *)
StartCatalogBuild(force) ==
  /\ "catalog" \in Kinds /\ ~MutationError
  /\ call.pc = "none" /\ ~Running("catalog") /\ target # None
  /\ cat.ready => force
  /\ JobStart("catalog")
  /\ cat' = [cat EXCEPT !.state = "building", !.ready = FALSE]
  /\ UNCHANGED <<life, call, target, tgen, draftVars, add, build, made>>

(* buildSpecLocked: a target and at least one entry; the folder is asked for *)
(* on the screen.                                                            *)
BuildSpecValid == target # None /\ Count(sel) > 0

(* StartBuild: captures the revisions it builds. *)
StartBuild ==
  /\ "build" \in Kinds /\ ~MutationError /\ ~Running("catalog")
  /\ BuildSpecValid
  /\ JobStart("build")
  /\ build' = [build EXCEPT !.tgen = tgen, !.rev = rev, !.inputs = Inputs(sel)]
  /\ UNCHANGED <<life, call, target, tgen, cat, draftVars, add, made>>

(* CancelReadinessCheck, CancelCatalogBuild, CancelBuild, CancelExport, CancelVerify. *)
Cancel(k) ==
  /\ jobs[k].running /\ ~jobs[k].cancelled
  /\ jobs' = JobStop({k})
  /\ UNCHANGED <<routines, sent, life, call, target, tgen, cat, draftVars, add, build, made>>

-----------------------------------------------------------------------------
(* The target.                                                             *)

(* SelectTarget, first lock: one call at a time. *)
SelectTargetBegin(t) ==
  /\ call.pc = "none" /\ ~MutationError /\ tgen < MaxTarget
  /\ call' = [pc |-> "checked", want |-> t, wait |-> 0]
  /\ UNCHANGED <<jobVars, life, target, tgen, cat, draftVars, add, build, made>>

(* Every return of SelectTarget runs its deferred function, and every step of *)
(* it may be the last: a bad request, a guard, a target that does not resolve  *)
(* or has not changed, its context (60 s, cancelled by a close), or the end.   *)
SelectTargetReturn ==
  /\ call.pc # "none"
  /\ call' = NoCall
  /\ UNCHANGED <<jobVars, life, target, tgen, cat, draftVars, add, build, made>>

(* Second lock: publish the cancel function, then resolve without the lock. *)
SelectTargetArm ==
  /\ call.pc = "checked" /\ ~MutationError
  /\ call' = [call EXCEPT !.pc = "resolving"]
  /\ UNCHANGED <<jobVars, life, target, tgen, cat, draftVars, add, build, made>>

(* Third lock: a changed target stops the catalogue build of the old one. *)
SelectTargetStopCatalog ==
  /\ call.pc = "resolving" /\ ~MutationError /\ target # call.want
  /\ jobs' = JobStop({"catalog"})
  /\ call' = [call EXCEPT !.pc = "waiting",
                          !.wait = IF Running("catalog") THEN jobs["catalog"].gen ELSE 0]
  /\ UNCHANGED <<routines, sent, life, target, tgen, cat, draftVars, add, build, made>>

(* The old build has closed its done channel. *)
CatalogDone == ~(Running("catalog") /\ jobs["catalog"].gen = call.wait)

(* Fourth lock: Ready binds the catalogue to the new target, the status and  *)
(* the draft follow it, and the undo of the old target is forgotten.         *)
SelectTargetCommit ==
  /\ call.pc = "waiting" /\ CatalogDone /\ ~MutationError
  /\ LET t == call.want
         ready == ~life.catClosed /\ t \in cat.disk
     IN /\ target' = t
        /\ cat' = [cat EXCEPT !.bound = IF life.catClosed THEN @ ELSE t, !.ready = ready,
                              !.state = IF ready THEN "ready" ELSE "not-built"]
        /\ \E lookup \in BOOLEAN : sel' = Revalidated(ready, t, lookup)
  /\ tgen' = tgen + 1
  /\ undo' = NoUndo
  /\ call' = [call EXCEPT !.pc = "leaving"]
  /\ UNCHANGED <<jobVars, life, rev, add, build, made>>

ClearTarget ==
  /\ ~MutationError /\ call.pc = "none" /\ ~Running("catalog") /\ tgen < MaxTarget
  /\ tgen' = tgen + 1 /\ target' = None /\ undo' = NoUndo
  /\ cat' = [cat EXCEPT !.state = "none", !.ready = FALSE]
  /\ sel' = Revalidated(FALSE, None, FALSE)
  /\ UNCHANGED <<jobVars, life, call, rev, add, build, made>>

-----------------------------------------------------------------------------
(* The draft.                                                              *)

(* Every change of the build inputs moves the revision. *)
NewDraft(s) == rev < MaxRev /\ sel' = s /\ rev' = rev + 1

(* addEntries, first: the guard and the target generation. *)
AddBegin(K, d) ==
  /\ add.pc = "none" /\ ~MutationError
  /\ add' = [pc |-> "lookup", keys |-> K, digest |-> d, gen |-> tgen, known |-> {}]
  /\ UNCHANGED <<jobVars, life, call, target, tgen, cat, draftVars, build, made>>

(* Enrich from the catalogue without the lock; the first failing lookup ends it. *)
AddLookup ==
  /\ add.pc = "lookup"
  /\ \E found \in SUBSET (IF cat.ready /\ cat.bound # None
                          THEN add.keys \cap AptKeys \cap Content[cat.bound] ELSE {}) :
       add' = [add EXCEPT !.pc = "commit", !.known = found]
  /\ UNCHANGED <<jobVars, life, call, target, tgen, cat, draftVars, build, made>>

(* A re-added URL keeps its pinned digest unless it brings one. *)
AddedEntry(k) ==
  [digest |-> IF k \notin UrlKeys THEN None
              ELSE IF add.digest = None /\ sel[k] # None THEN sel[k].digest ELSE add.digest,
   known |-> k \in UrlKeys \/ k \in add.known]

\* Mutant of AddCommit: the target may have changed since the lookup.
AddCommitStale ==
  /\ add.pc = "commit"
  /\ IF MutationError
     THEN UNCHANGED draftVars
     ELSE LET s == [k \in Keys |-> IF k \in add.keys THEN AddedEntry(k) ELSE sel[k]]
          IN /\ undo' = NoUndo
             /\ IF Inputs(s) # Inputs(sel) THEN NewDraft(s) ELSE sel' = s /\ UNCHANGED rev
  /\ add' = NoAdd
  /\ UNCHANGED <<jobVars, life, call, target, tgen, cat, build, made>>

(* Then, under the lock, the guard again and the generation. *)
AddCommit ==
  /\ add.pc = "commit"
  /\ IF MutationError \/ add.gen # tgen
     THEN UNCHANGED draftVars
     ELSE LET s == [k \in Keys |-> IF k \in add.keys THEN AddedEntry(k) ELSE sel[k]]
          IN /\ undo' = NoUndo
             /\ IF Inputs(s) # Inputs(sel) THEN NewDraft(s) ELSE sel' = s /\ UNCHANGED rev
  /\ add' = NoAdd
  /\ UNCHANGED <<jobVars, life, call, target, tgen, cat, build, made>>

(* saveUndoLocked: what to restore, valid for this revision and target. *)
SaveUndo == undo' = [token |-> rev + 1, rev |-> rev + 1, target |-> tgen, entries |-> sel]

RemovePackages(K) ==
  LET gone == {k \in K : sel[k] # None}
  IN /\ ~MutationError /\ gone # {}
     /\ NewDraft([k \in Keys |-> IF k \in gone THEN None ELSE sel[k]])
     /\ SaveUndo
     /\ UNCHANGED <<jobVars, life, call, target, tgen, cat, add, build, made>>

ClearSelection ==
  /\ ~MutationError /\ Count(sel) > 0
  /\ NewDraft([k \in Keys |-> None]) /\ SaveUndo
  /\ UNCHANGED <<jobVars, life, call, target, tgen, cat, add, build, made>>

(* UndoSelection: only the most recent removal, and only while nothing else *)
(* has changed the draft or the target.                                     *)
UndoAllowed(token) ==
  token # 0 /\ token = undo.token /\ undo.rev = rev /\ undo.target = tgen

UndoSelection(token) ==
  /\ ~MutationError /\ UndoAllowed(token)
  /\ NewDraft(undo.entries)
  /\ undo' = NoUndo
  /\ UNCHANGED <<jobVars, life, call, target, tgen, cat, add, build, made>>

(* lifecycleLocked.UnsavedSelection *)
UnsavedSelection ==
  Count(sel) > 0 /\ (build.completeTarget # tgen \/ build.completeSelection # rev)

-----------------------------------------------------------------------------
(* Closing the window.                                                     *)

lifeOnly == <<routines, sent, target, tgen, cat, draftVars, add, build, made>>

(* BeforeClose (RequestClose): asks first if there is something to lose. *)
BeforeClose ==
  /\ ~life.closeAllowed /\ ~life.closePending
  /\ life' = [life EXCEPT !.closePending = TRUE,
                !.pc = IF Running("build") \/ Running("export") \/ UnsavedSelection
                       THEN "confirm" ELSE "stop"]
  /\ UNCHANGED <<jobs, call, lifeOnly>>

(* nativeConfirmClose says yes, no, or fails. *)
Confirm ==
  /\ life.pc = "confirm"
  /\ \/ life' = [life EXCEPT !.pc = "stop"]
     \/ life' = [life EXCEPT !.pc = "none", !.closePending = FALSE]
  /\ UNCHANGED <<jobs, call, lifeOnly>>

(* closeFailed: the dialog failed, or the work did not stop within closeTimeout. *)
CloseFailed ==
  /\ life.pc = "confirm" \/ (life.pc = "wait" /\ ~JobsStopped)
  /\ life' = [life EXCEPT !.pc = "none", !.stopping = FALSE, !.closePending = FALSE,
                          !.closeAllowed = FALSE]
  /\ UNCHANGED <<jobs, call, lifeOnly>>

(* stopJobsLocked *)
StopAll == jobs' = JobStop(Kinds)

CloseStop ==
  /\ life.pc = "stop"
  /\ life' = [life EXCEPT !.pc = "wait", !.stopping = TRUE]
  /\ StopAll
  /\ UNCHANGED <<call, lifeOnly>>

(* The tick sees that everything stopped; then, under the lock, quit is allowed. *)
CloseTick ==
  /\ life.pc = "wait" /\ JobsStopped
  /\ life' = [life EXCEPT !.pc = "allow"]
  /\ UNCHANGED <<jobs, call, lifeOnly>>

CloseAllow ==
  /\ life.pc = "allow"
  /\ life' = [life EXCEPT !.pc = "quit", !.closeAllowed = TRUE]
  /\ UNCHANGED <<jobs, call, lifeOnly>>

(* Shutdown, once, by the quit or by the end of the session. *)
Shutdown ==
  /\ ~life.baseCancelled
  /\ life' = [life EXCEPT !.stopping = TRUE, !.baseCancelled = TRUE]
  /\ StopAll
  /\ UNCHANGED <<call, lifeOnly>>

(* Its cleanup closes the catalogue when every job has stopped. *)
CloseCatalog ==
  /\ life.baseCancelled /\ ~life.catClosed /\ JobsStopped
  /\ life' = [life EXCEPT !.catClosed = TRUE]
  /\ UNCHANGED <<jobs, call, lifeOnly>>

-----------------------------------------------------------------------------
Routine == \E r \in routines : Return(r) \/ Finish(r) \/ Report(r)

TargetStep == SelectTargetReturn \/ SelectTargetArm \/ SelectTargetStopCatalog \/ SelectTargetCommit

CloseStep == CloseStop \/ CloseTick \/ CloseAllow \/ CloseCatalog

Next ==
  \/ Routine
  \/ \E k \in Kinds \cap {"readiness", "verify", "export"} : StartSideJob(k)
  \/ StartBuild
  \/ \E force \in BOOLEAN : StartCatalogBuild(force)
  \/ \E k \in Kinds : Cancel(k)
  \/ \E t \in Targets : SelectTargetBegin(t)
  \/ TargetStep
  \/ ClearTarget
  \/ \E K \in (SUBSET AptKeys) \ {{}} : AddBegin(K, None)            \* AddPackages, AddPackageList
  \/ \E K \in (SUBSET UrlKeys) \ {{}}, d \in Digests \cup {None} : AddBegin(K, d)  \* AddURLs
  \/ AddLookup \/ AddCommit
  \/ \E K \in SUBSET Keys : RemovePackages(K)
  \/ ClearSelection
  \/ \E token \in 1..MaxRev : UndoSelection(token)
  \/ BeforeClose \/ Confirm \/ CloseFailed \/ CloseStep
  \/ Shutdown

(* Goroutines run on, and the work of a job returns: the CLI adapter and the *)
(* exporter answer a cancelled context, and their own deadlines bound the    *)
(* rest.  Users and dialogs owe nothing.                                     *)
Fairness == /\ \A k \in Kinds : WF_vars(\E r \in routines : r.kind = k /\
                                   (Return(r) \/ Finish(r) \/ Report(r)))
            /\ WF_vars(TargetStep) /\ WF_vars(AddLookup \/ AddCommit)

Spec == Init /\ [][Next]_vars /\ Fairness

-----------------------------------------------------------------------------
(* Properties.                                                             *)

(* The job table never loses a run: every run started so far has either sent  *)
(* its finished event or still has its goroutine, and a goroutine that has not *)
(* ended its run is the current generation of a running job, so no result is  *)
(* dropped as stale and none is reported twice.  From the tick that saw       *)
(* everything stopped until the window is gone no job and no target change is *)
(* under way (job.start, job.finish, runClose).                               *)
RunsAccountedFor ==
  /\ \A k \in Kinds :
       LET mine == {r \in routines : r.kind = k}
       IN /\ sent[k] + Cardinality(mine) = jobs[k].gen
          /\ \A r \in mine : r.pc = "report" \/ Current(r)
          /\ jobs[k].running => \E r \in mine : r.pc # "report"
  /\ life.pc \in {"allow", "quit"} => (\A k \in Kinds : ~jobs[k].running) /\ call.pc = "none"

(* What the application says of the draft is true, across target changes,     *)
(* rebuilds, cancellations and lookups that end late: a catalogue that is     *)
(* ready is bound to the chosen target and has a cache for it; a package      *)
(* marked as known is one that the chosen target lists; and the close dialog  *)
(* is skipped only if a complete bundle was built from exactly these          *)
(* packages, digests and target (SelectTarget, addEntries, lifecycleLocked).  *)
DraftIsTrue ==
  /\ cat.ready => target # None /\ cat.bound = target /\ target \in cat.disk
  /\ \A k \in AptKeys : sel[k] # None /\ sel[k].known => target # None /\ k \in Content[target]
  /\ Count(sel) > 0 /\ ~UnsavedSelection => made = [target |-> target, inputs |-> Inputs(sel)]

(* Every started run sends its finished event, also when it was cancelled or *)
(* failed, and a request for a target ends.                                  *)
EveryRunReports ==
  /\ \A k \in Kinds : \A g \in 1..MaxGen[k] : jobs[k].gen = g ~> sent[k] >= g
  /\ call.pc # "none" ~> call.pc = "none"
=============================================================================
