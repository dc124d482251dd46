------------------------------ MODULE Catalog ------------------------------
(***************************************************************************)
(* The catalogue in memory (gui/internal/catalog/catalog.go): which target *)
(* it is bound to, which cache it has loaded, and the calls that bind,     *)
(* query, build and close it at the same time.  c.mu protects the fields   *)
(* and is held for single steps; loadMu serialises the loads of queries,   *)
(* but not that of a build.                                                *)
(*                                                                         *)
(* The caches on disk are an index of a generation per target; how one is  *)
(* saved and loaded is CatalogCache's subject, what a build puts in it     *)
(* CatalogBuild's.                                                         *)
(***************************************************************************)
EXTENDS Naturals, FiniteSets

CONSTANTS Targets, Callers, NoTarget,
          MaxCalls,      \* bound: calls made
          MaxIndex       \* bound: caches saved

ASSUME NoTargetAssumption == NoTarget \notin Targets \cup Callers

VARIABLES
  cat,    \* bound, loaded, closed, building, loadMu, info
  disk,   \* per target: the generation of its cache, 0 for none
  saved,  \* caches saved so far
  call,   \* per caller: the call under way
  calls   \* calls made so far

mvars == <<cat, disk, saved, call, calls>>

NoIndex == [key |-> NoTarget, gen |-> 0]
NoCall == [op |-> "none", pc |-> "idle", t |-> NoTarget, gen |-> 0, seen |-> {}, answer |-> NoIndex, result |-> "none"]

Index == [key : Targets \cup {NoTarget}, gen : 0..MaxIndex]

MemTypeOK ==
  /\ cat.bound \in Targets \cup {NoTarget} /\ cat.loaded \in Index /\ cat.info \in Index
  /\ {cat.closed, cat.building} \subseteq BOOLEAN /\ cat.loadMu \in Callers \cup {NoTarget}
  /\ disk \in [Targets -> 0..MaxIndex]
  /\ \A c \in Callers : call[c].t \in Targets \cup {NoTarget} /\ call[c].answer \in Index

MemInit ==
  /\ cat = [bound |-> NoTarget, loaded |-> NoIndex, closed |-> FALSE, building |-> FALSE,
            loadMu |-> NoTarget, info |-> NoIndex]
  /\ disk \in [Targets -> {0, 1}]
  /\ saved = 1
  /\ call = [c \in Callers |-> NoCall]
  /\ calls = 0

At(c, op, pc) == call[c].op = op /\ call[c].pc = pc
Return(c, result) == [call EXCEPT ![c] = [NoCall EXCEPT !.op = call[c].op, !.result = result]]
Begin(c, op, t, pc) == [call EXCEPT ![c] = [NoCall EXCEPT !.op = op, !.pc = pc, !.t = t, !.seen = {cat.bound}]]

(* history: the targets bound while a call ran *)
Bound(cs, t) == [c \in Callers |-> IF cs[c].pc # "idle" THEN [cs[c] EXCEPT !.seen = @ \cup {t}] ELSE cs[c]]

Start(c) == call[c].pc = "idle" /\ calls < MaxCalls /\ calls' = calls + 1

-----------------------------------------------------------------------------
(* Ready: bind the target, read its marker, record what it says.            *)

ReadyBind(c, t) ==
  /\ Start(c) /\ ~cat.closed
  /\ cat' = [cat EXCEPT !.bound = t]
  /\ call' = Bound(Begin(c, "ready", t, "meta"), t)
  /\ UNCHANGED <<disk, saved>>

ReadyMeta(c) ==
  /\ At(c, "ready", "meta")
  /\ call' = [call EXCEPT ![c].gen = disk[call[c].t], ![c].pc = "record"]
  /\ UNCHANGED <<cat, disk, saved, calls>>

ReadyRecord(c) ==
  /\ At(c, "ready", "record")
  /\ cat' = [cat EXCEPT !.info = IF call[c].gen = 0 THEN NoIndex ELSE [key |-> call[c].t, gen |-> call[c].gen]]
  /\ call' = Return(c, IF call[c].gen = 0 THEN "notbuilt" ELSE "ok")
  /\ UNCHANGED <<disk, saved, calls>>

-----------------------------------------------------------------------------
(* load: read the cache, then publish its index and what is known of it.    *)

Unlocked(c) == IF cat.loadMu = c THEN NoTarget ELSE cat.loadMu
Building(c) == IF call[c].op = "build" THEN FALSE ELSE cat.building

LoadRead(c) ==
  /\ call[c].pc = "load"
  /\ IF disk[call[c].t] = 0
     THEN /\ call' = Return(c, "notbuilt")
          /\ cat' = [cat EXCEPT !.loadMu = Unlocked(c), !.building = Building(c)]
     ELSE /\ call' = [call EXCEPT ![c].gen = disk[call[c].t], ![c].pc = "publish"]
          /\ UNCHANGED cat
  /\ UNCHANGED <<disk, saved, calls>>

LoadPublish(c) ==
  /\ call[c].pc = "publish"
  /\ LET ix == [key |-> call[c].t, gen |-> call[c].gen]
     IN cat' = [cat EXCEPT !.loaded = ix, !.info = ix]
  /\ call' = [call EXCEPT ![c].pc = "loaded"]
  /\ UNCHANGED <<disk, saved, calls>>

(* LoadTarget binds the target only once it is loaded. *)
LoadTarget(c, t) ==
  /\ Start(c) /\ ~cat.closed
  /\ call' = Begin(c, "loadtarget", t, "load")
  /\ UNCHANGED <<cat, disk, saved>>

LoadTargetBind(c) ==
  /\ At(c, "loadtarget", "loaded")
  /\ cat' = [cat EXCEPT !.bound = call[c].t]
  /\ call' = Bound(Return(c, "ok"), call[c].t)
  /\ UNCHANGED <<disk, saved, calls>>

-----------------------------------------------------------------------------
(* ensureLoaded, as Search, Categories and Get call it.                     *)

Serve(cs, c, ix) ==
  [cs EXCEPT ![c] = [NoCall EXCEPT !.op = "query", !.result = "ok", !.seen = cs[c].seen, !.answer = ix]]

(* The fields are read together; the index is the answer if it is the bound    *)
(* target's, or if no target was ever bound.                                   *)
QueryBegin(c) ==
  /\ Start(c)
  /\ LET mine == Begin(c, "query", cat.bound, "wait")
         none(result) == [call EXCEPT ![c] = [NoCall EXCEPT !.op = "query", !.result = result]]
     IN call' = IF cat.closed THEN none("closed")
                ELSE IF cat.loaded # NoIndex /\ cat.bound \in {NoTarget, cat.loaded.key}
                THEN Serve(mine, c, cat.loaded)
                ELSE IF cat.bound = NoTarget THEN none("notbuilt")
                ELSE mine
  /\ UNCHANGED <<cat, disk, saved>>

\* Mutant of QueryLock: any index that is there by then will do.
QueryLockAny(c) ==
  /\ At(c, "query", "wait") /\ cat.loadMu = NoTarget
  /\ IF cat.closed THEN call' = Return(c, "closed") /\ UNCHANGED cat
     ELSE IF cat.loaded # NoIndex
     THEN call' = Serve(call, c, cat.loaded) /\ UNCHANGED cat
     ELSE call' = [call EXCEPT ![c].pc = "load"] /\ cat' = [cat EXCEPT !.loadMu = c]
  /\ UNCHANGED <<disk, saved, calls>>

(* One load at a time: whoever waited may find the index there. *)
QueryLock(c) ==
  /\ At(c, "query", "wait") /\ cat.loadMu = NoTarget
  /\ IF cat.closed THEN call' = Return(c, "closed") /\ UNCHANGED cat
     ELSE IF cat.loaded # NoIndex /\ cat.loaded.key = call[c].t
     THEN call' = Serve(call, c, cat.loaded) /\ UNCHANGED cat
     ELSE call' = [call EXCEPT ![c].pc = "load"] /\ cat' = [cat EXCEPT !.loadMu = c]
  /\ UNCHANGED <<disk, saved, calls>>

(* The answer is the index this call loaded, whatever was published since. *)
QueryCheck(c) ==
  /\ At(c, "query", "loaded")
  /\ cat' = [cat EXCEPT !.loadMu = NoTarget]
  /\ call' = IF cat.closed THEN Return(c, "closed")
             ELSE Serve(call, c, [key |-> call[c].t, gen |-> call[c].gen])
  /\ UNCHANGED <<disk, saved, calls>>

-----------------------------------------------------------------------------
(* Build: one at a time; fetch, save, and load what was saved.              *)

BuildBegin(c, t) ==
  /\ Start(c) /\ ~cat.closed
  /\ IF cat.building THEN call' = Return(c, "inprogress") /\ UNCHANGED cat
     ELSE call' = Begin(c, "build", t, "fetch") /\ cat' = [cat EXCEPT !.building = TRUE]
  /\ UNCHANGED <<disk, saved>>

(* The indexes are fetched and read, or the build fails or is cancelled. *)
BuildFetch(c) ==
  /\ At(c, "build", "fetch")
  /\ \/ call' = [call EXCEPT ![c].pc = "save"] /\ UNCHANGED cat
     \/ call' = Return(c, "failed") /\ cat' = [cat EXCEPT !.building = FALSE]
  /\ UNCHANGED <<disk, saved, calls>>

(* SaveCache commits, or fails: a file that could not be replaced among others. *)
SaveOutcome(result) == IF result = "saved" THEN "load" ELSE "idle"

BuildSave(c) ==
  /\ At(c, "build", "save")
  /\ \E result \in {"saved", "notreplaced", "failed"} :
       /\ result = "saved" => saved < MaxIndex
       /\ call' = IF SaveOutcome(result) = "idle" THEN Return(c, result)
                  ELSE [call EXCEPT ![c].pc = SaveOutcome(result)]
       /\ cat' = [cat EXCEPT !.building = SaveOutcome(result) # "idle"]
       /\ disk' = IF result = "saved" THEN [disk EXCEPT ![call[c].t] = saved + 1] ELSE disk
       /\ saved' = IF result = "saved" THEN saved + 1 ELSE saved
  /\ UNCHANGED calls

BuildReturn(c) ==
  /\ At(c, "build", "loaded")
  /\ cat' = [cat EXCEPT !.building = FALSE]
  /\ call' = Return(c, "ok")
  /\ UNCHANGED <<disk, saved, calls>>

(* Close *)
CloseCatalog ==
  /\ ~cat.closed
  /\ cat' = [cat EXCEPT !.closed = TRUE, !.loaded = NoIndex]
  /\ UNCHANGED <<disk, saved, call, calls>>

(* Another process saves or removes the cache of a target. *)
OtherProcess ==
  /\ \E t \in Targets : \/ disk[t] # 0 /\ disk' = [disk EXCEPT ![t] = 0] /\ UNCHANGED saved
                        \/ saved < MaxIndex /\ disk' = [disk EXCEPT ![t] = saved + 1] /\ saved' = saved + 1
  /\ UNCHANGED <<cat, call, calls>>

-----------------------------------------------------------------------------
MemNext ==
  \/ \E c \in Callers :
       \/ \E t \in Targets : ReadyBind(c, t) \/ LoadTarget(c, t) \/ BuildBegin(c, t)
       \/ ReadyMeta(c) \/ ReadyRecord(c) \/ LoadRead(c) \/ LoadPublish(c) \/ LoadTargetBind(c)
       \/ QueryBegin(c) \/ QueryLock(c) \/ QueryCheck(c) \/ BuildFetch(c) \/ BuildSave(c) \/ BuildReturn(c)
  \/ CloseCatalog \/ OtherProcess

MemSpec == MemInit /\ [][MemNext]_mvars

-----------------------------------------------------------------------------
(* Properties.                                                             *)

(* A query is answered from the cache of a target that was the bound one at   *)
(* some time during the call, whatever binds, builds and loads overlap it:    *)
(* "it never quietly serves a different one" (Ready, ensureLoaded).           *)
ServedTargetWasBound ==
  \A c \in Callers : call[c].answer # NoIndex => \/ call[c].answer.key \in call[c].seen
                                                 \/ NoTarget \in call[c].seen

=============================================================================
