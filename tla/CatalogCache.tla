---------------------------- MODULE CatalogCache ----------------------------
(***************************************************************************)
(* One cache directory of the catalogue (gui/internal/catalog/cache.go),   *)
(* shared by processes that know nothing of each other: saves replace      *)
(* catalog.bin and then meta.json, loads read both and remove a directory  *)
(* they find damaged, sweeps collect what was left behind.  There is no    *)
(* lock: renames are atomic, and any of them may fail (a reader holds the  *)
(* file open on Windows) or find its source removed.  A directory is        *)
(* removed file by file, in any order, and what cannot be removed stays.    *)
(*                                                                         *)
(* A generation is what one save wrote: its index, and a marker that says  *)
(* how many entries and bytes the index has.  Two generations differ in    *)
(* these, so a marker fits an index iff both are of one generation, and a  *)
(* generation also stands for the index's stamp (size and time).           *)
(***************************************************************************)
EXTENDS Naturals, FiniteSets, Sequences

CONSTANTS Writers,      \* processes that save
          Readers,      \* processes that load
          Attempts,     \* cacheCommitAttempts
          MaxGen,       \* bound: generations ever written
          MaxLoads,     \* bound: loads of one reader
          Foreign       \* generations in another format version

(* What this program writes is of its own version: the foreign caches are      *)
(* among those it may find when it starts.                                     *)
ASSUME CacheAssumption == Attempts \in Nat /\ Foreign \subseteq 1..3

NoGen == 0
Gens == 1..MaxGen

VARIABLES
  dir,     \* catalog.bin, meta.json and the temporary files beside them
  last,    \* the last generation written
  save,    \* per writer: SaveCache
  look,    \* per reader: LoadCacheDir
  sweeping, \* a sweep is removing the directory
  quiet    \* history, per reader: at some time during this load the directory was
           \* damaged with no sign of a writer, or a removal took a file of it

cvars == <<dir, last, save, look, sweeping, quiet>>

NoSave == [pc |-> "idle", gen |-> NoGen, link |-> NoGen, tries |-> 0, clean |-> FALSE]
NoVerdict == [marker |-> NoGen, index |-> NoGen, failure |-> <<>>]
NoLook == [pc |-> "idle", before |-> NoGen, marker |-> NoGen, failure |-> <<>>, after |-> NoGen,
           moved |-> FALSE, previous |-> NoVerdict, repeatable |-> FALSE, result |-> "none", loads |-> 0]

Temp(kind, w, gen) == [kind |-> kind, owner |-> w, gen |-> gen]
Temps == [kind : {"bin", "meta", "link"}, owner : Writers, gen : Gens]

CacheTypeOK ==
  /\ dir.bin \in 0..MaxGen /\ dir.meta \in 0..MaxGen /\ dir.temps \subseteq Temps
  /\ last \in 0..MaxGen
  /\ \A w \in Writers : save[w].gen \in 0..MaxGen /\ save[w].link \in 0..MaxGen
  /\ quiet \in [Readers -> BOOLEAN] /\ sweeping \in BOOLEAN

(* What a directory can hold when nobody is at work: nothing, a cache, or that  *)
(* of another format version.                                                   *)
CacheInit ==
  /\ dir \in {[bin |-> g, meta |-> g, temps |-> {}] : g \in {NoGen, 1, 3}}
  /\ last = 3
  /\ save = [w \in Writers |-> NoSave]
  /\ look = [r \in Readers |-> NoLook] /\ sweeping = FALSE
  /\ quiet = [r \in Readers |-> FALSE]

(* The pair a load may call damage: the marker does not fit the index. *)
Fits(bin, meta) == bin = meta /\ meta \notin Foreign
Damaged(d) == d.meta # NoGen /\ ~Fits(d.bin, d.meta) /\ d.temps = {}

Put(d) ==
  /\ dir' = d
  /\ quiet' = [r \in Readers |-> quiet[r] \/ (look[r].pc # "idle" /\ Damaged(d))]

-----------------------------------------------------------------------------
(* SaveCache.                                                              *)

(* The temporaries of the save under way; a killed one's stay beside them. *)
Mine(kind, w) == Temp(kind, w, IF kind = "link" THEN save[w].link ELSE save[w].gen)
Has(kind, w) == Mine(kind, w) \in dir.temps
Without(kind, w) == dir.temps \ {Mine(kind, w)}

Saving(w, pc) == save[w].pc = pc

(* Nobody else is writing the directory. *)
Alone(w) == \A v \in Writers \ {w} : save[v].pc = "idle"

(* cacheBuildImage is done: make the directory and write the first temporary. *)
CacheWriteTemp(w) ==
  /\ Saving(w, "idle") /\ last < MaxGen
  /\ last' = last + 1
  /\ save' = [v \in Writers |->
                IF v = w THEN [NoSave EXCEPT !.pc = "meta", !.gen = last + 1, !.tries = Attempts,
                                             !.clean = Alone(w) /\ Fits(dir.bin, dir.meta)]
                ELSE [save[v] EXCEPT !.clean = FALSE]]
  /\ Put([dir EXCEPT !.temps = @ \cup {Temp("bin", w, last + 1)}])
  /\ UNCHANGED look

(* The second one; a write that fails, or a build that is cancelled, cleans up. *)
CacheWriteMarker(w) ==
  /\ Saving(w, "meta")
  /\ \/ /\ save' = [save EXCEPT ![w].pc = "link"]
        /\ Put([dir EXCEPT !.temps = @ \cup {Temp("meta", w, save[w].gen)}])
     \/ /\ save' = [save EXCEPT ![w].pc = "abandon"]
        /\ UNCHANGED <<dir, quiet>>
  /\ UNCHANGED <<last, look>>

(* cacheLinkAside: only over a marker, and not every file system can link. *)
CacheLinkAside(w) ==
  /\ Saving(w, "link")
  /\ \/ /\ save' = [save EXCEPT ![w].pc = "bin", ![w].link = NoGen]
        /\ UNCHANGED <<dir, quiet>>
     \/ /\ dir.meta # NoGen /\ dir.bin # NoGen
        /\ save' = [save EXCEPT ![w].pc = "bin", ![w].link = dir.bin]
        /\ Put([dir EXCEPT !.temps = @ \cup {Temp("link", w, dir.bin)}])
  /\ UNCHANGED <<last, look>>

(* Phase 1: the index goes in, or the link goes and the phase is tried again. *)
RenameIndex(w) ==
  /\ Saving(w, "bin")
  /\ \/ /\ Has("bin", w)
        /\ Put([dir EXCEPT !.bin = save[w].gen, !.temps = Without("bin", w)])
        /\ save' = [save EXCEPT ![w].pc = "marker", ![w].tries = Attempts]
     \/ /\ Put([dir EXCEPT !.temps = Without("link", w)])
        /\ save' = [save EXCEPT ![w].link = NoGen, ![w].tries = @ - 1,
                                ![w].pc = IF save[w].tries = 1 THEN "abandon" ELSE "link"]
  /\ UNCHANGED <<last, look>>

(* Phase 2, forward: the marker goes in and the save is committed. *)
RenameMarker(w) ==
  /\ Saving(w, "marker")
  /\ \/ /\ Has("meta", w)
        /\ Put([dir EXCEPT !.meta = save[w].gen, !.temps = Without("meta", w)])
        /\ save' = [save EXCEPT ![w].pc = "commit"]
     \/ /\ save' = [save EXCEPT ![w].pc = IF save[w].link # NoGen THEN "back"
                                          ELSE IF save[w].tries = 1 THEN "giveup" ELSE "marker",
                                ![w].tries = IF save[w].link # NoGen THEN @ ELSE @ - 1]
        /\ UNCHANGED <<dir, quiet>>
  /\ UNCHANGED <<last, look>>

(* Phase 2, backward: the index that was there is put back. *)
RenameBack(w) ==
  /\ Saving(w, "back")
  /\ \/ /\ Has("link", w)
        /\ Put([dir EXCEPT !.bin = save[w].link, !.temps = Without("link", w)])
        /\ save' = [save EXCEPT ![w].pc = "abandon", ![w].link = NoGen]
     \/ /\ save' = [save EXCEPT ![w].pc = IF save[w].tries = 1 THEN "giveup" ELSE "marker", ![w].tries = @ - 1]
        /\ UNCHANGED <<dir, quiet>>
  /\ UNCHANGED <<last, look>>

(* Neither way: the link stays as a sign, or the marker comes off; where it    *)
(* cannot be removed either, the error is ignored.                            *)
GiveUp(w) ==
  /\ Saving(w, "giveup")
  /\ \/ /\ Put(IF save[w].link = NoGen THEN [dir EXCEPT !.meta = NoGen] ELSE dir)
        /\ save' = [save EXCEPT ![w].pc = "keep"]
     \/ /\ save[w].link = NoGen
        /\ save' = [save EXCEPT ![w].pc = "stuck"]
        /\ UNCHANGED <<dir, quiet>>
  /\ UNCHANGED <<last, look>>

\* Mutant of SaveReturn: the link kept as a sign is removed like the rest.
SaveReturnAll(w) ==
  /\ save[w].pc \in {"commit", "abandon", "keep", "stuck"}
  /\ Put([dir EXCEPT !.temps = @ \ {Mine(kind, w) : kind \in {"bin", "meta", "link"}}])
  /\ save' = [save EXCEPT ![w] = NoSave]
  /\ UNCHANGED <<last, look>>

(* The deferred removals: every temporary of this save, but not a link kept. *)
SaveReturn(w) ==
  /\ save[w].pc \in {"commit", "abandon", "keep", "stuck"}
  /\ Put([dir EXCEPT !.temps = @ \ {Mine(kind, w) : kind \in IF Saving(w, "keep") THEN {"bin", "meta"}
                                                            ELSE {"bin", "meta", "link"}}])
  /\ save' = [save EXCEPT ![w] = NoSave]
  /\ UNCHANGED <<last, look>>

(* The process is killed. *)
SaveKilled(w) ==
  /\ save[w].pc # "idle"
  /\ save' = [save EXCEPT ![w] = NoSave]
  /\ UNCHANGED <<dir, last, look, quiet>>

-----------------------------------------------------------------------------
(* cacheSweep, from a save of any target: temporaries an hour old, which no   *)
(* running save owns; then a directory of another version, one that has been  *)
(* without a marker for an hour, or one too many.                             *)

(* One file of the directory is gone, and no save has it to itself any more. *)
OneLess(d) ==
  {[d EXCEPT !.bin = NoGen], [d EXCEPT !.meta = NoGen]} \cup {[d EXCEPT !.temps = @ \ {t}] : t \in d.temps}
RemoveFile ==
  /\ dir' \in OneLess(dir) \ {dir}
  /\ quiet' = [r \in Readers |-> TRUE]
  /\ save' = [w \in Writers |-> [save[w] EXCEPT !.clean = FALSE]]
  /\ UNCHANGED last

Idle == \A w \in Writers : save[w].pc = "idle"

CacheSweepTemp ==
  /\ \E t \in dir.temps : save[t.owner].pc = "idle" /\ Put([dir EXCEPT !.temps = @ \ {t}])
  /\ UNCHANGED <<last, save, look, sweeping>>

CacheSweepDir ==
  /\ ~sweeping /\ (dir.meta # NoGen \/ Idle)
  /\ sweeping' = TRUE
  /\ UNCHANGED <<dir, last, save, look, quiet>>

CacheSweepFile == sweeping /\ RemoveFile /\ UNCHANGED <<look, sweeping>>

(* All is gone, or what is left cannot be removed. *)
CacheSweepEnds ==
  /\ sweeping /\ sweeping' = FALSE
  /\ UNCHANGED <<dir, last, save, look, quiet>>

-----------------------------------------------------------------------------
(* LoadCacheDir: one look at the directory is six reads, at six times.      *)

Looking(r, pc) == look[r].pc = pc
Answer(l, result) == [NoLook EXCEPT !.result = result, !.loads = l.loads]

LoadBegin(r) ==
  /\ Looking(r, "idle") /\ look[r].loads < MaxLoads
  /\ look' = [look EXCEPT ![r] = [NoLook EXCEPT !.pc = "stat", !.loads = look[r].loads + 1]]
  /\ quiet' = [quiet EXCEPT ![r] = Damaged(dir)]
  /\ UNCHANGED <<dir, last, save>>

(* cacheStatIndex *)
StatIndex(r) ==
  /\ Looking(r, "stat")
  /\ look' = [look EXCEPT ![r].before = dir.bin, ![r].pc = "read"]
  /\ UNCHANGED <<dir, last, save, quiet>>

(* cacheReadMeta: no marker is an answer, another version is a failure. *)
ReadMeta(r) ==
  /\ Looking(r, "read")
  /\ look' = [look EXCEPT ![r] =
       IF dir.meta = NoGen THEN Answer(@, "notbuilt")
       ELSE IF dir.meta \in Foreign THEN [@ EXCEPT !.marker = dir.meta, !.failure = <<"version">>, !.pc = "restat"]
       ELSE [@ EXCEPT !.marker = dir.meta, !.pc = "load"]]
  /\ UNCHANGED <<dir, last, save, quiet>>

(* cacheLoadIndex: the index the marker fits, or what is wrong with the pair. *)
LoadIndex(r) ==
  /\ Looking(r, "load")
  /\ \/ look' = [look EXCEPT ![r] = IF Fits(dir.bin, look[r].marker) THEN Answer(@, "loaded")
                    ELSE [@ EXCEPT !.failure = <<"corrupt", look[r].marker, dir.bin>>, !.pc = "restat"]]
     \/ dir.bin # NoGen /\ look' = [look EXCEPT ![r].failure = <<"unreadable">>, ![r].pc = "restat"]
  /\ UNCHANGED <<dir, last, save, quiet>>

RestatIndex(r) ==
  /\ Looking(r, "restat")
  /\ look' = [look EXCEPT ![r].after = dir.bin, ![r].pc = "reread"]
  /\ UNCHANGED <<dir, last, save, quiet>>

(* cacheMarkerMoved: a marker that cannot be read has not moved. *)
MarkerMoved(r) ==
  /\ Looking(r, "reread")
  /\ \E moved \in {dir.meta # look[r].marker} \cup (IF dir.meta # NoGen THEN {FALSE} ELSE {}) :
       look' = [look EXCEPT ![r].moved = moved, ![r].pc = "list"]
  /\ UNCHANGED <<dir, last, save, quiet>>

(* Two looks agree when marker, index and failure are the same. *)
Verdict(l) == [marker |-> l.marker, index |-> l.after, failure |-> l.failure]

Again(l, verdict, repeatable) ==
  [NoLook EXCEPT !.pc = "stat", !.previous = verdict, !.repeatable = repeatable, !.loads = l.loads]

\* Mutant of Decide: one look without a sign of a writer is enough.
DecideAtOnce(r) ==
  /\ Looking(r, "list")
  /\ LET l == look[r]
         writing == l.moved \/ l.after # l.before \/ dir.temps # {}
     IN look' = [look EXCEPT ![r] =
          IF writing THEN Answer(l, "busy")
          ELSE IF l.failure = <<"unreadable">> THEN Answer(l, "unreadable")
          ELSE [l EXCEPT !.pc = "remove"]]
  /\ UNCHANGED <<dir, last, save, quiet>>

(* cacheCommitInFlight, and the decision: the same verdict twice, with no sign  *)
(* of a writer.  Patience (cacheRacePatience) may run out at any time.          *)
Decide(r) ==
  /\ Looking(r, "list")
  /\ LET l == look[r]
         changed == l.moved \/ l.after # l.before
         writing == changed \/ dir.temps # {}
     IN \E patient \in BOOLEAN : look' = [look EXCEPT ![r] =
          IF l.failure = <<"version">> THEN (IF writing THEN Answer(l, "busy") ELSE [l EXCEPT !.pc = "remove"])
          ELSE IF writing THEN (IF patient THEN Again(l, l.previous, l.repeatable) ELSE Answer(l, "busy"))
          ELSE IF ~l.repeatable \/ Verdict(l) # l.previous
          THEN (IF patient THEN Again(l, Verdict(l), TRUE) ELSE Answer(l, "busy"))
          ELSE IF l.failure = <<"unreadable">> THEN Answer(l, "unreadable")
          ELSE [l EXCEPT !.pc = "remove"]]
  /\ UNCHANGED <<dir, last, save, quiet>>

(* cacheRemoveDir, file by file, as far as it gets. *)
RemoveDir(r) ==
  /\ Looking(r, "remove")
  /\ \/ RemoveFile /\ UNCHANGED look
     \/ look' = [look EXCEPT ![r] = Answer(@, "removed")] /\ UNCHANGED <<dir, last, save, quiet>>

-----------------------------------------------------------------------------
SaveNext(w) ==
  \/ CacheWriteTemp(w) \/ CacheWriteMarker(w) \/ CacheLinkAside(w) \/ RenameIndex(w) \/ RenameMarker(w)
  \/ RenameBack(w) \/ GiveUp(w) \/ SaveReturn(w) \/ SaveKilled(w)

LoadNext(r) ==
  \/ LoadBegin(r) \/ StatIndex(r) \/ ReadMeta(r) \/ LoadIndex(r) \/ RestatIndex(r) \/ MarkerMoved(r)
  \/ Decide(r) \/ RemoveDir(r)

CacheNext ==
  \/ \E w \in Writers : SaveNext(w) /\ UNCHANGED sweeping
  \/ \E r \in Readers : LoadNext(r) /\ UNCHANGED sweeping
  \/ CacheSweepTemp \/ CacheSweepDir \/ CacheSweepFile \/ CacheSweepEnds

CacheSpec == CacheInit /\ [][CacheNext]_cvars

-----------------------------------------------------------------------------
(* Properties.                                                             *)

(* A load decides to remove a directory of its own version only if, at some  *)
(* time during the load, it was damaged with no sign of a writer or somebody  *)
(* else was removing it: never because its reads straddled commits that were  *)
(* made, undone or given up meanwhile (LoadCacheDir).                         *)
OnlyDamageIsRemoved ==
  \A r \in Readers : look[r].pc = "remove" /\ look[r].failure # <<"version">> => quiet[r]

Removing == sweeping \/ \E r \in Readers : look[r].pc = "remove"

(* A save that had the directory to itself and found a cache in it leaves no  *)
(* quiet mismatch, however its renames fail (cacheCommitPair), with one        *)
(* exception: the new marker could not be put in place, nothing had been linked *)
(* aside to go back to, and the old one could not be removed (cache.go:1501).  *)
NoQuietMismatch ==
  [][\A w \in Writers :
       save[w].clean /\ save[w].pc # "idle" /\ ~Removing /\ Damaged(dir') => save[w].pc = "stuck"]_cvars
=============================================================================
