----------------------------- MODULE StoreIndex -----------------------------
(***************************************************************************)
(* The metadata index of the content-addressed store (core/store): the    *)
(* file index.json, the lock file index.lock that Record and GC take       *)
(* before they rewrite it, and the two callers that do: a build that       *)
(* ingests a .deb (PutFile, then Record) and `debark store gc'.            *)
(*                                                                         *)
(* Every process runs against the same directory; nothing but the files    *)
(* coordinates them.  A lock file is created with O_EXCL, is judged stale  *)
(* by its age alone, and is released by removing whatever file has the     *)
(* lock's name.  Time is discrete: Tick ages the lock file and the waits.  *)
(***************************************************************************)
EXTENDS Naturals, FiniteSets

CONSTANTS Procs,        \* the processes sharing one store
          Digests,      \* the objects they ingest
          None,         \* no process (the lock file is absent), no operation
          StaleAfter,   \* lockStaleAfter, in ticks
          WaitBudget,   \* lockWaitBudget, in ticks
          MaxFaults,    \* bound: how many processes are killed or stall with the lock
          MayStall,     \* may a live process outlast lockStaleAfter with the lock?
          RemoveFails   \* may os.Remove of the lock file fail?

ASSUME ConstantsAssumption ==
    /\ None \notin Procs
    /\ StaleAfter \in Nat
    /\ WaitBudget \in Nat
    /\ MaxFaults \in Nat
    /\ MayStall \in BOOLEAN
    /\ RemoveFails \in BOOLEAN

VARIABLES
    objects,    \* digests with a file at their address
    index,      \* index.json: digest -> "none" or how the entry is marked
    holder,     \* who created the lock file that is there now, or None
    age,        \* the age of that file, saturating at StaleAfter + 1
    pc,         \* where each process is
    op,         \* the index update each process is carrying out
    cache,      \* the index as each process read it
    waited,     \* how long each process has been inside lockIndex
    faults,     \* how many of those have happened
    disturbed   \* history: a lock file has outlived its process, or a live
                \* process has outlived its lock

vars == <<objects, index, holder, age, pc, op, cache, waited, faults, disturbed>>
-----------------------------------------------------------------------------
Marks == {"archive", "user"}           \* Entry.UserSupplied
IndexStates == [Digests -> Marks \cup {"none"}]

\* What a process means to do to the index: Record one entry, or drop the
\* entries of the objects a GC removed.  A GC carries the digests it protects.
RecordOps == [kind : {"record"}, digest : Digests, mark : Marks]
GCOps == [kind : {"gc"}, keep : SUBSET Digests, removed : SUBSET Digests]
NoOp == [kind |-> "none"]

Acquiring == {"create", "stat", "steal", "wait"}      \* inside lockIndex
Holding == {"read", "write", "unlock"}                \* between lock and unlock
PCs == {"idle", "sweep"} \cup Acquiring \cup Holding

NoIndex == [d \in Digests |-> "none"]

Init ==
    /\ objects = {}
    /\ index = NoIndex
    /\ holder = None
    /\ age = 0
    /\ pc = [p \in Procs |-> "idle"]
    /\ op = [p \in Procs |-> NoOp]
    /\ cache = [p \in Procs |-> NoIndex]
    /\ waited = [p \in Procs |-> 0]
    /\ faults = 0
    /\ disturbed = FALSE

\* The entries a completed update leaves behind, from the entries it read.
Updated(o, idx) ==
    IF o.kind = "record"
    THEN [idx EXCEPT ![o.digest] = o.mark]
    ELSE [d \in Digests |-> IF d \in o.removed THEN "none" ELSE idx[d]]

Collecting(p) == op[p].kind = "gc"

\* A process returns to its caller, whatever the outcome.
Return(p) ==
    /\ pc' = [pc EXCEPT ![p] = "idle"]
    /\ op' = [op EXCEPT ![p] = NoOp]
    /\ cache' = [cache EXCEPT ![p] = NoIndex]
    /\ waited' = [waited EXCEPT ![p] = 0]
-----------------------------------------------------------------------------
(* The callers. *)

\* ingestPlan takes a selection: PutFile publishes its object (ObjectStore has
\* the steps of that; one that fails leaves nothing here) and Record enters
\* lockIndex.  Only builds record, and one never runs beside a GC, which the
\* comment on GC declares unsupported: neither starts while the other is running.
Ingest(p, d, m) ==
    /\ pc[p] = "idle"
    /\ \A q \in Procs : ~Collecting(q)
    /\ objects' = objects \cup {d}
    /\ pc' = [pc EXCEPT ![p] = "create"]
    /\ op' = [op EXCEPT ![p] = [kind |-> "record", digest |-> d, mark |-> m]]
    /\ UNCHANGED <<index, holder, age, cache, waited, faults, disturbed>>

\* Mutant of Protected: only the bundles named on the command line count.
ProtectedReferencedOnly(referenced) == referenced

\* `debark store gc BUNDLE...': protect what the index marks user-supplied
\* and what the named bundles' manifests list.
Protected(referenced) == {d \in Digests : index[d] = "user"} \cup referenced

StartGC(p, referenced) ==
    /\ pc[p] = "idle" /\ \A q \in Procs : pc[q] = "idle" \/ Collecting(q)
    /\ pc' = [pc EXCEPT ![p] = "sweep"]
    /\ op' = [op EXCEPT ![p] =
                 [kind |-> "gc", keep |-> Protected(referenced), removed |-> {}]]
    /\ UNCHANGED <<objects, index, holder, age, cache, waited, faults, disturbed>>

\* GC removes one object that keep refuses.
Sweep(p, d) ==
    /\ pc[p] = "sweep"
    /\ d \in objects \ op[p].keep
    /\ objects' = objects \ {d}
    /\ op' = [op EXCEPT ![p].removed = @ \cup {d}]
    /\ UNCHANGED <<index, holder, age, pc, cache, waited, faults, disturbed>>

\* The walk is over: nothing to do to the index if nothing was removed.
EndSweep(p) ==
    /\ pc[p] = "sweep"
    /\ objects \subseteq op[p].keep
    /\ IF op[p].removed = {}
       THEN Return(p)
       ELSE /\ pc' = [pc EXCEPT ![p] = "create"]
            /\ UNCHANGED <<op, cache, waited>>
    /\ UNCHANGED <<objects, index, holder, age, faults, disturbed>>

\* The walk stops on a cancelled context or a failed removal: the index keeps
\* the entries of what is already gone.
AbortSweep(p) ==
    /\ pc[p] = "sweep"
    /\ Return(p)
    /\ UNCHANGED <<objects, index, holder, age, faults, disturbed>>
-----------------------------------------------------------------------------
(* lockIndex. *)

\* Mutant of CreateLock: the file is created without O_EXCL.
CreateLockShared(p) ==
    /\ pc[p] = "create"
    /\ holder' = p
    /\ age' = 0
    /\ pc' = [pc EXCEPT ![p] = "read"]
    /\ waited' = [waited EXCEPT ![p] = 0]
    /\ UNCHANGED <<objects, index, op, cache, faults, disturbed>>

\* os.OpenFile(O_CREATE|O_EXCL): it creates the lock file, or finds one there.
CreateLock(p) ==
    /\ pc[p] = "create"
    /\ IF holder = None
       THEN /\ holder' = p
            /\ age' = 0
            /\ pc' = [pc EXCEPT ![p] = "read"]
            /\ waited' = [waited EXCEPT ![p] = 0]
       ELSE /\ pc' = [pc EXCEPT ![p] = "stat"]
            /\ UNCHANGED <<holder, age, waited>>
    /\ UNCHANGED <<objects, index, op, cache, faults, disturbed>>

\* Creating it is denied, as for a lock on its way out on Windows (fs.ErrPermission):
\* it counts as a lock that is there.
CreateDenied(p) ==
    /\ pc[p] = "create"
    /\ pc' = [pc EXCEPT ![p] = "stat"]
    /\ UNCHANGED <<objects, index, holder, age, op, cache, waited, faults, disturbed>>

\* Creating it fails for another reason.
CreateFails(p) ==
    /\ pc[p] = "create"
    /\ Return(p)
    /\ UNCHANGED <<objects, index, holder, age, faults, disturbed>>

\* os.Stat: a file older than lockStaleAfter is about to be removed.
StatLock(p) ==
    /\ pc[p] = "stat"
    /\ pc' = [pc EXCEPT ![p] =
                 IF holder # None /\ age > StaleAfter THEN "steal" ELSE "wait"]
    /\ UNCHANGED <<objects, index, holder, age, op, cache, waited, faults, disturbed>>

\* os.Remove by name: it removes the file that is there now, which need not be
\* the one that was stat'ed.
StealLock(p) ==
    /\ pc[p] = "steal"
    /\ holder' = None /\ age' = 0
    /\ pc' = [pc EXCEPT ![p] = "create"]
    /\ UNCHANGED <<objects, index, op, cache, waited, faults, disturbed>>

\* It cannot be removed.  The error is ignored, and the loop goes round without
\* a sleep or a look at the deadline.
StealFails(p) ==
    /\ RemoveFails /\ pc[p] = "steal"
    /\ pc' = [pc EXCEPT ![p] = "create"]
    /\ UNCHANGED <<objects, index, holder, age, op, cache, waited, faults, disturbed>>

\* Mutants of WaitLock: at the deadline the caller goes on without the lock;
\* there is no deadline.
WaitLockGoesOn(p) ==
    /\ pc[p] = "wait"
    /\ pc' = [pc EXCEPT ![p] = IF waited[p] > WaitBudget THEN "read" ELSE "create"]
    /\ UNCHANGED <<objects, index, holder, age, op, cache, waited, faults, disturbed>>

WaitLockForever(p) ==
    /\ pc[p] = "wait"
    /\ pc' = [pc EXCEPT ![p] = "create"]
    /\ UNCHANGED <<objects, index, holder, age, op, cache, waited, faults, disturbed>>

\* The deadline, or a sleep of lockRetryDelay and another try.
WaitLock(p) ==
    /\ pc[p] = "wait"
    /\ IF waited[p] > WaitBudget
       THEN Return(p)
       ELSE /\ pc' = [pc EXCEPT ![p] = "create"]
            /\ UNCHANGED <<op, cache, waited>>
    /\ UNCHANGED <<objects, index, holder, age, faults, disturbed>>
-----------------------------------------------------------------------------
(* Record and the end of GC, with the lock taken. *)

\* Index(): a complete file, because it is published by a rename.
ReadIndex(p) ==
    /\ pc[p] = "read"
    /\ cache' = [cache EXCEPT ![p] = index]
    /\ pc' = [pc EXCEPT ![p] = "write"]
    /\ UNCHANGED <<objects, index, holder, age, op, waited, faults, disturbed>>

\* writeIndexLocked: temporary file, fsync, rename.
WriteIndex(p) ==
    /\ pc[p] = "write"
    /\ index' = Updated(op[p], cache[p])
    /\ cache' = [cache EXCEPT ![p] = NoIndex]
    /\ pc' = [pc EXCEPT ![p] = "unlock"]
    /\ UNCHANGED <<objects, holder, age, op, waited, faults, disturbed>>

\* Reading or writing the index fails before the rename: the deferred unlock
\* still runs.
IndexFails(p) ==
    /\ pc[p] \in {"read", "write"}
    /\ cache' = [cache EXCEPT ![p] = NoIndex]
    /\ pc' = [pc EXCEPT ![p] = "unlock"]
    /\ UNCHANGED <<objects, index, holder, age, op, waited, faults, disturbed>>

\* unlock: os.Remove of the lock's name.
Unlock(p) ==
    /\ pc[p] = "unlock"
    /\ holder' = None /\ age' = 0
    /\ Return(p)
    /\ UNCHANGED <<objects, index, faults, disturbed>>

\* It cannot be removed, an error nobody hears of.
UnlockFails(p) ==
    /\ RemoveFails /\ pc[p] = "unlock"
    /\ disturbed' = TRUE
    /\ Return(p)
    /\ UNCHANGED <<objects, index, holder, age, faults>>
-----------------------------------------------------------------------------
(* The environment. *)

\* A process is killed; its lock file, if it had one, stays.
Crash(p) ==
    /\ faults < MaxFaults
    /\ pc[p] # "idle"
    /\ faults' = faults + 1
    /\ disturbed' = (disturbed \/ pc[p] \in Holding)
    /\ Return(p)
    /\ UNCHANGED <<objects, index, holder, age>>

AtMost(n, bound) == IF n > bound THEN bound ELSE n

\* A live process is about to hold the lock for longer than lockStaleAfter (a
\* stalled disk, a suspended laptop), which nothing in the code prevents.
Stalling == holder # None /\ age = StaleAfter /\ pc[holder] \in Holding

\* Time passes.
Tick ==
    /\ Stalling => MayStall /\ faults < MaxFaults
    /\ faults' = IF Stalling THEN faults + 1 ELSE faults
    /\ age' = IF holder = None THEN 0 ELSE AtMost(age + 1, StaleAfter + 1)
    /\ waited' = [p \in Procs |->
                     IF pc[p] \in Acquiring
                     THEN AtMost(waited[p] + 1, WaitBudget + 1)
                     ELSE waited[p]]
    /\ disturbed' = (disturbed \/ (holder # None /\ age' > StaleAfter))
    /\ UNCHANGED <<objects, index, holder, pc, op, cache>>

Step(p) ==
    \/ EndSweep(p) \/ AbortSweep(p) \/ \E d \in Digests : Sweep(p, d)
    \/ CreateLock(p) \/ CreateDenied(p) \/ CreateFails(p) \/ StatLock(p)
    \/ StealLock(p) \/ StealFails(p) \/ WaitLock(p)
    \/ ReadIndex(p) \/ WriteIndex(p) \/ IndexFails(p)
    \/ Unlock(p) \/ UnlockFails(p)

Start(p) ==
    \/ \E d \in Digests, m \in Marks : Ingest(p, d, m)
    \/ \E referenced \in SUBSET Digests : StartGC(p, referenced)

Next == (\E p \in Procs : Start(p) \/ Step(p) \/ Crash(p)) \/ Tick

Spec == Init /\ [][Next]_vars

\* A running process is scheduled, and the clock advances.  Nobody is obliged
\* to start an operation.
FairSpec == Spec /\ WF_vars(Tick) /\ \A p \in Procs : WF_vars(Step(p))
-----------------------------------------------------------------------------
TypeOK ==
    /\ objects \subseteq Digests
    /\ index \in IndexStates
    /\ holder \in Procs \cup {None}
    /\ age \in 0 .. StaleAfter + 1
    /\ pc \in [Procs -> PCs]
    /\ op \in [Procs -> RecordOps \cup GCOps \cup {NoOp}]
    /\ cache \in [Procs -> IndexStates]
    /\ waited \in [Procs -> 0 .. WaitBudget + 1]
    /\ faults \in 0 .. MaxFaults
    /\ disturbed \in BOOLEAN

\* At most one process is between lockIndex and unlock.
OneWriter ==
    \A p, q \in Procs : pc[p] \in Holding /\ pc[q] \in Holding => p = q

\* The comment on fsStore calls the lock a single-writer discipline.  It is
\* one for as long as no process dies with the lock and no lock file outlives
\* lockStaleAfter.
SingleWriterWhileTimely == ~disturbed => OneWriter

\* An index update is never lost while the lock is timely: what a process
\* writes is its update applied to the index as it is at that moment, so an
\* entry another process recorded after it read the file survives.
NoLostUpdate ==
    [][\A p \in Procs :
          WriteIndex(p) /\ ~disturbed => index' = Updated(op[p], index)]_vars

\* Whatever is killed, stalled or stolen: an object goes only while a GC is
\* running, no GC touches what the index marks user-supplied, and a digest enters
\* the index only after its object was published; but for what one GC, its lock
\* no longer its own, writes back of the entries another has dropped.
ObjectsOutliveTheirMarks ==
    [][/\ \A d \in objects \ objects' : index[d] # "user"
       /\ \A d \in Digests : index[d] = "none" /\ index'[d] # "none"
             => d \in objects \/ (disturbed /\ \E p \in Procs : Collecting(p) /\ WriteIndex(p))]_vars

\* Entry.UserSupplied (core/store/iface.go) says of such objects that they are
\* never garbage-collected without an explicit request.
NeverCollectsUserSupplied ==
    \A d \in Digests : [](index[d] = "user" => [](d \in objects))

\* Record and GC get an answer from lockIndex: the lock or the time-out error,
\* even while others crash with the lock, stall and steal, unless somebody again
\* and again cannot remove a lock file.
RemovalFails == \E p \in Procs : StealFails(p) \/ UnlockFails(p)
LockIndexReturns ==
    \A p \in Procs : []<>(pc[p] \notin Acquiring) \/ []<><<RemovalFails>>_vars

\* "It gives up after lockWaitBudget" (core/store/fsstore.go, the comment on
\* lockIndex), whatever becomes of the lock file.
LockIndexGivesUp ==
    \A p \in Procs : pc[p] \in Acquiring ~> pc[p] \notin Acquiring
=============================================================================
