-------------------------- MODULE StoreIndexProofs --------------------------
(* What holds of the store's index and its lock file for any number of      *)
(* processes, objects, faults and any lockStaleAfter and lockWaitBudget.     *)
EXTENDS StoreIndex, TLAPS

\* The lock as it works while it is timely: whoever is past lockIndex is the
\* one whose file is there, that file is too young to be stolen, nobody has
\* decided to steal it, and what a writer read is still what the file says.
LockInv ==
    /\ \A p \in Procs : pc[p] \in Holding => holder = p
    /\ \A p \in Procs : pc[p] # "steal"
    /\ \A p \in Procs : pc[p] = "write" => cache[p] = index
    /\ age <= StaleAfter

\* A process that is past lockIndex, or about to be, has an operation to do.
OpInv ==
    \A p \in Procs : /\ pc[p] \in Acquiring \cup Holding => op[p] \in RecordOps \cup GCOps
                     /\ pc[p] = "sweep" => op[p] \in GCOps

IInv == TypeOK /\ OpInv /\ (~disturbed => LockInv)

\* An update of a well-formed index is a well-formed index.
LEMMA UpdatedType ==
    ASSUME NEW o \in RecordOps \cup GCOps, NEW idx \in IndexStates
    PROVE  Updated(o, idx) \in IndexStates
<1>1. CASE o \in RecordOps
  BY <1>1 DEF Updated, RecordOps, IndexStates
<1>2. CASE o \in GCOps
  BY <1>2 DEF Updated, GCOps, IndexStates
<1> QED BY <1>1, <1>2

\* The invariant holds before anything has run.
LEMMA InitIInv == Init => IInv
<1> SUFFICES ASSUME Init PROVE IInv
  OBVIOUS
<1>1. NoIndex \in IndexStates
  BY DEF NoIndex, IndexStates
<1>2. TypeOK
  <2>1. disturbed \in BOOLEAN
    BY DEF Init
  <2>2. /\ age \in 0 .. StaleAfter + 1
        /\ waited \in [Procs -> 0 .. WaitBudget + 1]
        /\ faults \in 0 .. MaxFaults
    BY ConstantsAssumption DEF Init
  <2> QED BY <1>1, <2>1, <2>2 DEF Init, TypeOK, PCs
<1>3. OpInv /\ LockInv
  BY ConstantsAssumption DEF Init, OpInv, LockInv, Acquiring, Holding
<1> QED BY <1>2, <1>3 DEF IInv

\* Every step keeps the types and every running process's operation.
LEMMA NextTypeOK == TypeOK /\ OpInv /\ [Next]_vars => TypeOK' /\ OpInv'
<1> SUFFICES ASSUME TypeOK, OpInv, [Next]_vars PROVE TypeOK' /\ OpInv'
  OBVIOUS
<1> USE ConstantsAssumption DEF TypeOK, OpInv, PCs, Acquiring, Holding
<1>1. ASSUME NEW p \in Procs, NEW d \in Digests, NEW m \in Marks, Ingest(p, d, m)
      PROVE  TypeOK' /\ OpInv'
  BY <1>1 DEF Ingest, RecordOps
<1>2. ASSUME NEW p \in Procs, NEW referenced \in SUBSET Digests, StartGC(p, referenced)
      PROVE  TypeOK' /\ OpInv'
  BY <1>2 DEF StartGC, Protected, GCOps
<1>3. ASSUME NEW p \in Procs, NEW d \in Digests, Sweep(p, d)
      PROVE  TypeOK' /\ OpInv'
  <2>1. op[p] \in GCOps
    BY <1>3 DEF Sweep
  <2>2. [op[p] EXCEPT !.removed = @ \cup {d}] \in GCOps
    BY <2>1 DEF GCOps
  <2> QED BY <1>3, <2>2 DEF Sweep
<1>4. ASSUME NEW p \in Procs, EndSweep(p) PROVE TypeOK' /\ OpInv'
  <2>1. CASE op[p].removed = {}
    <3>1. Return(p) /\ UNCHANGED <<objects, index, holder, age, faults, disturbed>>
      BY <1>4, <2>1 DEF EndSweep
    <3> QED BY <3>1 DEF Return, NoIndex, IndexStates
  <2>2. CASE op[p].removed # {}
    BY <1>4, <2>2 DEF EndSweep
  <2> QED BY <2>1, <2>2
<1>5. ASSUME NEW p \in Procs, AbortSweep(p) PROVE TypeOK' /\ OpInv'
  BY <1>5 DEF AbortSweep, Return, NoIndex, IndexStates
<1>6. ASSUME NEW p \in Procs, CreateLock(p) PROVE TypeOK' /\ OpInv'
  BY <1>6 DEF CreateLock
<1>17. ASSUME NEW p \in Procs, CreateFails(p) PROVE TypeOK' /\ OpInv'
  BY <1>17 DEF CreateFails, Return, NoIndex, IndexStates
<1>18. ASSUME NEW p \in Procs, CreateDenied(p) PROVE TypeOK' /\ OpInv'
  BY <1>18 DEF CreateDenied
<1>7. ASSUME NEW p \in Procs, StatLock(p) PROVE TypeOK' /\ OpInv'
  BY <1>7 DEF StatLock
<1>8. ASSUME NEW p \in Procs, StealLock(p) PROVE TypeOK' /\ OpInv'
  BY <1>8 DEF StealLock
<1>19. ASSUME NEW p \in Procs, StealFails(p) PROVE TypeOK' /\ OpInv'
  BY <1>19 DEF StealFails
<1>9. ASSUME NEW p \in Procs, WaitLock(p) PROVE TypeOK' /\ OpInv'
  <2>1. CASE waited[p] > WaitBudget
    <3>1. Return(p) /\ UNCHANGED <<objects, index, holder, age, faults, disturbed>>
      BY <1>9, <2>1 DEF WaitLock
    <3> QED BY <3>1 DEF Return, NoIndex, IndexStates
  <2>2. CASE ~(waited[p] > WaitBudget)
    BY <1>9, <2>2 DEF WaitLock
  <2> QED BY <2>1, <2>2
<1>10. ASSUME NEW p \in Procs, ReadIndex(p) PROVE TypeOK' /\ OpInv'
  BY <1>10 DEF ReadIndex
<1>11. ASSUME NEW p \in Procs, WriteIndex(p) PROVE TypeOK' /\ OpInv'
  <2>1. index' \in IndexStates
    BY <1>11, UpdatedType DEF WriteIndex
  <2> QED BY <1>11, <2>1 DEF WriteIndex, NoIndex, IndexStates
<1>12. ASSUME NEW p \in Procs, IndexFails(p) PROVE TypeOK' /\ OpInv'
  BY <1>12 DEF IndexFails, NoIndex, IndexStates
<1>13. ASSUME NEW p \in Procs, Unlock(p) PROVE TypeOK' /\ OpInv'
  BY <1>13 DEF Unlock, Return, NoIndex, IndexStates
<1>20. ASSUME NEW p \in Procs, UnlockFails(p) PROVE TypeOK' /\ OpInv'
  BY <1>20 DEF UnlockFails, Return, NoIndex, IndexStates
<1>14. ASSUME NEW p \in Procs, Crash(p) PROVE TypeOK' /\ OpInv'
  BY <1>14 DEF Crash, Return, NoIndex, IndexStates
<1>15. ASSUME Tick PROVE TypeOK' /\ OpInv'
  BY <1>15 DEF Tick, AtMost, Stalling
<1>16. CASE UNCHANGED vars
  BY <1>16 DEF vars
<1> QED
  BY <1>1, <1>2, <1>3, <1>4, <1>5, <1>6, <1>7, <1>8, <1>9, <1>10, <1>11, <1>12,
     <1>13, <1>14, <1>15, <1>16, <1>17, <1>18, <1>19, <1>20 DEF Next, Start, Step

\* While the lock is timely every step keeps LockInv, or ends the timeliness.
LEMMA NextLockInv ==
    IInv /\ [Next]_vars => (~disturbed' => LockInv')
<1> SUFFICES ASSUME IInv, [Next]_vars, ~disturbed'
             PROVE  LockInv'
  OBVIOUS
<1>0. TypeOK /\ OpInv /\ TypeOK'
  BY NextTypeOK DEF IInv
<1>00. ~disturbed /\ LockInv
  <2>1. ASSUME Tick PROVE ~disturbed
    BY <2>1 DEF Tick
  <2>2. ASSUME NEW p \in Procs, UnlockFails(p) PROVE ~disturbed
    BY <2>2 DEF UnlockFails
  <2>3. ASSUME NEW p \in Procs, Crash(p) PROVE ~disturbed
    BY <2>3 DEF Crash
  <2>4. ~disturbed
    BY <2>1, <2>2, <2>3 DEF Next, Start, Step, Ingest, StartGC, Sweep, EndSweep, AbortSweep,
       CreateLock, CreateDenied, CreateFails, StatLock, StealLock, StealFails, WaitLock, ReadIndex,
       WriteIndex, IndexFails, Unlock, vars
  <2> QED BY <2>4 DEF IInv
<1> USE ConstantsAssumption, <1>0, <1>00 DEF TypeOK, LockInv, Acquiring, Holding
<1>1. ASSUME NEW p \in Procs, NEW d \in Digests, NEW m \in Marks, Ingest(p, d, m)
      PROVE  LockInv'
  BY <1>1 DEF Ingest
<1>2. ASSUME NEW p \in Procs, NEW referenced \in SUBSET Digests, StartGC(p, referenced)
      PROVE  LockInv'
  BY <1>2 DEF StartGC
<1>3. ASSUME NEW p \in Procs, NEW d \in Digests, Sweep(p, d)
      PROVE  LockInv'
  BY <1>3 DEF Sweep
<1>4. ASSUME NEW p \in Procs, EndSweep(p) PROVE LockInv'
  <2>1. pc' \in {[pc EXCEPT ![p] = "idle"], [pc EXCEPT ![p] = "create"]}
    BY <1>4 DEF EndSweep, Return
  <2>2. \A q \in Procs : q # p => cache'[q] = cache[q]
    BY <1>4 DEF EndSweep, Return
  <2> QED BY <1>4, <2>1, <2>2 DEF EndSweep
<1>5. ASSUME NEW p \in Procs, AbortSweep(p) PROVE LockInv'
  BY <1>5 DEF AbortSweep, Return
<1>6. ASSUME NEW p \in Procs, CreateLock(p) PROVE LockInv'
  BY <1>6 DEF CreateLock
<1>17. ASSUME NEW p \in Procs, CreateFails(p) PROVE LockInv'
  BY <1>17 DEF CreateFails, Return
<1>18. ASSUME NEW p \in Procs, CreateDenied(p) PROVE LockInv'
  BY <1>18 DEF CreateDenied
<1>7. ASSUME NEW p \in Procs, StatLock(p) PROVE LockInv'
  BY <1>7 DEF StatLock
<1>8. ASSUME NEW p \in Procs, StealLock(p) PROVE LockInv'
  BY <1>8 DEF StealLock
<1>19. ASSUME NEW p \in Procs, StealFails(p) PROVE LockInv'
  BY <1>19 DEF StealFails
<1>9. ASSUME NEW p \in Procs, WaitLock(p) PROVE LockInv'
  <2>1. pc' \in {[pc EXCEPT ![p] = "idle"], [pc EXCEPT ![p] = "create"]}
    BY <1>9 DEF WaitLock, Return
  <2>2. \A q \in Procs : q # p => cache'[q] = cache[q]
    BY <1>9 DEF WaitLock, Return
  <2> QED BY <1>9, <2>1, <2>2 DEF WaitLock
<1>10. ASSUME NEW p \in Procs, ReadIndex(p) PROVE LockInv'
  BY <1>10 DEF ReadIndex
<1>11. ASSUME NEW p \in Procs, WriteIndex(p) PROVE LockInv'
  <2>1. \A q \in Procs : pc'[q] \in Holding => q = p
    BY <1>11 DEF WriteIndex
  <2> QED BY <1>11, <2>1 DEF WriteIndex
<1>12. ASSUME NEW p \in Procs, IndexFails(p) PROVE LockInv'
  BY <1>12 DEF IndexFails
<1>13. ASSUME NEW p \in Procs, Unlock(p) PROVE LockInv'
  <2>1. \A q \in Procs : pc'[q] \notin Holding /\ pc'[q] # "steal"
    BY <1>13 DEF Unlock, Return
  <2>2. age' = 0
    BY <1>13 DEF Unlock
  <2> QED BY <2>1, <2>2
<1>20. ASSUME NEW p \in Procs, UnlockFails(p) PROVE LockInv'
  BY <1>20 DEF UnlockFails
<1>14. ASSUME NEW p \in Procs, Crash(p) PROVE LockInv'
  BY <1>14 DEF Crash, Return
<1>15. ASSUME Tick PROVE LockInv'
  <2>1. ~(holder # None /\ age' > StaleAfter)
    BY <1>15 DEF Tick
  <2>2. holder = None => age' = 0
    BY <1>15 DEF Tick
  <2>3. age' <= StaleAfter
    BY <2>1, <2>2
  <2> QED BY <1>15, <2>3 DEF Tick
<1>16. CASE UNCHANGED vars
  BY <1>16 DEF vars
<1> QED
  BY <1>1, <1>2, <1>3, <1>4, <1>5, <1>6, <1>7, <1>8, <1>9, <1>10, <1>11, <1>12,
     <1>13, <1>14, <1>15, <1>16, <1>17, <1>18, <1>19, <1>20 DEF Next, Start, Step

\* The types, each running process's operation, and the timely lock, together.
THEOREM Invariance == Spec => []IInv
<1>1. IInv /\ [Next]_vars => IInv'
  BY NextTypeOK, NextLockInv DEF IInv
<1> QED BY InitIInv, <1>1, PTL DEF Spec

\* Type correctness of the index, the lock file and every process's registers.
THEOREM TypeCorrect == Spec => []TypeOK
<1>1. IInv => TypeOK
  BY DEF IInv
<1> QED BY Invariance, <1>1, PTL

\* lockIndex admits one writer at a time for as long as no process has died or
\* stalled with the lock file in place.
THEOREM SingleWriter == Spec => []SingleWriterWhileTimely
<1>1. IInv => SingleWriterWhileTimely
  BY DEF IInv, LockInv, SingleWriterWhileTimely, OneWriter
<1> QED BY Invariance, <1>1, PTL

\* Under the same proviso, an update of index.json is computed from the index
\* it replaces, so Record and GC never undo one another.
THEOREM UpdatesSurvive == Spec => NoLostUpdate
<1>1. IInv /\ [Next]_vars =>
        [\A p \in Procs : WriteIndex(p) /\ ~disturbed => index' = Updated(op[p], index)]_vars
  BY DEF IInv, LockInv, WriteIndex
<1> QED BY Invariance, <1>1, PTL DEF Spec, NoLostUpdate
-----------------------------------------------------------------------------
(* Objects and their entries, timely or not. *)

\* A GC runs with other GCs only, removes nothing that it keeps and keeps what the
\* index marks user-supplied, which is what the GC's own copy of the index marks so;
\* whoever records an entry has published its object; and of the digests without
\* an object, what it has read says the same as the index does now, however stale
\* the rest of it is.
MarkInv ==
    /\ \A p \in Procs : pc[p] = "idle" => op[p] = NoOp
    /\ \A p, q \in Procs : Collecting(p) => pc[q] = "idle" \/ Collecting(q)
    /\ \A p \in Procs : op[p].kind = "record" => op[p].digest \in objects
    /\ \A p \in Procs : Collecting(p) =>
          \A d \in Digests : /\ index[d] = "user" => d \in op[p].keep
                             /\ d \in op[p].keep => d \notin op[p].removed
    /\ \A p \in Procs : pc[p] = "write" =>
          IF Collecting(p)
          THEN \A d \in Digests : cache[p][d] = "user" <=> index[d] = "user"
          ELSE \A d \in Digests \ objects : cache[p][d] = "none" <=> index[d] = "none"

\* The three kinds of operation are told apart by their tag.
LEMMA Kinds ==
    /\ \A o \in RecordOps : o.kind = "record" /\ o.digest \in Digests /\ o.mark \in Marks
    /\ \A o \in GCOps : o.kind = "gc" /\ o.keep \subseteq Digests /\ o.removed \subseteq Digests
    /\ NoOp.kind = "none"
BY DEF RecordOps, GCOps, NoOp

\* A process returns to its caller and forgets its operation.
LEMMA ReturnMarks ==
    ASSUME TypeOK, MarkInv, NEW p \in Procs, Return(p), UNCHANGED <<objects, index>>
    PROVE  MarkInv'
<1>1. /\ pc'[p] = "idle" /\ op'[p] = NoOp
      /\ \A q \in Procs : q # p => pc'[q] = pc[q] /\ op'[q] = op[q] /\ cache'[q] = cache[q]
  BY DEF TypeOK, Return
<1> QED BY <1>1, Kinds DEF MarkInv, Collecting

\* A process goes on to its next step with the same operation.
LEMMA GotoMarks ==
    ASSUME TypeOK, MarkInv, NEW p \in Procs, NEW next \in PCs \ {"idle", "sweep", "write"},
           pc[p] # "idle", pc' = [pc EXCEPT ![p] = next], UNCHANGED <<objects, index, op>>,
           \A q \in Procs : q # p => cache'[q] = cache[q]
    PROVE  MarkInv'
<1>1. pc'[p] = next /\ \A q \in Procs : q # p => pc'[q] = pc[q]
  BY DEF TypeOK
<1> QED BY <1>1 DEF MarkInv, Collecting

\* Every step keeps objects and entries in step, disturbed or not.
LEMMA NextMarkInv == TypeOK /\ OpInv /\ MarkInv /\ [Next]_vars => MarkInv'
<1> SUFFICES ASSUME TypeOK, OpInv, MarkInv, [Next]_vars PROVE MarkInv'
  OBVIOUS
<1> USE DEF Acquiring, Holding, PCs
<1>1. ASSUME NEW p \in Procs, NEW d \in Digests, NEW m \in Marks, Ingest(p, d, m)
      PROVE  MarkInv'
  <2> DEFINE o == [kind |-> "record", digest |-> d, mark |-> m]
  <2>1. /\ pc'[p] = "create" /\ op'[p] = o /\ o.kind = "record" /\ o.digest = d
        /\ \A q \in Procs : q # p => pc'[q] = pc[q] /\ op'[q] = op[q]
        /\ \A q \in Procs : ~Collecting(q)
        /\ objects' = objects \cup {d} /\ UNCHANGED <<index, cache>>
    BY <1>1 DEF TypeOK, Ingest
  <2>2. \A q \in Procs : ~Collecting(q)'
    BY <2>1 DEF Collecting
  <2> HIDE DEF o
  <2> QED BY <2>1, <2>2 DEF MarkInv
<1>2. ASSUME NEW p \in Procs, NEW referenced \in SUBSET Digests, StartGC(p, referenced)
      PROVE  MarkInv'
  <2> DEFINE o == [kind |-> "gc", keep |-> Protected(referenced), removed |-> {}]
  <2>1. /\ pc[p] = "idle" /\ pc'[p] = "sweep" /\ op'[p] = o
        /\ o.kind = "gc" /\ o.keep = Protected(referenced) /\ o.removed = {}
        /\ \A q \in Procs : q # p => pc'[q] = pc[q] /\ op'[q] = op[q]
        /\ \A q \in Procs : pc[q] = "idle" \/ Collecting(q)
        /\ UNCHANGED <<objects, index, cache>>
    BY <1>2 DEF TypeOK, StartGC
  <2>2. \A d \in Digests : (index[d] = "user" => d \in o.keep) /\ d \notin o.removed
    BY <2>1 DEF Protected
  <2> HIDE DEF o
  <2>3. \A q \in Procs : pc'[q] = "idle" \/ Collecting(q)'
    BY <2>1 DEF Collecting
  <2>4. \A q \in Procs : op'[q].kind = "record" => op'[q].digest \in objects'
    BY <2>1 DEF MarkInv
  <2>5. \A q \in Procs : Collecting(q)' =>
          \A d \in Digests : (index'[d] = "user" => d \in op'[q].keep) /\ (d \in op'[q].keep => d \notin op'[q].removed)
    <3> SUFFICES ASSUME NEW q \in Procs, Collecting(q)', NEW d \in Digests
                 PROVE  (index'[d] = "user" => d \in op'[q].keep) /\ (d \in op'[q].keep => d \notin op'[q].removed)
      OBVIOUS
    <3>1. CASE q = p
      BY <2>1, <2>2, <3>1
    <3>2. CASE q # p
      BY <2>1, <3>2 DEF MarkInv, Collecting
    <3> QED BY <3>1, <3>2
  <2>6. \A q \in Procs : pc'[q] = "idle" => op'[q] = NoOp
    BY <2>1 DEF MarkInv
  <2>7. ASSUME NEW q \in Procs, pc'[q] = "write"
        PROVE  Collecting(q)' /\ \A d \in Digests : cache'[q][d] = "user" <=> index'[d] = "user"
    <3>1. q # p /\ pc[q] = "write" /\ Collecting(q)
      BY <2>1, <2>7
    <3> QED BY <2>1, <3>1 DEF MarkInv, Collecting
  <2> QED BY <2>3, <2>4, <2>5, <2>6, <2>7 DEF MarkInv
<1>3. ASSUME NEW p \in Procs, NEW d \in Digests, Sweep(p, d)
      PROVE  MarkInv'
  <2>1. op[p] \in GCOps /\ pc[p] = "sweep" /\ d \notin op[p].keep
    BY <1>3 DEF OpInv, Sweep
  <2>2. Collecting(p) /\ \A q \in Procs : pc[q] = "idle" \/ Collecting(q)
    BY <2>1, Kinds DEF MarkInv, Collecting
  <2>3. /\ op'[p].keep = op[p].keep /\ op'[p].kind = "gc" /\ op'[p].removed = op[p].removed \cup {d}
        /\ \A q \in Procs : q # p => op'[q] = op[q]
        /\ UNCHANGED <<pc, index, cache>>
    BY <1>3, <2>1 DEF TypeOK, Sweep, GCOps
  <2>4. \A q \in Procs : Collecting(q)' <=> Collecting(q)
    BY <2>2, <2>3 DEF Collecting
  <2>5. \A q \in Procs : op'[q].kind # "record"
    <3> SUFFICES ASSUME NEW q \in Procs, q # p PROVE op[q].kind # "record"
      BY <2>3
    <3> QED BY <2>2, Kinds DEF MarkInv, Collecting
  <2>6. \A q \in Procs : pc'[q] = "idle" => op'[q] = NoOp
    BY <2>1, <2>3 DEF MarkInv
  <2>7. ASSUME NEW q \in Procs, Collecting(q), NEW x \in Digests
        PROVE  (index[x] = "user" => x \in op'[q].keep) /\ (x \in op'[q].keep => x \notin op'[q].removed)
    <3>1. CASE q = p
      BY <2>1, <2>3, <2>7, <3>1 DEF MarkInv
    <3>2. CASE q # p
      BY <2>3, <2>7, <3>2 DEF MarkInv
    <3> QED BY <3>1, <3>2
  <2>8. ASSUME NEW q \in Procs, pc[q] = "write"
        PROVE  Collecting(q) /\ \A x \in Digests : cache[q][x] = "user" <=> index[x] = "user"
    BY <2>2, <2>8 DEF MarkInv
  <2> QED BY <2>2, <2>3, <2>4, <2>5, <2>6, <2>7, <2>8 DEF MarkInv
<1>4. ASSUME NEW p \in Procs, EndSweep(p) PROVE MarkInv'
  BY <1>4, ReturnMarks, GotoMarks DEF EndSweep
<1>5. ASSUME NEW p \in Procs, AbortSweep(p) \/ CreateFails(p) \/ Unlock(p) \/ UnlockFails(p) \/ Crash(p)
      PROVE  MarkInv'
  BY <1>5, ReturnMarks DEF AbortSweep, CreateFails, Unlock, UnlockFails, Crash
<1>6. ASSUME NEW p \in Procs, CreateLock(p) \/ CreateDenied(p) \/ StatLock(p) \/ StealLock(p) \/ StealFails(p)
      PROVE  MarkInv'
  <2>1. PICK next \in {"read", "stat", "steal", "wait", "create"} : pc' = [pc EXCEPT ![p] = next]
    BY <1>6 DEF CreateLock, CreateDenied, StatLock, StealLock, StealFails
  <2> QED BY <1>6, <2>1, GotoMarks DEF CreateLock, CreateDenied, StatLock, StealLock, StealFails
<1>7. ASSUME NEW p \in Procs, WaitLock(p) PROVE MarkInv'
  BY <1>7, ReturnMarks, GotoMarks DEF WaitLock
<1>8. ASSUME NEW p \in Procs, ReadIndex(p) PROVE MarkInv'
  <2>1. /\ pc'[p] = "write" /\ cache'[p] = index /\ pc[p] = "read"
        /\ \A q \in Procs : q # p => pc'[q] = pc[q] /\ cache'[q] = cache[q]
        /\ UNCHANGED <<objects, index, op>>
    BY <1>8 DEF TypeOK, ReadIndex
  <2> QED BY <2>1 DEF MarkInv, Collecting
<1>9. ASSUME NEW p \in Procs, WriteIndex(p) PROVE MarkInv'
  <2>1. /\ pc'[p] = "unlock" /\ pc[p] = "write" /\ index' = Updated(op[p], cache[p])
        /\ \A q \in Procs : q # p => pc'[q] = pc[q] /\ cache'[q] = cache[q]
        /\ UNCHANGED <<objects, op>> /\ op[p] \in RecordOps \cup GCOps
        /\ cache[p] \in IndexStates
    BY <1>9 DEF TypeOK, OpInv, WriteIndex
  <2>2. CASE op[p] \in GCOps
    <3>1. Collecting(p) /\ \A q \in Procs : pc[q] = "idle" \/ Collecting(q)
      BY <2>2, Kinds DEF MarkInv, Collecting
    <3>2. \A d \in Digests : index'[d] = IF d \in op[p].removed THEN "none" ELSE cache[p][d]
      BY <2>1, <2>2, Kinds DEF Updated
    <3>3. \A d \in Digests : index'[d] = "user" <=> index[d] = "user"
      BY <2>1, <3>1, <3>2 DEF MarkInv
    <3>4. \A q \in Procs : Collecting(q)' <=> Collecting(q)
      BY <2>1 DEF Collecting
    <3>5. ASSUME NEW q \in Procs, pc'[q] = "write"
          PROVE  Collecting(q) /\ \A d \in Digests : cache'[q][d] = "user" <=> index'[d] = "user"
      <4>1. q # p /\ pc[q] = "write"
        BY <2>1, <3>5
      <4> QED BY <2>1, <3>1, <3>3, <4>1 DEF MarkInv
    <3>6. \A q \in Procs : pc'[q] = "idle" => pc[q] = "idle"
      BY <2>1
    <3>7. \A q \in Procs : pc[q] = "idle" => pc'[q] = "idle"
      BY <2>1
    <3> QED BY <2>1, <3>1, <3>3, <3>4, <3>5, <3>6, <3>7 DEF MarkInv
  <2>3. CASE op[p] \in RecordOps
    <3>1. /\ ~Collecting(p) /\ op[p].kind = "record" /\ op[p].digest \in objects
      BY <2>3, Kinds DEF MarkInv, Collecting
    <3>2. \A d \in Digests \ objects : index'[d] = cache[p][d]
      BY <2>1, <3>1 DEF Updated, IndexStates
    <3>3. \A d \in Digests \ objects : index'[d] = "none" <=> index[d] = "none"
      BY <2>1, <3>1, <3>2 DEF MarkInv
    <3>4. \A q \in Procs : ~Collecting(q) /\ ~Collecting(q)'
      <4>1. \A q \in Procs : ~Collecting(q)
        BY <2>1, <3>1 DEF MarkInv
      <4> QED BY <2>1, <4>1 DEF Collecting
    <3>5. ASSUME NEW q \in Procs, pc'[q] = "write"
          PROVE  \A d \in Digests \ objects : cache'[q][d] = "none" <=> index'[d] = "none"
      <4>1. q # p /\ pc[q] = "write"
        BY <2>1, <3>5
      <4> QED BY <2>1, <3>3, <3>4, <4>1 DEF MarkInv
    <3>6. \A q \in Procs : pc'[q] = "idle" => pc[q] = "idle"
      BY <2>1
    <3> QED BY <2>1, <3>4, <3>5, <3>6 DEF MarkInv
  <2> QED BY <2>1, <2>2, <2>3
<1>10. ASSUME NEW p \in Procs, IndexFails(p) PROVE MarkInv'
  <2>1. \A q \in Procs : q # p => cache'[q] = cache[q]
    BY <1>10 DEF TypeOK, IndexFails
  <2> QED BY <1>10, <2>1, GotoMarks DEF IndexFails
<1>11. CASE Tick
  BY <1>11 DEF Tick, MarkInv, Collecting
<1>12. CASE UNCHANGED vars
  BY <1>12 DEF vars, MarkInv, Collecting
<1> QED BY <1>1, <1>2, <1>3, <1>4, <1>5, <1>6, <1>7, <1>8, <1>9, <1>10, <1>11, <1>12
        DEF Next, Start, Step

\* Whatever is killed, stalled or stolen, and however stale a writer's copy of the
\* index: no GC removes what the index marks user-supplied, and no digest enters
\* the index before its object is in the store, but by a GC that lost its lock.
THEOREM MarksAreHonoured == Spec => ObjectsOutliveTheirMarks
<1>1. Init => MarkInv
  BY Kinds DEF Init, MarkInv, Collecting
<1> DEFINE Entered(d) == d \in objects \/ (disturbed /\ \E p \in Procs : Collecting(p) /\ WriteIndex(p))
<1>2. IInv /\ MarkInv /\ [Next]_vars =>
        [/\ \A d \in objects \ objects' : index[d] # "user"
         /\ \A d \in Digests : index[d] = "none" /\ index'[d] # "none" => Entered(d)]_vars
  <2> SUFFICES ASSUME IInv, MarkInv, Next
               PROVE  /\ \A d \in objects \ objects' : index[d] # "user"
                      /\ \A d \in Digests : index[d] = "none" /\ index'[d] # "none" => Entered(d)
    OBVIOUS
  <2>0. TypeOK /\ OpInv /\ (~disturbed => LockInv)
    BY DEF IInv
  <2>1. ASSUME NEW p \in Procs, NEW d \in Digests, Sweep(p, d)
        PROVE  index' = index /\ \A e \in objects \ objects' : index[e] # "user"
    <3>1. Collecting(p)
      BY <2>0, <2>1, Kinds DEF OpInv, Sweep, Collecting
    <3> QED BY <2>1, <3>1 DEF Sweep, MarkInv
  <2>2. ASSUME NEW p \in Procs, WriteIndex(p)
        PROVE  /\ objects' = objects
               /\ \A d \in Digests : index[d] = "none" /\ index'[d] # "none" => Entered(d)
    <3>1. /\ pc[p] = "write" /\ index' = Updated(op[p], cache[p]) /\ objects' = objects
          /\ op[p] \in RecordOps \cup GCOps /\ cache[p] \in IndexStates
      BY <2>0, <2>2 DEF TypeOK, OpInv, WriteIndex, Holding
    <3> SUFFICES ASSUME NEW d \in Digests, index[d] = "none", index'[d] # "none", d \notin objects
                 PROVE  disturbed /\ Collecting(p)
      BY <2>2, <3>1
    <3>2. CASE op[p] \in RecordOps
      <4>1. op[p].kind = "record" /\ op[p].digest # d /\ ~Collecting(p)
        BY <3>2, Kinds DEF MarkInv, Collecting
      <4>2. cache[p][d] = "none"
        BY <3>1, <4>1 DEF MarkInv
      <4> QED BY <3>1, <4>1, <4>2 DEF Updated, IndexStates
    <3>3. CASE op[p] \in GCOps
      <4>1. op[p].kind = "gc" /\ Collecting(p)
        BY <3>3, Kinds DEF Collecting
      <4>2. index'[d] = IF d \in op[p].removed THEN "none" ELSE cache[p][d]
        BY <3>1, <4>1 DEF Updated
      <4>3. ~disturbed => cache[p] = index
        BY <2>0, <3>1 DEF LockInv
      <4> QED BY <4>1, <4>2, <4>3
    <3> QED BY <3>1, <3>2, <3>3
  <2>3. ASSUME NEW p \in Procs, NEW d \in Digests, NEW m \in Marks, Ingest(p, d, m)
        PROVE  objects \subseteq objects' /\ index' = index
    BY <2>3 DEF Ingest
  <2>4. \/ \E p \in Procs, d \in Digests : Sweep(p, d)
        \/ \E p \in Procs : WriteIndex(p)
        \/ \E p \in Procs, d \in Digests, m \in Marks : Ingest(p, d, m)
        \/ UNCHANGED <<objects, index>>
    BY DEF Next, Start, Step, StartGC, EndSweep, AbortSweep, CreateLock, CreateDenied, CreateFails, StatLock,
       StealLock, StealFails, WaitLock, ReadIndex, IndexFails, Unlock, UnlockFails, Crash, Tick
  <2> QED BY <2>1, <2>2, <2>3, <2>4
<1>3. IInv /\ MarkInv /\ [Next]_vars => MarkInv'
  BY NextMarkInv DEF IInv
<1> QED BY Invariance, <1>1, <1>2, <1>3, PTL DEF Spec, ObjectsOutliveTheirMarks
=============================================================================
