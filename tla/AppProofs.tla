------------------------------ MODULE AppProofs ------------------------------
(***************************************************************************)
(* Proofs about App: the jobs and the draft, for any jobs, targets and     *)
(* packages and any number of starts, target changes and edits; about the  *)
(* build screen, for any number of builds and any limits; about the        *)
(* virtual list, for any texts and sizes of its answers; and about the     *)
(* package picker, for any packages and any number of targets and acts.    *)
(***************************************************************************)
EXTENDS App, BuildScreen, VirtualList, PickerScreen, FiniteSetTheorems, TLAPS

-----------------------------------------------------------------------------
(* The invariant of the jobs.                                              *)

Job == [running : BOOLEAN, cancelled : BOOLEAN, gen : Nat]
Run == [kind : Kinds, gen : Nat, pc : {"working", "returned", "report"},
        out : {"ok", "failed", "cancelled"}, ct : Targets \cup {None}]
Life == [stopping : BOOLEAN, closePending : BOOLEAN, closeAllowed : BOOLEAN, baseCancelled : BOOLEAN,
         catClosed : BOOLEAN, pc : {"none", "confirm", "stop", "wait", "allow", "quit"}]
SelectCall == [pc : {"none", "checked", "resolving", "waiting", "leaving"}, want : Targets \cup {None}, wait : Nat]
Of(k) == {r \in routines : r.kind = k}

JobTypes ==
  /\ jobs \in [Kinds -> Job]
  /\ routines \subseteq Run /\ IsFiniteSet(routines)
  /\ sent \in [Kinds -> Nat]
  /\ target \in Targets \cup {None}
  /\ life \in Life /\ call \in SelectCall

(* No two goroutines are of one run, and a run that has not ended is the       *)
(* current one of its job.                                                     *)
Distinct == \A r, s \in routines : r.kind = s.kind /\ r.gen = s.gen => r = s
Counted == \A k \in Kinds : sent[k] + Cardinality(Of(k)) = jobs[k].gen
Live == \A r \in routines : r.gen <= jobs[r.kind].gen /\ (r.pc = "report" \/ Current(r))
Served == \A k \in Kinds : jobs[k].running => \E r \in routines : r.kind = k /\ r.pc # "report"

(* A close that has begun keeps new work away until it fails.                  *)
JobsQuiet ==
  /\ life.pc # "none" => life.closePending
  /\ life.pc \in {"allow", "quit"} => (\A k \in Kinds : ~jobs[k].running) /\ call.pc = "none"

JobInv == JobTypes /\ Distinct /\ Counted /\ Live /\ Served /\ JobsQuiet

-----------------------------------------------------------------------------
(* The jobs are kept.                                                      *)

LEMMA Replaced ==
  ASSUME NEW S, IsFiniteSet(S), NEW r \in S, NEW s, s \notin S \ {r}
  PROVE  IsFiniteSet((S \ {r}) \cup {s}) /\ Cardinality((S \ {r}) \cup {s}) = Cardinality(S)
<1>1. IsFiniteSet(S \ {r}) /\ Cardinality(S \ {r}) = Cardinality(S) - 1
  BY FS_RemoveElement
<1>2. Cardinality(S) \in Nat
  BY FS_CardinalityType
<1>3. PICK T : T = S \ {r}
  OBVIOUS
<1>4. IsFiniteSet(T \cup {s}) /\ Cardinality(T \cup {s}) = Cardinality(T) + 1
  BY <1>1, <1>3, FS_AddElement
<1> QED  BY <1>1, <1>2, <1>3, <1>4

LEMMA FiniteOf ==
  ASSUME JobTypes, NEW k
  PROVE  IsFiniteSet(Of(k)) /\ Cardinality(Of(k)) \in Nat
BY FS_Subset, FS_CardinalityType DEF JobTypes, Of

(* The runs go on as they were. *)
LEMMA RunsKept ==
  ASSUME JobInv, UNCHANGED <<routines, sent>>, jobs' \in [Kinds -> Job],
         \A k \in Kinds : jobs'[k].running = jobs[k].running /\ jobs'[k].gen = jobs[k].gen,
         target' \in Targets \cup {None}, life' \in Life, call' \in SelectCall, JobsQuiet'
  PROVE  JobInv'
<1>1. JobTypes' /\ Distinct'
  BY DEF JobInv, JobTypes, Distinct
<1>2. Counted'
  BY DEF JobInv, Counted, Of
<1>3. \A r \in routines : r.kind \in Kinds
  BY DEF JobInv, JobTypes, Run
<1>4. Live'
  BY <1>3 DEF JobInv, Live, Current
<1>5. Served'
  BY DEF JobInv, Served
<1> QED  BY <1>1, <1>2, <1>4, <1>5 DEF JobInv

LEMMA StopKeeps ==
  ASSUME JobTypes, NEW K, jobs' = JobStop(K)
  PROVE  /\ jobs' \in [Kinds -> Job]
         /\ \A k \in Kinds : jobs'[k].running = jobs[k].running /\ jobs'[k].gen = jobs[k].gen
<1>1. \A k \in Kinds : jobs[k] \in Job
  BY DEF JobTypes
<1>2. \A k \in Kinds : jobs'[k] = [jobs[k] EXCEPT !.cancelled = @ \/ (k \in K /\ jobs[k].running)]
  BY DEF JobStop
<1>3. \A k \in Kinds : /\ jobs'[k] \in Job /\ jobs'[k].running = jobs[k].running /\ jobs'[k].gen = jobs[k].gen
  BY <1>1, <1>2 DEF Job
<1>4. jobs' = [k \in Kinds |-> jobs'[k]]
  BY DEF JobStop
<1> QED  BY <1>3, <1>4

(* job.start: the new run is of a generation nobody had. *)
LEMMA StartKeeps ==
  ASSUME JobInv, NEW k \in Kinds, ~jobs[k].running, ~Closing, JobStart(k), UNCHANGED <<target, life, call>>
  PROVE  JobInv'
<1>1. PICK n : n = [kind |-> k, gen |-> jobs[k].gen + 1, pc |-> "working", out |-> "ok", ct |-> target]
  OBVIOUS
<1>t. /\ jobs[k] \in Job /\ jobs \in [Kinds -> Job] /\ routines \subseteq Run /\ IsFiniteSet(routines)
      /\ jobs[k].gen \in Nat /\ sent[k] \in Nat /\ life \in Life
  BY DEF JobInv, JobTypes, Job
<1>2. n \in Run /\ n.kind = k /\ n.gen = jobs[k].gen + 1 /\ n.pc = "working"
  BY <1>1, <1>t DEF Run, JobInv, JobTypes
<1>3. routines' = routines \cup {n} /\ sent' = sent
  BY <1>1 DEF JobStart
<1>4. /\ jobs' \in [Kinds -> Job] /\ jobs'[k].running /\ jobs'[k].gen = jobs[k].gen + 1
      /\ \A j \in Kinds \ {k} : jobs'[j] = jobs[j]
  <2>1. PICK v : v = [running |-> TRUE, cancelled |-> life.baseCancelled, gen |-> jobs[k].gen + 1]
    OBVIOUS
  <2>2. v \in Job /\ v.running /\ v.gen = jobs[k].gen + 1
    BY <1>t, <2>1 DEF Job, Life
  <2>3. jobs' = [jobs EXCEPT ![k] = v]
    BY <2>1 DEF JobStart
  <2> QED  BY <1>t, <2>2, <2>3
<1>5. \A r \in routines : r.kind \in Kinds /\ r.gen \in Nat /\ (r.kind = k => r.gen <= jobs[k].gen /\ r.pc = "report")
  BY <1>t DEF JobInv, Live, Current, Run
<1>6. n \notin routines /\ \A r \in routines : r.kind = k => r.gen # n.gen
  BY <1>2, <1>5, <1>t
<1>7. JobTypes'
  BY <1>2, <1>3, <1>4, <1>t, FS_AddElement DEF JobInv, JobTypes
<1>8. Distinct'
  BY <1>2, <1>3, <1>6 DEF JobInv, Distinct
<1>9. Counted'
  <2>1. Of(k)' = Of(k) \cup {n} /\ n \notin Of(k) /\ \A j \in Kinds \ {k} : Of(j)' = Of(j)
    BY <1>2, <1>3, <1>6 DEF Of
  <2>2. Cardinality(Of(k)') = Cardinality(Of(k)) + 1 /\ Cardinality(Of(k)) \in Nat
    <3>1. JobTypes
      BY DEF JobInv
    <3>2. IsFiniteSet(Of(k)) /\ Cardinality(Of(k)) \in Nat
      BY <3>1, FiniteOf
    <3>3. PICK T : T = Of(k)
      OBVIOUS
    <3>4. Cardinality(T \cup {n}) = Cardinality(T) + 1
      BY <2>1, <3>2, <3>3, FS_AddElement
    <3> QED  BY <2>1, <3>2, <3>3, <3>4
  <2>3. sent[k] + (Cardinality(Of(k)) + 1) = jobs[k].gen + 1
    BY <1>t, <2>2 DEF JobInv, Counted
  <2> QED  BY <1>3, <1>4, <2>1, <2>2, <2>3 DEF JobInv, Counted
<1>10. Live'
  <2>1. \A r \in routines : r.gen <= jobs'[r.kind].gen /\ (r.pc = "report" \/ Current(r)')
    <3>1. ASSUME NEW r \in routines, r.kind = k  PROVE r.gen <= jobs'[r.kind].gen /\ r.pc = "report"
      BY <1>4, <1>5, <1>t, <3>1
    <3>2. ASSUME NEW r \in routines, r.kind # k
          PROVE  r.gen <= jobs'[r.kind].gen /\ (r.pc = "report" \/ Current(r)')
      BY <1>4, <1>5, <3>2 DEF JobInv, Live, Current
    <3> QED  BY <3>1, <3>2
  <2>2. n.gen <= jobs'[n.kind].gen /\ Current(n)'
    BY <1>2, <1>4, <1>t DEF Current
  <2> QED  BY <1>3, <2>1, <2>2 DEF Live
<1>11. Served'
  BY <1>2, <1>3, <1>4 DEF JobInv, Served
<1>12. JobsQuiet'
  <2>1. life.pc = "none"
    BY DEF JobInv, JobsQuiet, Closing
  <2> QED  BY <2>1 DEF JobsQuiet
<1> QED  BY <1>7, <1>8, <1>9, <1>10, <1>11, <1>12 DEF JobInv

(* A goroutine goes on; it stays the only one of its run. *)
LEMMA MovesKeep ==
  ASSUME JobInv, NEW r \in routines, NEW n \in Run, n.kind = r.kind, n.gen = r.gen, n.pc # "report",
         routines' = (routines \ {r}) \cup {n}, UNCHANGED <<jobs, sent, life, call, target>>,
         r.pc # "report"
  PROVE  JobInv'
<1>1. n \notin routines \ {r} /\ r.kind \in Kinds
  BY DEF JobInv, Distinct, JobTypes, Run
<1>2. JobTypes'
  BY <1>1, Replaced DEF JobInv, JobTypes
<1>3. Distinct'
  BY DEF JobInv, Distinct
<1>4. Counted'
  <2>1. JobTypes
    BY DEF JobInv
  <2>2. \A k \in Kinds \ {r.kind} : Of(k)' = Of(k)
    BY DEF Of
  <2>3. Cardinality(Of(r.kind)') = Cardinality(Of(r.kind))
    <3>1. PICK k, T : k = r.kind /\ T = Of(k)
      OBVIOUS
    <3>2. IsFiniteSet(T) /\ r \in T /\ n \notin T \ {r}
      BY <1>1, <2>1, <3>1, FiniteOf DEF Of
    <3>3. Of(k)' = (T \ {r}) \cup {n}
      BY <3>1 DEF Of
    <3>4. Cardinality((T \ {r}) \cup {n}) = Cardinality(T)
      BY <3>2, Replaced
    <3>5. Of(r.kind)' = Of(k)'
      BY <3>1
    <3> QED  BY <3>1, <3>3, <3>4, <3>5
  <2> QED  BY <1>1, <2>2, <2>3 DEF JobInv, Counted
<1>5. Live'
  BY DEF JobInv, Live, Current
<1>6. Served'
  BY DEF JobInv, Served
<1>7. JobsQuiet'
  BY DEF JobInv, JobsQuiet
<1> QED  BY <1>2, <1>3, <1>4, <1>5, <1>6, <1>7 DEF JobInv

LEMMA ReturnKeeps ==
  ASSUME JobInv, NEW r \in routines, Return(r)
  PROVE  JobInv'
<1>1. PICK ok \in BOOLEAN : routines' = (routines \ {r}) \cup
            {[r EXCEPT !.pc = "returned", !.out = IF jobs[r.kind].cancelled THEN "cancelled"
                                                  ELSE IF ok THEN "ok" ELSE "failed"]}
  BY DEF Return
<1>2. PICK n : n = [r EXCEPT !.pc = "returned", !.out = IF jobs[r.kind].cancelled THEN "cancelled"
                                                        ELSE IF ok THEN "ok" ELSE "failed"]
  OBVIOUS
<1>3. r \in Run
  BY DEF JobInv, JobTypes
<1>4. n \in Run /\ n.kind = r.kind /\ n.gen = r.gen /\ n.pc = "returned"
  BY <1>2, <1>3 DEF Run
<1>5. r.pc = "working" /\ UNCHANGED <<jobs, sent, life, call, target>>
  BY DEF Return
<1> QED  BY <1>1, <1>2, <1>4, <1>5, MovesKeep

(* job.finish: the run that ends is the only live one of its job. *)
LEMMA FinishKeeps ==
  ASSUME JobInv, NEW r \in routines, Finish(r)
  PROVE  JobInv'
<1>t. r \in Run /\ r.kind \in Kinds /\ routines \subseteq Run /\ jobs \in [Kinds -> Job] /\ jobs[r.kind] \in Job
  BY DEF JobInv, JobTypes, Run
<1>0. Current(r) /\ r.pc = "returned"
  <2>1. r.pc = "returned"
    BY DEF Finish
  <2> QED  BY <2>1 DEF JobInv, Live
<1>1. PICK k, n, v : k = r.kind /\ n = [r EXCEPT !.pc = "report"]
                     /\ v = [jobs[r.kind] EXCEPT !.running = FALSE, !.cancelled = FALSE]
  OBVIOUS
<1>2. /\ jobs' = [jobs EXCEPT ![k] = v] /\ routines' = (routines \ {r}) \cup {n}
      /\ UNCHANGED <<sent, life, call, target>>
  <2>1. UNCHANGED <<sent, life, call, target>>
    BY DEF Finish
  <2>2. /\ jobs' = [jobs EXCEPT ![r.kind] = [@ EXCEPT !.running = FALSE, !.cancelled = FALSE]]
        /\ routines' = (routines \ {r}) \cup {[r EXCEPT !.pc = "report"]}
    BY <1>0, Zenon DEF Finish
  <2> QED  BY <1>1, <2>1, <2>2
<1>3. /\ k \in Kinds /\ n \in Run /\ n.kind = k /\ n.gen = r.gen /\ n.pc = "report"
      /\ v \in Job /\ ~v.running /\ v.gen = jobs[k].gen
  BY <1>1, <1>t DEF Run, Job
<1>4. /\ jobs' \in [Kinds -> Job] /\ jobs'[k] = v /\ \A j \in Kinds \ {k} : jobs'[j] = jobs[j]
  BY <1>2, <1>3, <1>t
<1>5. /\ n \notin routines \ {r}
      /\ \A s \in routines \ {r} : s.kind = k => s.pc = "report" /\ s.gen # r.gen
  <2>1. \A s \in routines \ {r} : s.kind = k => s.gen # r.gen
    BY <1>1 DEF JobInv, Distinct
  <2>2. r.gen = jobs[k].gen
    BY <1>0, <1>1 DEF Current
  <2>3. \A s \in routines : s.kind = k => s.pc = "report" \/ s.gen = jobs[k].gen
    BY DEF JobInv, Live, Current
  <2> QED  BY <1>3, <2>1, <2>2, <2>3
<1>6. JobTypes'
  BY <1>2, <1>3, <1>4, <1>5, Replaced DEF JobInv, JobTypes
<1>7. Distinct'
  <2>1. \A x, y \in routines \ {r} : x.kind = y.kind /\ x.gen = y.gen => x = y
    BY DEF JobInv, Distinct
  <2>2. \A x \in routines \ {r} : ~(x.kind = n.kind /\ x.gen = n.gen)
    BY <1>3, <1>5
  <2>3. \A x \in routines' : x \in routines \ {r} \/ x = n
    BY <1>2
  <2>4. \A x, y \in routines' : x.kind = y.kind /\ x.gen = y.gen => x = y
    BY <2>1, <2>2, <2>3, Zenon
  <2> QED  BY <2>4 DEF Distinct
<1>8. Counted'
  <2>1. JobTypes
    BY DEF JobInv
  <2>2. \A j \in Kinds \ {k} : Of(j)' = Of(j)
    BY <1>1, <1>2, <1>3 DEF Of
  <2>3. PICK T : T = Of(k)
    OBVIOUS
  <2>4. IsFiniteSet(T) /\ r \in T /\ n \notin T \ {r}
    BY <1>1, <1>5, <2>1, <2>3, FiniteOf DEF Of
  <2>5. Of(k)' = (T \ {r}) \cup {n}
    BY <1>1, <1>2, <1>3, <2>3 DEF Of
  <2>6. Cardinality(Of(k)') = Cardinality(Of(k))
    BY <2>3, <2>4, <2>5, Replaced
  <2>7. \A j \in Kinds : jobs'[j].gen = jobs[j].gen
    BY <1>3, <1>4
  <2> QED  BY <1>2, <2>2, <2>6, <2>7 DEF JobInv, Counted
<1>9. Live'
  <2>1. \A s \in routines \ {r} : s.gen <= jobs'[s.kind].gen /\ (s.pc = "report" \/ Current(s)')
    <3>1. ASSUME NEW s \in routines \ {r}, s.kind = k  PROVE s.gen <= jobs'[s.kind].gen /\ s.pc = "report"
      BY <1>3, <1>4, <1>5, <3>1 DEF JobInv, Live
    <3>2. ASSUME NEW s \in routines \ {r}, s.kind # k
          PROVE  s.gen <= jobs'[s.kind].gen /\ (s.pc = "report" \/ Current(s)')
      <4>1. s.kind \in Kinds \ {k}
        BY <1>t, <3>2 DEF Run
      <4> QED  BY <1>4, <4>1 DEF JobInv, Live, Current
    <3> QED  BY <3>1, <3>2
  <2>2. n.gen <= jobs'[n.kind].gen
    BY <1>1, <1>3, <1>4 DEF JobInv, Live
  <2> QED  BY <1>2, <1>3, <2>1, <2>2 DEF Live
<1>10. Served'
  BY <1>1, <1>2, <1>3, <1>4 DEF JobInv, Served
<1>11. JobsQuiet'
  BY <1>2, <1>3, <1>4 DEF JobInv, JobsQuiet
<1> QED  BY <1>6, <1>7, <1>8, <1>9, <1>10, <1>11 DEF JobInv

LEMMA ReportKeeps ==
  ASSUME JobInv, NEW r \in routines, Report(r)
  PROVE  JobInv'
<1>t. r \in Run /\ r.kind \in Kinds /\ routines \subseteq Run /\ sent \in [Kinds -> Nat]
  BY DEF JobInv, JobTypes, Run
<1>1. PICK k : k = r.kind
  OBVIOUS
<1>2. /\ r.pc = "report" /\ routines' = routines \ {r} /\ sent' = [sent EXCEPT ![k] = @ + 1]
      /\ UNCHANGED <<jobs, life, call, target>>
  BY <1>1 DEF Report
<1>3. sent' \in [Kinds -> Nat] /\ sent'[k] = sent[k] + 1 /\ \A j \in Kinds \ {k} : sent'[j] = sent[j]
  BY <1>1, <1>2, <1>t
<1>4. JobTypes'
  BY <1>2, <1>3, FS_RemoveElement DEF JobInv, JobTypes
<1>5. Distinct' /\ Live' /\ JobsQuiet'
  BY <1>2 DEF JobInv, Distinct, Live, Current, JobsQuiet
<1>6. Served'
  BY <1>2 DEF JobInv, Served
<1>7. Counted'
  <2>1. JobTypes
    BY DEF JobInv
  <2>2. \A j \in Kinds \ {k} : Of(j)' = Of(j)
    BY <1>1, <1>2 DEF Of
  <2>3. PICK T : T = Of(k)
    OBVIOUS
  <2>4. IsFiniteSet(T) /\ Cardinality(T) \in Nat /\ r \in T
    BY <1>1, <2>1, <2>3, FiniteOf DEF Of
  <2>5. Of(k)' = T \ {r}
    BY <1>2, <2>3 DEF Of
  <2>6. Cardinality(T \ {r}) = Cardinality(T) - 1
    BY <2>4, FS_RemoveElement
  <2>7. sent'[k] + Cardinality(Of(k)') = jobs[k].gen
    <3>1. sent[k] + Cardinality(T) = jobs[k].gen /\ sent[k] \in Nat
      BY <1>1, <1>t, <2>3 DEF JobInv, Counted
    <3> QED  BY <1>3, <2>4, <2>5, <2>6, <3>1
  <2> QED  BY <1>2, <1>3, <2>2, <2>7 DEF JobInv, Counted
<1> QED  BY <1>4, <1>5, <1>6, <1>7 DEF JobInv

(* Starting, of any job. *)
LEMMA StartJobs ==
  ASSUME JobInv, \/ \E k \in Kinds : StartSideJob(k)
                 \/ StartBuild
                 \/ \E force \in BOOLEAN : StartCatalogBuild(force)
  PROVE  \E k \in Kinds : ~jobs[k].running /\ ~Closing /\ JobStart(k) /\ UNCHANGED <<target, life, call>>
<1>1. CASE \E k \in Kinds : StartSideJob(k)
  BY <1>1 DEF StartSideJob, Running, MutationError
<1>2. CASE StartBuild
  BY <1>2 DEF StartBuild, Running, MutationError
<1>3. CASE \E force \in BOOLEAN : StartCatalogBuild(force)
  BY <1>3 DEF StartCatalogBuild, Running, MutationError
<1> QED  BY <1>1, <1>2, <1>3

(* Cancelling and stopping. *)
LEMMA StopJobs ==
  ASSUME JobInv, (\E k \in Kinds : Cancel(k)) \/ SelectTargetStopCatalog \/ CloseStop \/ Shutdown
  PROVE  /\ \E K : jobs' = JobStop(K)
         /\ UNCHANGED <<routines, sent, target>> /\ life' \in Life /\ call' \in SelectCall /\ JobsQuiet'
<1>t. life \in Life /\ call \in SelectCall /\ \A k \in Kinds : jobs[k] \in Job
  BY DEF JobInv, JobTypes
<1>q. ASSUME NEW K, jobs' = JobStop(K)
      PROVE  \A k \in Kinds : jobs'[k].running = jobs[k].running
  BY <1>q, StopKeeps DEF JobInv
<1>1. CASE \E k \in Kinds : Cancel(k)
  <2>1. PICK k \in Kinds : Cancel(k)
    BY <1>1
  <2>2. jobs' = JobStop({k}) /\ UNCHANGED <<routines, sent, target, life, call>>
    BY <2>1 DEF Cancel
  <2>3. \A j \in Kinds : jobs'[j].running = jobs[j].running
    BY <1>q, <2>2
  <2> QED  BY <1>t, <2>2, <2>3 DEF JobInv, JobsQuiet
<1>2. CASE SelectTargetStopCatalog
  <2>1. /\ jobs' = JobStop({"catalog"}) /\ UNCHANGED <<routines, sent, target, life>>
        /\ call.pc = "resolving"
        /\ call' = [call EXCEPT !.pc = "waiting", !.wait = IF Running("catalog") THEN jobs["catalog"].gen ELSE 0]
    BY <1>2 DEF SelectTargetStopCatalog
  <2>2. call' \in SelectCall
    BY <1>t, <2>1 DEF SelectCall, Running, Job
  <2>3. life.pc \notin {"allow", "quit"}
    BY <2>1 DEF JobInv, JobsQuiet
  <2> QED  BY <1>t, <2>1, <2>2, <2>3 DEF JobInv, JobsQuiet
<1>3. CASE CloseStop
  <2>1. /\ jobs' = JobStop(Kinds) /\ UNCHANGED <<routines, sent, target, call>>
        /\ life.pc = "stop" /\ life' = [life EXCEPT !.pc = "wait", !.stopping = TRUE]
    BY <1>3 DEF CloseStop, StopAll, lifeOnly
  <2>2. life' \in Life /\ life'.pc = "wait" /\ life'.closePending = life.closePending
    BY <1>t, <2>1 DEF Life
  <2> QED  BY <1>t, <2>1, <2>2 DEF JobInv, JobsQuiet
<1>4. CASE Shutdown
  <2>1. /\ jobs' = JobStop(Kinds) /\ UNCHANGED <<routines, sent, target, call>>
        /\ life' = [life EXCEPT !.stopping = TRUE, !.baseCancelled = TRUE]
    BY <1>4 DEF Shutdown, StopAll, lifeOnly
  <2>2. life' \in Life /\ life'.pc = life.pc /\ life'.closePending = life.closePending
    BY <1>t, <2>1 DEF Life
  <2>3. \A j \in Kinds : jobs'[j].running = jobs[j].running
    BY <1>q, <2>1
  <2> QED  BY <1>t, <2>1, <2>2, <2>3 DEF JobInv, JobsQuiet
<1> QED  BY <1>1, <1>2, <1>3, <1>4

(* Steps of the window and of SelectTarget that leave the jobs alone. *)
LEMMA WindowKeeps ==
  ASSUME JobInv, BeforeClose \/ Confirm \/ CloseFailed \/ CloseTick \/ CloseAllow \/ CloseCatalog
  PROVE  UNCHANGED <<jobVars, target, call>> /\ life' \in Life /\ JobsQuiet'
<1>t. life \in Life
  BY DEF JobInv, JobTypes
<1>0. UNCHANGED <<jobVars, target, call>>
  BY DEF BeforeClose, Confirm, CloseFailed, CloseTick, CloseAllow, CloseCatalog, lifeOnly, jobVars
<1>1. life' \in Life
  BY <1>t DEF BeforeClose, Confirm, CloseFailed, CloseTick, CloseAllow, CloseCatalog, Life
<1>2. life'.pc # "none" => life'.closePending
  BY <1>t DEF BeforeClose, Confirm, CloseFailed, CloseTick, CloseAllow, CloseCatalog, Life, JobInv, JobsQuiet
<1>3. life'.pc \in {"allow", "quit"} => life.pc \in {"allow", "quit"} \/ JobsStopped
  BY <1>t DEF BeforeClose, Confirm, CloseFailed, CloseTick, CloseAllow, CloseCatalog, Life
<1>4. JobsQuiet'
  BY <1>0, <1>2, <1>3 DEF JobInv, JobsQuiet, JobsStopped, jobVars
<1> QED  BY <1>0, <1>1, <1>4

LEMMA TargetKeeps ==
  ASSUME JobInv, \/ \E t \in Targets : SelectTargetBegin(t)
                 \/ SelectTargetReturn \/ SelectTargetArm \/ SelectTargetCommit \/ ClearTarget
  PROVE  UNCHANGED <<jobVars, life>> /\ call' \in SelectCall /\ target' \in Targets \cup {None} /\ JobsQuiet'
<1>t. call \in SelectCall /\ target \in Targets \cup {None}
  BY DEF JobInv, JobTypes
<1>0. UNCHANGED <<jobVars, life>>
  BY DEF SelectTargetBegin, SelectTargetReturn, SelectTargetArm, SelectTargetCommit, ClearTarget, jobVars
<1>1. call' \in SelectCall
  <2>1. CASE \E t \in Targets : SelectTargetBegin(t)
    BY <2>1 DEF SelectTargetBegin, SelectCall
  <2>2. CASE SelectTargetReturn
    BY <2>2 DEF SelectTargetReturn, NoCall, SelectCall
  <2>3. CASE SelectTargetArm \/ SelectTargetCommit \/ ClearTarget
    <3>1. call' = call \/ call' = [call EXCEPT !.pc = "resolving"] \/ call' = [call EXCEPT !.pc = "leaving"]
      BY <2>3 DEF SelectTargetArm, SelectTargetCommit, ClearTarget
    <3> QED  BY <1>t, <3>1 DEF SelectCall
  <2> QED  BY <2>1, <2>2, <2>3
<1>2. target' \in Targets \cup {None}
  <2>1. call.want \in Targets \cup {None}
    BY <1>t DEF SelectCall
  <2>2. target' \in {target, call.want, None}
    BY DEF SelectTargetBegin, SelectTargetReturn, SelectTargetArm, SelectTargetCommit, ClearTarget
  <2> QED  BY <1>t, <2>1, <2>2
<1>3. call'.pc = "none" \/ call' = call \/ life.pc \notin {"allow", "quit"}
  <2>1. CASE \E t \in Targets : SelectTargetBegin(t)
    BY <2>1 DEF SelectTargetBegin, MutationError, Closing, JobInv, JobsQuiet
  <2>2. CASE SelectTargetReturn
    BY <2>2 DEF SelectTargetReturn, NoCall
  <2>3. CASE SelectTargetArm \/ SelectTargetCommit \/ ClearTarget
    BY <2>3 DEF SelectTargetArm, SelectTargetCommit, ClearTarget, MutationError, Closing, JobInv, JobsQuiet
  <2> QED  BY <2>1, <2>2, <2>3
<1>4. JobsQuiet'
  BY <1>0, <1>3 DEF JobInv, JobsQuiet, jobVars
<1> QED  BY <1>0, <1>1, <1>2, <1>4

(* Edits of the draft. *)
Edit ==
  \/ \E K \in (SUBSET AptKeys) \ {{}} : AddBegin(K, None)
  \/ \E K \in (SUBSET UrlKeys) \ {{}}, d \in Digests \cup {None} : AddBegin(K, d)
  \/ AddLookup \/ AddCommit
  \/ \E K \in SUBSET Keys : RemovePackages(K)
  \/ ClearSelection
  \/ \E token \in 1..MaxRev : UndoSelection(token)

LEMMA EditKeeps ==
  ASSUME Edit
  PROVE  UNCHANGED <<jobVars, life, call, target>> /\ UNCHANGED <<tgen, cat, build, made>>
BY DEF Edit, AddBegin, AddLookup, AddCommit, RemovePackages, ClearSelection, UndoSelection

LEMMA JobsPreserved ==
  ASSUME JobInv, [Next]_vars
  PROVE  JobInv'
<1>t. jobs \in [Kinds -> Job] /\ target \in Targets \cup {None} /\ life \in Life /\ call \in SelectCall
  BY DEF JobInv, JobTypes
<1>1. CASE Routine
  BY <1>1, ReturnKeeps, FinishKeeps, ReportKeeps DEF Routine
<1>2. CASE \/ \E k \in Kinds : StartSideJob(k)
           \/ StartBuild
           \/ \E force \in BOOLEAN : StartCatalogBuild(force)
  BY <1>2, StartJobs, StartKeeps
<1>3. CASE (\E k \in Kinds : Cancel(k)) \/ SelectTargetStopCatalog \/ CloseStop \/ Shutdown
  <2>1. PICK K : jobs' = JobStop(K)
    BY <1>3, StopJobs
  <2>2. UNCHANGED <<routines, sent, target>> /\ life' \in Life /\ call' \in SelectCall /\ JobsQuiet'
    BY <1>3, StopJobs
  <2>3. /\ jobs' \in [Kinds -> Job]
        /\ \A k \in Kinds : jobs'[k].running = jobs[k].running /\ jobs'[k].gen = jobs[k].gen
    BY <2>1, StopKeeps DEF JobInv
  <2> QED  BY <1>t, <2>2, <2>3, RunsKept
<1>4. CASE BeforeClose \/ Confirm \/ CloseFailed \/ CloseTick \/ CloseAllow \/ CloseCatalog
  <2>1. UNCHANGED <<jobVars, target, call>> /\ life' \in Life /\ JobsQuiet'
    BY <1>4, WindowKeeps
  <2> QED  BY <1>t, <2>1, RunsKept DEF jobVars
<1>5. CASE \/ \E t \in Targets : SelectTargetBegin(t)
           \/ SelectTargetReturn \/ SelectTargetArm \/ SelectTargetCommit \/ ClearTarget
  <2>1. UNCHANGED <<jobVars, life>> /\ call' \in SelectCall /\ target' \in Targets \cup {None} /\ JobsQuiet'
    BY <1>5, TargetKeeps
  <2> QED  BY <1>t, <2>1, RunsKept DEF jobVars
<1>6. CASE UNCHANGED <<jobVars, life, call, target>>
  <2>1. JobsQuiet'
    BY <1>6 DEF JobInv, JobsQuiet, jobVars
  <2> QED  BY <1>t, <1>6, <2>1, RunsKept DEF jobVars
<1>7. CASE Edit \/ UNCHANGED vars
  BY <1>6, <1>7, EditKeeps DEF vars
<1> QED  BY <1>1, <1>2, <1>3, <1>4, <1>5, <1>7 DEF Next, TargetStep, CloseStep, Edit

LEMMA InitialJobs == Init => JobInv
<1> SUFFICES ASSUME Init PROVE JobInv
  OBVIOUS
<1>1. JobTypes
  BY FS_EmptySet DEF Init, JobTypes, Job, Life, SelectCall, NoCall
<1>2. \A k \in Kinds : Of(k) = {}
  BY DEF Init, Of
<1>3. Counted
  <2>1. Cardinality({}) = 0
    BY FS_EmptySet
  <2>2. \A k \in Kinds : Cardinality(Of(k)) = 0
    BY <1>2, <2>1
  <2>3. \A k \in Kinds : sent[k] = 0 /\ jobs[k].gen = 0
    BY DEF Init
  <2> QED  BY <2>2, <2>3 DEF Counted
<1>4. Distinct /\ Live /\ Served /\ JobsQuiet
  BY DEF Init, Distinct, Live, Served, JobsQuiet
<1> QED  BY <1>1, <1>3, <1>4 DEF JobInv

(* The job table never loses a run, no result is dropped as stale and none is    *)
(* reported twice, however starts, cancellations, target changes and closings    *)
(* overlap; and nothing is under way once the window may go (job.start,          *)
(* job.finish, runClose).                                                        *)
THEOREM NoRunIsLost == Spec => []RunsAccountedFor
<1>1. Init => JobInv
  BY InitialJobs
<1>2. JobInv => RunsAccountedFor
  BY DEF JobInv, Counted, Live, Served, JobsQuiet, Of, RunsAccountedFor
<1> QED  BY <1>1, <1>2, JobsPreserved, PTL DEF Spec

-----------------------------------------------------------------------------
(* The invariant of the draft.                                             *)

Trays == [Keys -> Entry \cup {None}]
Status == [state : {"none", "not-built", "building", "ready", "failed", "cancelled"},
           ready : BOOLEAN, bound : Targets \cup {None}, disk : SUBSET Targets]
Adding == [pc : {"none", "lookup", "commit"}, keys : SUBSET Keys, digest : Digests \cup {None},
           gen : Nat, known : SUBSET Keys]
Undoing == [token : Nat, rev : Nat, target : Nat, entries : Trays \cup {None}]

DraftTypes ==
  /\ sel \in Trays /\ rev \in Nat \ {0} /\ tgen \in Nat
  /\ cat \in Status /\ add \in Adding /\ undo \in Undoing
  /\ call.pc # "none" => call.want \in Targets
  /\ undo.token # 0 => undo.entries \in Trays
  /\ add.gen <= tgen

(* What is captured of a build, and of the last complete one. *)
Captured ==
  /\ build = [tgen |-> build.tgen, rev |-> build.rev, inputs |-> build.inputs,
              completeTarget |-> build.completeTarget, completeSelection |-> build.completeSelection]
  /\ build.completeTarget \in Nat /\ build.completeTarget <= tgen
  /\ build.completeSelection \in Nat /\ build.completeSelection <= rev

(* What is known of a tray is what the target lists. *)
Listed(s) == \A k \in AptKeys : s[k] # None /\ s[k].known => target # None /\ k \in Content[target]

(* A catalogue build is of the chosen target, which does not change before it  *)
(* ends; and it succeeds only while the catalogue is open.                     *)
CatalogInv ==
  /\ cat.ready => target # None /\ cat.bound = target /\ target \in cat.disk
  /\ target # None /\ ~life.catClosed => cat.bound = target
  /\ call.pc = "waiting" /\ Running("catalog") => jobs["catalog"].gen = call.wait
  /\ \A r \in routines : r.kind = "catalog" /\ r.pc # "report" =>
        /\ target # None /\ r.ct = target
        /\ r.pc = "returned" /\ r.out = "ok" => ~life.catClosed /\ r.ct \in cat.disk

(* Marks, the undo and the lookup under way speak of the target of their time. *)
MarksInv ==
  /\ Listed(sel)
  /\ undo.token # 0 /\ undo.target = tgen => Listed(undo.entries)
  /\ add.pc = "commit" /\ add.gen = tgen =>
        \A k \in add.known : target # None /\ k \in Content[target]

(* A running build is of the draft as it is, since it keeps edits away.        *)
SavedInv ==
  /\ build.completeTarget = tgen /\ build.completeSelection = rev =>
        made = [target |-> target, inputs |-> Inputs(sel)]
  /\ Running("build") => build.tgen = tgen /\ build.rev = rev /\ build.inputs = Inputs(sel)
  /\ \A r \in routines : r.kind = "build" /\ r.pc # "report" => r.ct = target

DraftInv == DraftTypes /\ Captured /\ CatalogInv /\ MarksInv /\ SavedInv

-----------------------------------------------------------------------------
(* Facts about trays and runs.                                             *)

LEMMA Revalidation ==
  ASSUME sel \in Trays, NEW ready \in BOOLEAN, NEW bound, NEW lookup \in BOOLEAN
  PROVE  /\ Revalidated(ready, bound, lookup) \in Trays
         /\ Inputs(Revalidated(ready, bound, lookup)) = Inputs(sel)
         /\ \A k \in AptKeys : LET e == Revalidated(ready, bound, lookup)[k]
                               IN  e # None /\ e.known => ready /\ k \in Content[bound]
<1>1. PICK R : R = Revalidated(ready, bound, lookup)
  OBVIOUS
<1>2. \A k \in Keys : R[k] = IF sel[k] # None /\ k \in AptKeys
                             THEN [sel[k] EXCEPT !.known = ready /\ lookup /\ k \in Content[bound]]
                             ELSE sel[k]
  BY <1>1 DEF Revalidated
<1>3. \A k \in Keys : sel[k] \in Entry \cup {None}
  BY DEF Trays
<1>4. ASSUME NEW k \in Keys
      PROVE  /\ R[k] \in Entry \cup {None} /\ (R[k] # None <=> sel[k] # None)
             /\ sel[k] # None => R[k].digest = sel[k].digest
             /\ k \in AptKeys /\ R[k] # None /\ R[k].known => ready /\ k \in Content[bound]
  <2>1. CASE sel[k] # None /\ k \in AptKeys
    <3>1. sel[k] \in Entry
      BY <1>3, <2>1
    <3>2. PICK b \in BOOLEAN : b = (ready /\ lookup /\ k \in Content[bound])
      OBVIOUS
    <3>3. R[k] = [sel[k] EXCEPT !.known = b]
      BY <1>2, <2>1, <3>2
    <3>4. R[k] \in Entry /\ R[k].digest = sel[k].digest /\ R[k].known = b
      BY <3>1, <3>3 DEF Entry
    <3>5. R[k] # None
      BY <3>4, ConstantsAssumption
    <3> QED  BY <2>1, <3>2, <3>4, <3>5
  <2>2. CASE sel[k] = None \/ k \notin AptKeys
    BY <1>2, <1>3, <2>2
  <2> QED  BY <2>1, <2>2
<1>5. R \in Trays
  <2>1. R = [k \in Keys |-> R[k]]
    BY <1>1 DEF Revalidated
  <2> QED  BY <1>4, <2>1 DEF Trays
<1>6. Inputs(R) = Inputs(sel)
  <2>1. {x \in Keys : R[x] # None} = {x \in Keys : sel[x] # None}
    BY <1>4
  <2> QED  BY <1>4, <2>1 DEF Inputs
<1>7. \A k \in AptKeys : R[k] # None /\ R[k].known => ready /\ k \in Content[bound]
  BY <1>4 DEF Keys
<1> QED  BY <1>1, <1>5, <1>6, <1>7

LEMMA IdleRuns ==
  ASSUME JobInv, NEW k, ~Running(k)
  PROVE  \A r \in routines : r.kind = k => r.pc = "report"
BY DEF JobInv, JobTypes, Run, Live, Current, Running

Rest == <<sel, rev, undo, tgen, target, cat, add, build, made>>

(* The draft and the runs stay; the call in flight, and how the window closes, may not. *)
LEMMA DraftKept ==
  ASSUME JobInv, DraftInv, UNCHANGED Rest, UNCHANGED routines, life'.catClosed = life.catClosed,
         \A k \in Kinds : jobs'[k].running = jobs[k].running /\ jobs'[k].gen = jobs[k].gen,
         call'.pc # "none" => call'.want \in Targets,
         call'.pc = "waiting" /\ Running("catalog") => jobs["catalog"].gen = call'.wait
  PROVE  DraftInv'
<1>1. \A k : Running(k)' <=> Running(k)
  BY DEF Running
<1>2. DraftTypes' /\ Captured'
  BY DEF DraftInv, DraftTypes, Captured, Rest
<1>3. CatalogInv'
  <2>1. call'.pc = "waiting" /\ Running("catalog") => jobs'["catalog"].gen = call'.wait
    BY DEF Running
  <2> QED  BY <1>1, <2>1 DEF DraftInv, CatalogInv, Rest
<1>4. MarksInv'
  BY DEF DraftInv, MarksInv, Listed, Rest
<1>5. SavedInv'
  <2>1. Inputs(sel)' = Inputs(sel)
    BY DEF Inputs, Rest
  <2> QED  BY <1>1, <2>1 DEF DraftInv, SavedInv, Rest
<1> QED  BY <1>2, <1>3, <1>4, <1>5 DEF DraftInv

LEMMA StopKeepsDraft ==
  ASSUME JobInv, DraftInv, (\E k \in Kinds : Cancel(k)) \/ SelectTargetStopCatalog \/ CloseStop \/ Shutdown
  PROVE  DraftInv'
<1>t. life \in Life /\ call \in SelectCall /\ JobTypes
  BY DEF JobInv, JobTypes
<1>1. \A k \in Kinds : jobs'[k].running = jobs[k].running /\ jobs'[k].gen = jobs[k].gen
  BY <1>t, StopJobs, StopKeeps
<1>2. UNCHANGED Rest /\ UNCHANGED routines
  BY DEF Cancel, SelectTargetStopCatalog, CloseStop, Shutdown, lifeOnly, draftVars, Rest
<1>3. life'.catClosed = life.catClosed
  BY <1>t DEF Cancel, SelectTargetStopCatalog, CloseStop, Shutdown, Life
<1>4. CASE SelectTargetStopCatalog
  <2>1. /\ call.pc = "resolving"
        /\ call' = [call EXCEPT !.pc = "waiting", !.wait = IF Running("catalog") THEN jobs["catalog"].gen ELSE 0]
    BY <1>4 DEF SelectTargetStopCatalog
  <2>2. call'.want = call.want /\ (Running("catalog") => call'.wait = jobs["catalog"].gen)
    BY <1>t, <2>1 DEF SelectCall
  <2>3. call.want \in Targets
    BY <2>1 DEF DraftInv, DraftTypes
  <2> QED  BY <1>1, <1>2, <1>3, <2>2, <2>3, DraftKept
<1>5. CASE call' = call
  <2>1. call'.pc = "waiting" /\ Running("catalog") => jobs["catalog"].gen = call'.wait
    BY <1>5 DEF DraftInv, CatalogInv
  <2>2. call'.pc # "none" => call'.want \in Targets
    BY <1>5 DEF DraftInv, DraftTypes
  <2> QED  BY <1>1, <1>2, <1>3, <2>1, <2>2, DraftKept
<1> QED  BY <1>4, <1>5 DEF Cancel, CloseStop, Shutdown

LEMMA WindowKeepsDraft ==
  ASSUME JobInv, DraftInv, BeforeClose \/ Confirm \/ CloseFailed \/ CloseTick \/ CloseAllow
  PROVE  DraftInv'
<1>t. life \in Life
  BY DEF JobInv, JobTypes
<1>1. UNCHANGED <<jobs, call>> /\ UNCHANGED Rest /\ UNCHANGED routines
  BY DEF BeforeClose, Confirm, CloseFailed, CloseTick, CloseAllow, lifeOnly, draftVars, Rest
<1>2. life'.catClosed = life.catClosed
  BY <1>t DEF BeforeClose, Confirm, CloseFailed, CloseTick, CloseAllow, Life
<1>3. /\ call'.pc = "waiting" /\ Running("catalog") => jobs["catalog"].gen = call'.wait
      /\ call'.pc # "none" => call'.want \in Targets
  BY <1>1 DEF DraftInv, CatalogInv, DraftTypes
<1> QED  BY <1>1, <1>2, <1>3, DraftKept

LEMMA CloseCatalogKeepsDraft ==
  ASSUME JobInv, DraftInv, CloseCatalog
  PROVE  DraftInv'
<1>1. UNCHANGED <<jobs, call>> /\ UNCHANGED Rest /\ UNCHANGED routines /\ JobsStopped
  BY DEF CloseCatalog, lifeOnly, draftVars, Rest
<1>2. \A r \in routines : r.pc = "report"
  BY <1>1 DEF JobsStopped, JobInv, JobTypes, Run, Live, Current
<1>3. life'.catClosed
  BY DEF CloseCatalog, JobInv, JobTypes, Life
<1>4. DraftTypes' /\ Captured'
  BY <1>1 DEF DraftInv, DraftTypes, Captured, Rest
<1>5. CatalogInv'
  BY <1>1, <1>2, <1>3 DEF DraftInv, CatalogInv, Rest, Running
<1>6. MarksInv'
  BY <1>1 DEF DraftInv, MarksInv, Listed, Rest
<1>7. SavedInv'
  <2>1. Inputs(sel)' = Inputs(sel)
    BY <1>1 DEF Inputs, Rest
  <2> QED  BY <1>1, <2>1 DEF DraftInv, SavedInv, Rest, Running
<1> QED  BY <1>4, <1>5, <1>6, <1>7 DEF DraftInv

-----------------------------------------------------------------------------
(* The runs and the draft.                                                 *)

LEMMA ReturnKeepsDraft ==
  ASSUME JobInv, DraftInv, NEW r \in routines, Return(r)
  PROVE  DraftInv'
<1>t. r \in Run /\ r.kind \in Kinds /\ cat \in Status /\ r.ct \in Targets \cup {None}
  BY DEF JobInv, JobTypes, Run, DraftInv, DraftTypes
<1>1. PICK ok \in BOOLEAN :
         /\ ok => ~(r.kind = "catalog" /\ life.catClosed)
         /\ routines' = (routines \ {r}) \cup
              {[r EXCEPT !.pc = "returned", !.out = IF jobs[r.kind].cancelled THEN "cancelled"
                                                    ELSE IF ok THEN "ok" ELSE "failed"]}
         /\ cat' = IF r.kind = "catalog" /\ ok THEN [cat EXCEPT !.disk = @ \cup {r.ct}] ELSE cat
  BY DEF Return
<1>2. PICK n : n = [r EXCEPT !.pc = "returned", !.out = IF jobs[r.kind].cancelled THEN "cancelled"
                                                        ELSE IF ok THEN "ok" ELSE "failed"]
  OBVIOUS
<1>3. n.kind = r.kind /\ n.pc = "returned" /\ n.ct = r.ct /\ (n.out = "ok" => ok)
  BY <1>2, <1>t DEF Run
<1>4. r.pc = "working" /\ UNCHANGED <<jobs, life, call, target, tgen, sel, rev, undo, add, build, made>>
  BY DEF Return, draftVars
<1>5. \A x \in routines' : x \in routines \/ x = n
  BY <1>1, <1>2
<1>6. r.kind = "catalog" => target # None /\ r.ct = target
  BY <1>4 DEF DraftInv, CatalogInv
<1>7. /\ cat' \in Status /\ cat'.ready = cat.ready /\ cat'.bound = cat.bound
      /\ cat.disk \subseteq cat'.disk /\ (r.kind = "catalog" /\ ok => r.ct \in cat'.disk)
  <2>1. CASE r.kind = "catalog" /\ ok
    <3>1. r.ct \in Targets
      BY <1>6, <1>t, <2>1
    <3>2. cat' = [cat EXCEPT !.disk = @ \cup {r.ct}]
      BY <1>1, <2>1
    <3> QED  BY <1>t, <3>1, <3>2 DEF Status
  <2>2. CASE ~(r.kind = "catalog" /\ ok)
    <3>1. cat' = cat
      BY <1>1, <2>2
    <3> QED  BY <1>t, <2>2, <3>1
  <2> QED  BY <2>1, <2>2
<1>8. DraftTypes' /\ Captured'
  BY <1>4, <1>7 DEF DraftInv, DraftTypes, Captured
<1>9. CatalogInv'
  <2>1. ASSUME NEW x \in routines', x.kind = "catalog", x.pc # "report"
        PROVE  /\ target # None /\ x.ct = target
               /\ x.pc = "returned" /\ x.out = "ok" => ~life.catClosed /\ x.ct \in cat'.disk
    <3>1. CASE x \in routines
      BY <1>7, <2>1, <3>1 DEF DraftInv, CatalogInv
    <3>2. CASE x = n
      BY <1>1, <1>3, <1>6, <1>7, <2>1, <3>2
    <3> QED  BY <1>5, <3>1, <3>2
  <2>2. Running("catalog")' <=> Running("catalog")
    BY <1>4 DEF Running
  <2>3. cat.ready => target # None /\ cat'.bound = target /\ target \in cat'.disk
    BY <1>7 DEF DraftInv, CatalogInv
  <2> QED  BY <1>4, <1>7, <2>1, <2>2, <2>3 DEF DraftInv, CatalogInv
<1>10. MarksInv'
  BY <1>4 DEF DraftInv, MarksInv, Listed
<1>11. SavedInv'
  <2>1. Inputs(sel)' = Inputs(sel) /\ (Running("build")' <=> Running("build"))
    BY <1>4 DEF Inputs, Running
  <2>2. \A x \in routines' : x.kind = "build" /\ x.pc # "report" => x.ct = target
    BY <1>3, <1>4, <1>5 DEF DraftInv, SavedInv
  <2> QED  BY <1>4, <2>1, <2>2 DEF DraftInv, SavedInv
<1> QED  BY <1>8, <1>9, <1>10, <1>11 DEF DraftInv

LEMMA ReportKeepsDraft ==
  ASSUME JobInv, DraftInv, NEW r \in routines, Report(r)
  PROVE  DraftInv'
<1>1. routines' \subseteq routines /\ UNCHANGED <<jobs, life, call>> /\ UNCHANGED Rest
  BY DEF Report, Rest, draftVars
<1>2. DraftTypes' /\ Captured'
  BY <1>1 DEF DraftInv, DraftTypes, Captured, Rest
<1>3. CatalogInv'
  BY <1>1 DEF DraftInv, CatalogInv, Rest, Running
<1>4. MarksInv'
  BY <1>1 DEF DraftInv, MarksInv, Listed, Rest
<1>5. SavedInv'
  <2>1. Inputs(sel)' = Inputs(sel) /\ (Running("build")' <=> Running("build"))
    BY <1>1 DEF Inputs, Running, Rest
  <2> QED  BY <1>1, <2>1 DEF DraftInv, SavedInv, Rest
<1> QED  BY <1>2, <1>3, <1>4, <1>5 DEF DraftInv

(* The end of a run.  A catalogue that becomes ready is the chosen target's,    *)
(* and a build that is saved is of the draft as it is.                          *)
LEMMA FinishKeepsDraft ==
  ASSUME JobInv, DraftInv, NEW r \in routines, Finish(r)
  PROVE  DraftInv'
<1>t. r \in Run /\ r.kind \in Kinds /\ jobs \in [Kinds -> Job] /\ jobs[r.kind] \in Job
      /\ cat \in Status /\ sel \in Trays /\ r.out \in {"ok", "failed", "cancelled"}
  BY DEF JobInv, JobTypes, Run, DraftInv, DraftTypes
<1>0. r.pc = "returned" /\ UNCHANGED <<life, call, target, tgen, rev, undo, add>>
  BY DEF Finish
<1>1. Current(r)
  BY <1>0 DEF JobInv, Live
<1>2. /\ jobs' = [jobs EXCEPT ![r.kind] = [@ EXCEPT !.running = FALSE, !.cancelled = FALSE]]
      /\ routines' = (routines \ {r}) \cup {[r EXCEPT !.pc = "report"]}
      /\ CASE r.kind = "catalog" -> CatalogFinished(r)
           [] r.kind = "build" -> BuildFinished(r)
           [] OTHER -> UNCHANGED <<cat, sel, build, made>>
  BY <1>1, Zenon DEF Finish
<1>3. \A x \in routines' : x.pc = "report" \/ x \in routines
  BY <1>2, <1>t DEF Run
<1>4. Running(r.kind) /\ \A k : Running(k)' => Running(k) /\ jobs'[k] = jobs[k] /\ k # r.kind
  BY <1>1, <1>2, <1>t DEF Running, Current, Job
<1>5. CASE r.kind = "catalog"
  <2>1. CatalogFinished(r)
    BY <1>2, <1>5
  <2>2. /\ cat' = [cat EXCEPT !.ready = @ \/ r.out = "ok", !.state = IF r.out = "ok" THEN "ready" ELSE r.out]
        /\ UNCHANGED <<build, made>>
    BY <2>1 DEF CatalogFinished
  <2>3. PICK lookup \in BOOLEAN : sel' = Revalidated(cat'.ready, cat.bound, lookup)
    <3>1. PICK l \in BOOLEAN : sel' = Revalidated(cat'.ready, cat.bound, l /\ r.out # "cancelled")
      BY <2>1 DEF CatalogFinished
    <3>2. (l /\ r.out # "cancelled") \in BOOLEAN
      OBVIOUS
    <3> QED  BY <3>1, <3>2
  <2>4. /\ cat' \in Status /\ cat'.ready = (cat.ready \/ r.out = "ok")
        /\ cat'.bound = cat.bound /\ cat'.disk = cat.disk
    BY <1>t, <2>2 DEF Status
  <2>5. cat'.ready => target # None /\ cat.bound = target /\ target \in cat.disk
    <3>1. r.out = "ok" => target # None /\ r.ct = target /\ ~life.catClosed /\ r.ct \in cat.disk
      BY <1>0, <1>5 DEF DraftInv, CatalogInv
    <3> QED  BY <2>4, <3>1 DEF DraftInv, CatalogInv
  <2>6. /\ sel' \in Trays /\ Inputs(sel') = Inputs(sel)
        /\ \A k \in AptKeys : sel'[k] # None /\ sel'[k].known => cat'.ready /\ k \in Content[cat.bound]
    <3>1. PICK b \in BOOLEAN : b = cat'.ready
      BY <2>4 DEF Status
    <3>2. sel' = Revalidated(b, cat.bound, lookup)
      BY <2>3, <3>1
    <3> QED  BY <1>t, <3>1, <3>2, Revalidation
  <2>7. DraftTypes' /\ Captured'
    BY <1>0, <2>2, <2>4, <2>6 DEF DraftInv, DraftTypes, Captured
  <2>8. CatalogInv'
    BY <1>0, <1>3, <1>4, <2>4, <2>5 DEF DraftInv, CatalogInv
  <2>9. MarksInv'
    BY <1>0, <2>5, <2>6 DEF DraftInv, MarksInv, Listed
  <2>10. SavedInv'
    <3>1. Inputs(sel)' = Inputs(sel)
      BY <2>6 DEF Inputs
    <3> QED  BY <1>0, <1>3, <1>4, <2>2, <3>1 DEF DraftInv, SavedInv
  <2> QED  BY <2>7, <2>8, <2>9, <2>10 DEF DraftInv
<1>6. CASE r.kind = "build"
  <2>1. BuildFinished(r)
    BY <1>2, <1>6
  <2>2. UNCHANGED <<cat, sel>> /\ Inputs(sel)' = Inputs(sel)
    BY <2>1 DEF BuildFinished, Inputs
  <2>3. build.tgen = tgen /\ build.rev = rev /\ build.inputs = Inputs(sel) /\ r.ct = target
    BY <1>0, <1>4, <1>6 DEF DraftInv, SavedInv
  <2>4. \/ /\ build' = [build EXCEPT !.completeTarget = build.tgen, !.completeSelection = build.rev]
           /\ made' = [target |-> r.ct, inputs |-> build.inputs]
        \/ UNCHANGED <<build, made>>
    BY <2>1 DEF BuildFinished
  <2>5. DraftTypes'
    BY <1>0, <2>2 DEF DraftInv, DraftTypes
  <2>6. Captured' /\ (made' = [target |-> target, inputs |-> Inputs(sel)] \/ UNCHANGED <<build, made>>)
    <3>1. CASE UNCHANGED <<build, made>>
      BY <1>0, <3>1 DEF DraftInv, Captured
    <3>2. CASE /\ build' = [build EXCEPT !.completeTarget = build.tgen, !.completeSelection = build.rev]
               /\ made' = [target |-> r.ct, inputs |-> build.inputs]
      <4>1. build' = [tgen |-> build.tgen, rev |-> build.rev, inputs |-> build.inputs,
                      completeTarget |-> tgen, completeSelection |-> rev]
        BY <2>3, <3>2 DEF DraftInv, Captured
      <4>2. tgen \in Nat /\ rev \in Nat
        BY DEF DraftInv, DraftTypes
      <4>3. Captured'
        BY <1>0, <4>1, <4>2 DEF Captured
      <4> QED  BY <2>3, <3>2, <4>3
    <3> QED  BY <2>4, <3>1, <3>2
  <2>7. CatalogInv'
    BY <1>0, <1>3, <1>4, <2>2 DEF DraftInv, CatalogInv
  <2>8. MarksInv'
    BY <1>0, <2>2 DEF DraftInv, MarksInv, Listed
  <2>9. SavedInv'
    <3>1. ~Running("build")'
      BY <1>4, <1>6
    <3> QED  BY <1>0, <1>3, <2>2, <2>6, <3>1 DEF DraftInv, SavedInv
  <2> QED  BY <2>5, <2>6, <2>7, <2>8, <2>9 DEF DraftInv
<1>7. CASE r.kind \notin {"catalog", "build"}
  <2>1. UNCHANGED <<cat, sel, build, made>> /\ Inputs(sel)' = Inputs(sel)
    BY <1>2, <1>7 DEF Inputs
  <2>2. DraftTypes' /\ Captured'
    BY <1>0, <2>1 DEF DraftInv, DraftTypes, Captured
  <2>3. CatalogInv'
    BY <1>0, <1>3, <1>4, <2>1 DEF DraftInv, CatalogInv
  <2>4. MarksInv'
    BY <1>0, <2>1 DEF DraftInv, MarksInv, Listed
  <2>5. SavedInv'
    BY <1>0, <1>3, <1>4, <2>1 DEF DraftInv, SavedInv
  <2> QED  BY <2>2, <2>3, <2>4, <2>5 DEF DraftInv
<1> QED  BY <1>5, <1>6, <1>7

(* A new run is of the target of its start. *)
LEMMA StartKeepsDraft ==
  ASSUME JobInv, DraftInv, NEW k \in Kinds, ~jobs[k].running, JobStart(k),
         UNCHANGED <<life, call, target, tgen, sel, rev, undo, add, made>>,
         k = "catalog" => target # None /\ call.pc = "none",
         cat' \in Status, cat'.bound = cat.bound, cat'.disk = cat.disk, cat'.ready => cat.ready,
         Captured', build'.completeTarget = build.completeTarget,
         build'.completeSelection = build.completeSelection,
         IF k = "build" THEN build'.tgen = tgen /\ build'.rev = rev /\ build'.inputs = Inputs(sel)
                        ELSE build' = build
  PROVE  DraftInv'
<1>1. PICK n : n = [kind |-> k, gen |-> jobs[k].gen + 1, pc |-> "working", out |-> "ok", ct |-> target]
  OBVIOUS
<1>2. routines' = routines \cup {n} /\ n.kind = k /\ n.pc = "working" /\ n.ct = target
  BY <1>1 DEF JobStart
<1>3. \A x \in routines' : x \in routines \/ x = n
  BY <1>2
<1>4. \A j \in Kinds \ {k} : jobs'[j] = jobs[j]
  BY DEF JobStart, JobInv, JobTypes
<1>5. \A j : j # k => (Running(j)' <=> Running(j))
  BY <1>4 DEF Running
<1>6. Inputs(sel)' = Inputs(sel)
  BY DEF Inputs
<1>7. DraftTypes'
  BY DEF DraftInv, DraftTypes
<1>8. CatalogInv'
  <2>1. cat'.ready => target # None /\ cat'.bound = target /\ target \in cat'.disk
    BY DEF DraftInv, CatalogInv
  <2>2. target # None /\ ~life.catClosed => cat'.bound = target
    BY DEF DraftInv, CatalogInv
  <2>3. call.pc = "waiting" /\ Running("catalog")' => jobs'["catalog"].gen = call.wait
    <3>1. CASE k = "catalog"
      BY <3>1
    <3>2. CASE k # "catalog"
      BY <1>4, <1>5, <3>2 DEF DraftInv, CatalogInv, Running
    <3> QED  BY <3>1, <3>2
  <2>4. ASSUME NEW x \in routines', x.kind = "catalog", x.pc # "report"
        PROVE  /\ target # None /\ x.ct = target
               /\ x.pc = "returned" /\ x.out = "ok" => ~life.catClosed /\ x.ct \in cat'.disk
    <3>1. CASE x \in routines
      BY <2>4, <3>1 DEF DraftInv, CatalogInv
    <3>2. CASE x = n
      BY <1>2, <2>4, <3>2
    <3> QED  BY <1>3, <3>1, <3>2
  <2> QED  BY <2>1, <2>2, <2>3, <2>4 DEF CatalogInv
<1>9. MarksInv'
  BY DEF DraftInv, MarksInv, Listed
<1>10. SavedInv'
  <2>1. \A x \in routines' : x.kind = "build" /\ x.pc # "report" => x.ct = target
    BY <1>2, <1>3 DEF DraftInv, SavedInv
  <2>2. Running("build")' => build'.tgen = tgen /\ build'.rev = rev /\ build'.inputs = Inputs(sel)
    <3>1. CASE k = "build"
      BY <3>1
    <3>2. CASE k # "build"
      BY <1>5, <3>2 DEF DraftInv, SavedInv
    <3> QED  BY <3>1, <3>2
  <2> QED  BY <1>6, <2>1, <2>2 DEF DraftInv, SavedInv
<1> QED  BY <1>7, <1>8, <1>9, <1>10 DEF DraftInv

LEMMA StartsKeepDraft ==
  ASSUME JobInv, DraftInv,
         \/ \E k \in Kinds \cap {"readiness", "verify", "export"} : StartSideJob(k)
         \/ StartBuild
         \/ \E force \in BOOLEAN : StartCatalogBuild(force)
  PROVE  DraftInv'
<1>t. cat \in Status
  BY DEF DraftInv, DraftTypes
<1>1. CASE \E k \in Kinds \cap {"readiness", "verify", "export"} : StartSideJob(k)
  <2>1. PICK k \in Kinds \cap {"readiness", "verify", "export"} : StartSideJob(k)
    BY <1>1
  <2>2. /\ ~jobs[k].running /\ JobStart(k)
        /\ UNCHANGED <<life, call, target, tgen, sel, rev, undo, add, made>> /\ UNCHANGED <<cat, build>>
    BY <2>1 DEF StartSideJob, Running, draftVars
  <2>3. Captured'
    BY <2>2 DEF DraftInv, Captured
  <2>4. k # "catalog" /\ k # "build"
    OBVIOUS
  <2> QED  BY <1>t, <2>2, <2>3, <2>4, StartKeepsDraft
<1>2. CASE StartBuild
  <2>1. /\ "build" \in Kinds /\ ~jobs["build"].running /\ JobStart("build")
        /\ UNCHANGED <<life, call, target, tgen, sel, rev, undo, add, made>> /\ UNCHANGED cat
        /\ build' = [build EXCEPT !.tgen = tgen, !.rev = rev, !.inputs = Inputs(sel)]
    BY <1>2 DEF StartBuild, MutationError, Running, draftVars
  <2>2. build' = [tgen |-> tgen, rev |-> rev, inputs |-> Inputs(sel), completeTarget |-> build.completeTarget,
                  completeSelection |-> build.completeSelection]
    BY <2>1 DEF DraftInv, Captured
  <2>3. /\ build'.tgen = tgen /\ build'.rev = rev /\ build'.inputs = Inputs(sel)
        /\ build'.completeTarget = build.completeTarget /\ build'.completeSelection = build.completeSelection
    BY <2>2
  <2>4. build' = [tgen |-> build'.tgen, rev |-> build'.rev, inputs |-> build'.inputs,
                  completeTarget |-> build'.completeTarget, completeSelection |-> build'.completeSelection]
    BY <2>2
  <2>5. Captured'
    BY <2>1, <2>3, <2>4 DEF DraftInv, Captured
  <2> QED  BY <1>t, <2>1, <2>3, <2>5, StartKeepsDraft
<1>3. CASE \E force \in BOOLEAN : StartCatalogBuild(force)
  <2>1. /\ "catalog" \in Kinds /\ ~jobs["catalog"].running /\ JobStart("catalog")
        /\ target # None /\ call.pc = "none"
        /\ UNCHANGED <<life, call, target, tgen, sel, rev, undo, add, made>> /\ UNCHANGED build
        /\ cat' = [cat EXCEPT !.state = "building", !.ready = FALSE]
    BY <1>3 DEF StartCatalogBuild, Running, draftVars
  <2>2. cat' \in Status /\ cat'.bound = cat.bound /\ cat'.disk = cat.disk /\ ~cat'.ready
    BY <1>t, <2>1 DEF Status
  <2>3. Captured'
    BY <2>1 DEF DraftInv, Captured
  <2> QED  BY <2>1, <2>2, <2>3, StartKeepsDraft
<1> QED  BY <1>1, <1>2, <1>3

-----------------------------------------------------------------------------
(* The target and the draft.                                               *)

LEMMA CallKeepsDraft ==
  ASSUME JobInv, DraftInv, (\E t \in Targets : SelectTargetBegin(t)) \/ SelectTargetReturn \/ SelectTargetArm
  PROVE  DraftInv'
<1>1. UNCHANGED Rest /\ UNCHANGED <<routines, jobs, life>>
  BY DEF SelectTargetBegin, SelectTargetReturn, SelectTargetArm, Rest, draftVars, jobVars
<1>2. call'.pc # "waiting" /\ (call'.pc # "none" => call'.want \in Targets)
  <2>1. CASE \E t \in Targets : SelectTargetBegin(t)
    BY <2>1 DEF SelectTargetBegin
  <2>2. CASE SelectTargetReturn
    BY <2>2 DEF SelectTargetReturn, NoCall
  <2>3. CASE SelectTargetArm
    <3>1. call.pc = "checked" /\ call' = [call EXCEPT !.pc = "resolving"] /\ call \in SelectCall
      BY <2>3 DEF SelectTargetArm, JobInv, JobTypes
    <3>2. call'.pc = "resolving" /\ call'.want = call.want
      BY <3>1 DEF SelectCall
    <3> QED  BY <3>1, <3>2 DEF DraftInv, DraftTypes
  <2> QED  BY <2>1, <2>2, <2>3
<1> QED  BY <1>1, <1>2, DraftKept

(* A new target: no run is under way, and everything that spoke of the old one *)
(* is of an older generation.                                                  *)
LEMMA NewTargetKeepsDraft ==
  ASSUME JobInv, DraftInv, ~Running("build"), ~Running("catalog"),
         UNCHANGED <<routines, jobs, life, rev, add, build, made>>, tgen' = tgen + 1, undo' = NoUndo,
         call'.pc # "waiting", call'.pc # "none" => call'.want \in Targets,
         cat' \in Status, cat'.ready => target' # None /\ cat'.bound = target' /\ target' \in cat'.disk,
         target' # None /\ ~life.catClosed => cat'.bound = target',
         sel' \in Trays,
         \A k \in AptKeys : sel'[k] # None /\ sel'[k].known => target' # None /\ k \in Content[target']
  PROVE  DraftInv'
<1>1. \A r \in routines : r.kind \in {"build", "catalog"} => r.pc = "report"
  <2>1. \A r \in routines : r.kind = "build" => r.pc = "report"
    BY IdleRuns
  <2>2. \A r \in routines : r.kind = "catalog" => r.pc = "report"
    BY IdleRuns
  <2> QED  BY <2>1, <2>2
<1>2. ~Running("build")' /\ ~Running("catalog")'
  BY DEF Running
<1>3. tgen \in Nat /\ tgen' \in Nat /\ tgen' > tgen
  BY DEF DraftInv, DraftTypes
<1>4. NoUndo \in Undoing /\ NoUndo.token = 0
  BY DEF NoUndo, Undoing
<1>5. DraftTypes'
  <2>1. add.gen <= tgen'
    BY <1>3 DEF DraftInv, DraftTypes, Adding
  <2> QED  BY <1>3, <1>4, <2>1 DEF DraftInv, DraftTypes
<1>6. Captured'
  BY <1>3 DEF DraftInv, Captured
<1>7. CatalogInv'
  BY <1>1, <1>2 DEF CatalogInv
<1>8. MarksInv'
  <2>1. add.gen # tgen'
    BY <1>3 DEF DraftInv, DraftTypes, Adding
  <2> QED  BY <1>4, <2>1 DEF MarksInv, Listed
<1>9. SavedInv'
  <2>1. build.completeTarget # tgen'
    BY <1>3 DEF DraftInv, Captured
  <2> QED  BY <1>1, <1>2, <2>1 DEF SavedInv
<1> QED  BY <1>5, <1>6, <1>7, <1>8, <1>9 DEF DraftInv

LEMMA CommitKeepsDraft ==
  ASSUME JobInv, DraftInv, SelectTargetCommit
  PROVE  DraftInv'
<1>t. cat \in Status /\ call \in SelectCall /\ life \in Life /\ sel \in Trays
  BY DEF JobInv, JobTypes, DraftInv, DraftTypes
<1>0. call.pc = "waiting" /\ CatalogDone /\ ~MutationError
  BY DEF SelectTargetCommit
<1>1. ~Running("build") /\ ~Running("catalog")
  BY <1>0 DEF MutationError, CatalogDone, DraftInv, CatalogInv
<1>2. UNCHANGED <<routines, jobs, life, rev, add, build, made>> /\ tgen' = tgen + 1 /\ undo' = NoUndo
  BY DEF SelectTargetCommit, jobVars
<1>3. call' = [call EXCEPT !.pc = "leaving"]
  BY DEF SelectTargetCommit
<1>4. call'.pc = "leaving" /\ call'.want = call.want
  BY <1>3, <1>t DEF SelectCall
<1>5. call.want \in Targets /\ call.want # None
  BY <1>0, ConstantsAssumption DEF DraftInv, DraftTypes
<1>6. PICK t, ready : t = call.want /\ ready = (~life.catClosed /\ call.want \in cat.disk)
  OBVIOUS
<1>r. ready \in BOOLEAN
  BY <1>6
<1>7. /\ target' = t
      /\ cat' = [cat EXCEPT !.bound = IF life.catClosed THEN @ ELSE t, !.ready = ready,
                            !.state = IF ready THEN "ready" ELSE "not-built"]
      /\ \E lookup \in BOOLEAN : sel' = Revalidated(ready, t, lookup)
  BY <1>6 DEF SelectTargetCommit
<1>8. /\ cat' \in Status /\ cat'.ready = ready /\ cat'.disk = cat.disk
      /\ ~life.catClosed => cat'.bound = t
  <2>1. PICK b : b = IF life.catClosed THEN cat.bound ELSE t
    OBVIOUS
  <2>2. b \in Targets \cup {None}
    BY <1>5, <1>6, <1>t, <2>1 DEF Status
  <2>3. PICK st \in {"ready", "not-built"} : st = IF ready THEN "ready" ELSE "not-built"
    OBVIOUS
  <2>4. cat' = [cat EXCEPT !.bound = b, !.ready = ready, !.state = st]
    BY <1>7, <2>1, <2>3
  <2> QED  BY <1>r, <1>t, <2>1, <2>2, <2>4 DEF Status
<1>9. /\ sel' \in Trays
      /\ \A k \in AptKeys : sel'[k] # None /\ sel'[k].known => ready /\ k \in Content[t]
  <2>1. PICK lookup \in BOOLEAN : sel' = Revalidated(ready, t, lookup)
    BY <1>7
  <2> QED  BY <1>r, <1>t, <2>1, Revalidation
<1>10. cat'.ready => target' # None /\ cat'.bound = target' /\ target' \in cat'.disk
  BY <1>5, <1>6, <1>7, <1>8
<1>11. target' # None /\ ~life.catClosed => cat'.bound = target'
  BY <1>7, <1>8
<1>12. \A k \in AptKeys : sel'[k] # None /\ sel'[k].known => target' # None /\ k \in Content[target']
  BY <1>5, <1>6, <1>7, <1>9
<1>13. call'.pc # "waiting" /\ (call'.pc # "none" => call'.want \in Targets)
  BY <1>4, <1>5
<1> QED  BY <1>1, <1>2, <1>8, <1>9, <1>10, <1>11, <1>12, <1>13, NewTargetKeepsDraft

LEMMA ClearTargetKeepsDraft ==
  ASSUME JobInv, DraftInv, ClearTarget
  PROVE  DraftInv'
<1>t. cat \in Status /\ sel \in Trays
  BY DEF DraftInv, DraftTypes
<1>1. /\ ~Running("build") /\ ~Running("catalog") /\ target' = None /\ call.pc = "none"
      /\ UNCHANGED <<routines, jobs, life, call, rev, add, build, made>> /\ tgen' = tgen + 1 /\ undo' = NoUndo
      /\ cat' = [cat EXCEPT !.state = "none", !.ready = FALSE]
      /\ sel' = Revalidated(FALSE, None, FALSE)
  BY DEF ClearTarget, MutationError, jobVars
<1>2. cat' \in Status /\ ~cat'.ready
  BY <1>t, <1>1 DEF Status
<1>3. /\ sel' \in Trays /\ \A k \in AptKeys : ~(sel'[k] # None /\ sel'[k].known)
  BY <1>t, <1>1, Revalidation
<1> QED  BY <1>1, <1>2, <1>3, NewTargetKeepsDraft

-----------------------------------------------------------------------------
(* The edits and the draft.                                                *)

(* A change of the inputs moves the revision, and no build is then under way. *)
LEMMA EditedDraft ==
  ASSUME JobInv, DraftInv, UNCHANGED <<routines, jobs, life, call, target, tgen, cat, build, made>>,
         \/ rev' = rev + 1 /\ ~Running("build")
         \/ rev' = rev /\ Inputs(sel') = Inputs(sel),
         sel' \in Trays, Listed(sel'),
         undo' \in Undoing, undo'.token # 0 => undo'.entries \in Trays,
         undo'.token # 0 /\ undo'.target = tgen => Listed(undo'.entries),
         add' \in Adding, add'.gen <= tgen,
         add'.pc = "commit" /\ add'.gen = tgen => \A k \in add'.known : target # None /\ k \in Content[target]
  PROVE  DraftInv'
<1>1. rev \in Nat \ {0} /\ rev' \in Nat \ {0} /\ rev <= rev'
  BY DEF DraftInv, DraftTypes
<1>2. DraftTypes'
  BY <1>1 DEF DraftInv, DraftTypes
<1>3. Captured'
  BY <1>1 DEF DraftInv, Captured
<1>4. \A k : Running(k)' <=> Running(k)
  BY DEF Running
<1>5. CatalogInv'
  BY <1>4 DEF DraftInv, CatalogInv
<1>6. MarksInv'
  BY DEF DraftInv, MarksInv, Listed
<1>7. SavedInv'
  <2>1. \A r \in routines' : r.kind = "build" /\ r.pc # "report" => r.ct = target'
    BY DEF DraftInv, SavedInv
  <2>2. CASE rev' = rev + 1 /\ ~Running("build")
    <3>1. build.completeSelection # rev'
      BY <1>1, <2>2 DEF DraftInv, Captured
    <3> QED  BY <1>4, <2>1, <2>2, <3>1 DEF SavedInv
  <2>3. CASE rev' = rev /\ Inputs(sel') = Inputs(sel)
    <3>1. Inputs(sel)' = Inputs(sel)
      BY <2>3 DEF Inputs
    <3> QED  BY <1>4, <2>1, <2>3, <3>1 DEF DraftInv, SavedInv
  <2> QED  BY <2>2, <2>3
<1> QED  BY <1>2, <1>3, <1>5, <1>6, <1>7 DEF DraftInv

LEMMA EmptyUndo == NoUndo \in Undoing /\ NoUndo.token = 0
BY DEF NoUndo, Undoing

LEMMA EmptyAdd == NoAdd \in Adding /\ NoAdd.pc = "none" /\ NoAdd.gen = 0
BY DEF NoAdd, Adding

LEMMA AddBeginKeepsDraft ==
  ASSUME JobInv, DraftInv, NEW K \in SUBSET Keys, NEW d \in Digests \cup {None}, AddBegin(K, d)
  PROVE  DraftInv'
<1>1. /\ UNCHANGED <<routines, jobs, life, call, target, tgen, cat, build, made>> /\ UNCHANGED <<sel, rev, undo>>
      /\ add' = [pc |-> "lookup", keys |-> K, digest |-> d, gen |-> tgen, known |-> {}]
  BY DEF AddBegin, jobVars, draftVars
<1>2. tgen \in Nat
  BY DEF DraftInv, DraftTypes
<1>3. add' \in Adding /\ add'.gen <= tgen /\ add'.pc = "lookup"
  BY <1>1, <1>2 DEF Adding
<1>4. Inputs(sel') = Inputs(sel) /\ sel' \in Trays /\ Listed(sel')
  BY <1>1 DEF DraftInv, DraftTypes, MarksInv
<1>5. /\ undo' \in Undoing /\ (undo'.token # 0 => undo'.entries \in Trays)
      /\ undo'.token # 0 /\ undo'.target = tgen => Listed(undo'.entries)
  BY <1>1 DEF DraftInv, DraftTypes, MarksInv
<1> QED  BY <1>1, <1>3, <1>4, <1>5, EditedDraft

LEMMA AddLookupKeepsDraft ==
  ASSUME JobInv, DraftInv, AddLookup
  PROVE  DraftInv'
<1>1. UNCHANGED <<routines, jobs, life, call, target, tgen, cat, build, made>> /\ UNCHANGED <<sel, rev, undo>>
  BY DEF AddLookup, jobVars, draftVars
<1>2. PICK found \in SUBSET (IF cat.ready /\ cat.bound # None
                             THEN add.keys \cap AptKeys \cap Content[cat.bound] ELSE {}) :
         add' = [add EXCEPT !.pc = "commit", !.known = found]
  BY DEF AddLookup
<1>t. add \in Adding /\ add.gen <= tgen
  BY DEF DraftInv, DraftTypes
<1>3. found \in SUBSET Keys /\ \A k \in found : cat.ready /\ k \in Content[cat.bound]
  BY <1>t DEF Adding
<1>4. add' \in Adding /\ add'.gen = add.gen /\ add'.known = found
  BY <1>2, <1>3, <1>t DEF Adding
<1>5. \A k \in add'.known : target # None /\ k \in Content[target]
  BY <1>3, <1>4 DEF DraftInv, CatalogInv
<1>6. Inputs(sel') = Inputs(sel) /\ sel' \in Trays /\ Listed(sel')
  BY <1>1 DEF DraftInv, DraftTypes, MarksInv
<1>7. /\ undo' \in Undoing /\ (undo'.token # 0 => undo'.entries \in Trays)
      /\ undo'.token # 0 /\ undo'.target = tgen => Listed(undo'.entries)
  BY <1>1 DEF DraftInv, DraftTypes, MarksInv
<1> QED  BY <1>1, <1>t, <1>4, <1>5, <1>6, <1>7, EditedDraft

LEMMA AddCommitKeepsDraft ==
  ASSUME JobInv, DraftInv, AddCommit
  PROVE  DraftInv'
<1>1. /\ UNCHANGED <<routines, jobs, life, call, target, tgen, cat, build, made>>
      /\ add.pc = "commit" /\ add' = NoAdd
  BY DEF AddCommit, jobVars
<1>2. add' \in Adding /\ add'.gen <= tgen /\ add'.pc = "none"
  BY <1>1, EmptyAdd DEF DraftInv, DraftTypes
<1>3. CASE MutationError \/ add.gen # tgen
  <2>1. UNCHANGED <<sel, rev, undo>>
    BY <1>3 DEF AddCommit, draftVars
  <2>2. Inputs(sel') = Inputs(sel) /\ sel' \in Trays /\ Listed(sel')
    BY <2>1 DEF DraftInv, DraftTypes, MarksInv
  <2>3. /\ undo' \in Undoing /\ (undo'.token # 0 => undo'.entries \in Trays)
        /\ undo'.token # 0 /\ undo'.target = tgen => Listed(undo'.entries)
    BY <2>1 DEF DraftInv, DraftTypes, MarksInv
  <2> QED  BY <1>1, <1>2, <2>1, <2>2, <2>3, EditedDraft
<1>4. CASE ~(MutationError \/ add.gen # tgen)
  <2>1. PICK s : s = [k \in Keys |-> IF k \in add.keys THEN AddedEntry(k) ELSE sel[k]]
    OBVIOUS
  <2>2. undo' = NoUndo /\ (IF Inputs(s) # Inputs(sel) THEN NewDraft(s) ELSE sel' = s /\ UNCHANGED rev)
    BY <1>4, <2>1 DEF AddCommit
  <2>3. sel' = s /\ (rev' = rev + 1 \/ (rev' = rev /\ Inputs(s) = Inputs(sel)))
    <3>1. CASE Inputs(s) # Inputs(sel)
      BY <2>2, <3>1 DEF NewDraft
    <3>2. CASE Inputs(s) = Inputs(sel)
      BY <2>2, <3>2
    <3> QED  BY <3>1, <3>2
  <2>4. ~Running("build")
    BY <1>4 DEF MutationError
  <2>t. sel \in Trays /\ add \in Adding /\ Listed(sel)
    BY DEF DraftInv, DraftTypes, MarksInv
  <2>5. \A k \in Keys : AddedEntry(k) \in Entry /\ (AddedEntry(k).known <=> k \in UrlKeys \/ k \in add.known)
    <3> SUFFICES ASSUME NEW k \in Keys
                 PROVE  AddedEntry(k) \in Entry /\ (AddedEntry(k).known <=> k \in UrlKeys \/ k \in add.known)
      OBVIOUS
    <3>1. PICK d, b : /\ d = IF k \notin UrlKeys THEN None
                             ELSE IF add.digest = None /\ sel[k] # None THEN sel[k].digest ELSE add.digest
                      /\ b = (k \in UrlKeys \/ k \in add.known)
      OBVIOUS
    <3>2. AddedEntry(k) = [digest |-> d, known |-> b]
      BY <3>1 DEF AddedEntry
    <3>3. sel[k] # None => sel[k].digest \in Digests \cup {None}
      BY <2>t DEF Trays, Entry
    <3>4. d \in Digests \cup {None} /\ b \in BOOLEAN
      BY <2>t, <3>1, <3>3 DEF Adding
    <3>5. AddedEntry(k) \in Entry
      BY <3>2, <3>4 DEF Entry
    <3>6. AddedEntry(k).known = b
      BY <3>2
    <3> QED  BY <3>1, <3>5, <3>6, Zenon
  <2>6. s \in Trays
    BY <2>1, <2>5, <2>t DEF Trays
  <2>7. Listed(s)
    <3> SUFFICES ASSUME NEW k \in AptKeys, s[k] # None, s[k].known
                 PROVE  target # None /\ k \in Content[target]
      BY DEF Listed
    <3>1. k \in Keys /\ k \notin UrlKeys
      BY ConstantsAssumption DEF Keys
    <3>2. CASE k \in add.keys
      <4>1. k \in add.known
        BY <2>1, <2>5, <3>1, <3>2
      <4> QED  BY <1>1, <1>4, <4>1 DEF DraftInv, MarksInv
    <3>3. CASE k \notin add.keys
      <4>1. s[k] = sel[k]
        BY <2>1, <3>1, <3>3
      <4> QED  BY <2>t, <4>1 DEF Listed
    <3> QED  BY <3>2, <3>3
  <2>8. undo' \in Undoing /\ undo'.token = 0
    BY <2>2, EmptyUndo
  <2> QED  BY <1>1, <1>2, <2>3, <2>4, <2>6, <2>7, <2>8, EditedDraft
<1> QED  BY <1>3, <1>4

(* A removal; its undo holds the tray as it was, for this target. *)
LEMMA RemovalKeepsDraft ==
  ASSUME JobInv, DraftInv, NEW s \in Trays, Listed(s), NewDraft(s), SaveUndo, ~MutationError,
         UNCHANGED <<routines, jobs, life, call, target, tgen, cat, add, build, made>>
  PROVE  DraftInv'
<1>1. sel' = s /\ rev' = rev + 1 /\ ~Running("build")
  BY DEF NewDraft, MutationError
<1>2. rev \in Nat /\ tgen \in Nat /\ sel \in Trays /\ Listed(sel)
  BY DEF DraftInv, DraftTypes, MarksInv
<1>3. undo' = [token |-> rev + 1, rev |-> rev + 1, target |-> tgen, entries |-> sel]
  BY DEF SaveUndo
<1>4. undo' \in Undoing /\ undo'.entries = sel
  BY <1>2, <1>3 DEF Undoing
<1>5. /\ add' \in Adding /\ add'.gen <= tgen
      /\ add'.pc = "commit" /\ add'.gen = tgen => \A k \in add'.known : target # None /\ k \in Content[target]
  BY DEF DraftInv, DraftTypes, MarksInv
<1> QED  BY <1>1, <1>2, <1>4, <1>5, EditedDraft

LEMMA RemovalsKeepDraft ==
  ASSUME JobInv, DraftInv, (\E K \in SUBSET Keys : RemovePackages(K)) \/ ClearSelection
  PROVE  DraftInv'
<1>t. sel \in Trays /\ Listed(sel)
  BY DEF DraftInv, DraftTypes, MarksInv
<1>1. CASE \E K \in SUBSET Keys : RemovePackages(K)
  <2>1. PICK K \in SUBSET Keys : RemovePackages(K)
    BY <1>1
  <2>2. PICK s : s = [k \in Keys |-> IF k \in {j \in K : sel[j] # None} THEN None ELSE sel[k]]
    OBVIOUS
  <2>3. /\ NewDraft(s) /\ SaveUndo /\ ~MutationError
        /\ UNCHANGED <<routines, jobs, life, call, target, tgen, cat, add, build, made>>
    BY <2>1, <2>2 DEF RemovePackages, jobVars
  <2>4. s \in Trays
    BY <1>t, <2>2 DEF Trays
  <2>5. Listed(s)
    BY <1>t, <2>2 DEF Listed, Keys
  <2> QED  BY <2>3, <2>4, <2>5, RemovalKeepsDraft
<1>2. CASE ClearSelection
  <2>1. PICK s : s = [k \in Keys |-> None]
    OBVIOUS
  <2>2. /\ NewDraft(s) /\ SaveUndo /\ ~MutationError
        /\ UNCHANGED <<routines, jobs, life, call, target, tgen, cat, add, build, made>>
    BY <1>2, <2>1 DEF ClearSelection, jobVars
  <2>3. s \in Trays /\ Listed(s)
    BY <2>1 DEF Trays, Listed, Keys
  <2> QED  BY <2>2, <2>3, RemovalKeepsDraft
<1> QED  BY <1>1, <1>2

LEMMA UndoKeepsDraft ==
  ASSUME JobInv, DraftInv, NEW token, UndoSelection(token)
  PROVE  DraftInv'
<1>1. /\ UNCHANGED <<routines, jobs, life, call, target, tgen, cat, add, build, made>>
      /\ sel' = undo.entries /\ rev' = rev + 1 /\ undo' = NoUndo /\ ~Running("build")
      /\ undo.token # 0 /\ undo.target = tgen
  BY DEF UndoSelection, UndoAllowed, NewDraft, MutationError, jobVars
<1>2. sel' \in Trays /\ Listed(sel')
  BY <1>1 DEF DraftInv, DraftTypes, MarksInv
<1>3. undo' \in Undoing /\ undo'.token = 0
  BY <1>1, EmptyUndo
<1>4. /\ add' \in Adding /\ add'.gen <= tgen
      /\ add'.pc = "commit" /\ add'.gen = tgen => \A k \in add'.known : target # None /\ k \in Content[target]
  BY <1>1 DEF DraftInv, DraftTypes, MarksInv
<1> QED  BY <1>1, <1>2, <1>3, <1>4, EditedDraft

LEMMA EditsKeepDraft ==
  ASSUME JobInv, DraftInv, Edit
  PROVE  DraftInv'
<1>1. CASE \E K \in (SUBSET AptKeys) \ {{}} : AddBegin(K, None)
  <2>1. PICK K \in SUBSET AptKeys : AddBegin(K, None)
    BY <1>1
  <2>2. K \in SUBSET Keys /\ None \in Digests \cup {None}
    BY DEF Keys
  <2> QED  BY <2>1, <2>2, AddBeginKeepsDraft
<1>2. CASE \E K \in (SUBSET UrlKeys) \ {{}}, d \in Digests \cup {None} : AddBegin(K, d)
  <2>1. PICK K \in SUBSET UrlKeys, d \in Digests \cup {None} : AddBegin(K, d)
    BY <1>2
  <2>2. K \in SUBSET Keys
    BY DEF Keys
  <2> QED  BY <2>1, <2>2, AddBeginKeepsDraft
<1>3. CASE AddLookup \/ AddCommit
  BY <1>3, AddLookupKeepsDraft, AddCommitKeepsDraft
<1>4. CASE (\E K \in SUBSET Keys : RemovePackages(K)) \/ ClearSelection
  BY <1>4, RemovalsKeepDraft
<1>5. CASE \E token \in 1..MaxRev : UndoSelection(token)
  BY <1>5, UndoKeepsDraft
<1> QED  BY <1>1, <1>2, <1>3, <1>4, <1>5 DEF Edit

LEMMA DraftPreserved ==
  ASSUME JobInv, DraftInv, [Next]_vars
  PROVE  DraftInv'
<1>1. CASE Routine
  BY <1>1, ReturnKeepsDraft, FinishKeepsDraft, ReportKeepsDraft DEF Routine
<1>2. CASE \/ \E k \in Kinds \cap {"readiness", "verify", "export"} : StartSideJob(k)
           \/ StartBuild
           \/ \E force \in BOOLEAN : StartCatalogBuild(force)
  BY <1>2, StartsKeepDraft
<1>3. CASE (\E k \in Kinds : Cancel(k)) \/ SelectTargetStopCatalog \/ CloseStop \/ Shutdown
  BY <1>3, StopKeepsDraft
<1>4. CASE BeforeClose \/ Confirm \/ CloseFailed \/ CloseTick \/ CloseAllow
  BY <1>4, WindowKeepsDraft
<1>5. CASE CloseCatalog
  BY <1>5, CloseCatalogKeepsDraft
<1>6. CASE (\E t \in Targets : SelectTargetBegin(t)) \/ SelectTargetReturn \/ SelectTargetArm
  BY <1>6, CallKeepsDraft
<1>7. CASE SelectTargetCommit \/ ClearTarget
  BY <1>7, CommitKeepsDraft, ClearTargetKeepsDraft
<1>8. CASE Edit
  BY <1>8, EditsKeepDraft
<1>9. CASE UNCHANGED vars
  <2>1. UNCHANGED Rest /\ UNCHANGED <<routines, jobs, life, call>>
    BY <1>9 DEF vars, jobVars, draftVars, Rest
  <2>2. /\ call'.pc # "none" => call'.want \in Targets
        /\ call'.pc = "waiting" /\ Running("catalog") => jobs["catalog"].gen = call'.wait
    BY <2>1 DEF DraftInv, DraftTypes, CatalogInv
  <2> QED  BY <2>1, <2>2, DraftKept
<1> QED
  BY <1>1, <1>2, <1>3, <1>4, <1>5, <1>6, <1>7, <1>8, <1>9 DEF Next, TargetStep, CloseStep, Edit

(* What the application says of the draft is true, however target changes,        *)
(* catalogue builds, lookups that end late, edits, undos, builds and closings     *)
(* overlap: a ready catalogue is the chosen target's, a package marked as known   *)
(* is one that target lists, and the close dialog is skipped only when a complete *)
(* bundle holds exactly this draft (SelectTarget, addEntries, UndoSelection,      *)
(* StartBuild, lifecycleLocked).                                                  *)
THEOREM DraftStaysTrue == Spec => []DraftIsTrue
<1>1. Init => JobInv
  BY InitialJobs
<1>2. Init => DraftInv
  <2> SUFFICES ASSUME Init PROVE DraftInv
    OBVIOUS
  <2>1. DraftTypes
    <3>1. cat \in Status
      BY ConstantsAssumption DEF Init, Status
    <3>2. sel \in Trays
      BY DEF Init, Trays
    <3> QED  BY <3>1, <3>2, EmptyAdd, EmptyUndo DEF Init, DraftTypes, NoCall, NoAdd
  <2>2. Captured
    BY DEF Init, Captured
  <2>3. CatalogInv
    BY DEF Init, CatalogInv, NoCall
  <2>4. MarksInv
    BY EmptyAdd, EmptyUndo DEF Init, MarksInv, Listed, Keys
  <2>5. SavedInv
    BY DEF Init, SavedInv, Running
  <2> QED  BY <2>1, <2>2, <2>3, <2>4, <2>5 DEF DraftInv
<1>3. DraftInv => DraftIsTrue
  <2> SUFFICES ASSUME DraftInv PROVE DraftIsTrue
    OBVIOUS
  <2>1. cat.ready => target # None /\ cat.bound = target /\ target \in cat.disk
    BY DEF DraftInv, CatalogInv
  <2>2. \A k \in AptKeys : sel[k] # None /\ sel[k].known => target # None /\ k \in Content[target]
    BY DEF DraftInv, MarksInv, Listed
  <2>3. Count(sel) > 0 /\ ~UnsavedSelection => made = [target |-> target, inputs |-> Inputs(sel)]
    BY DEF DraftInv, SavedInv, UnsavedSelection
  <2> QED  BY <2>1, <2>2, <2>3 DEF DraftIsTrue
<1> QED  BY <1>1, <1>2, <1>3, JobsPreserved, DraftPreserved, PTL DEF Spec

-----------------------------------------------------------------------------

Event == [seq : Nat, gen : Nat]

\* Events numbered in a row after d, all of the build g.
Numbered(es, g, d) ==
  /\ es \in Seq(Event)
  /\ \A i \in 1..Len(es) : es[i].seq = d + i /\ es[i].gen = g

\* The ring's events are numbered in a row and are all of the build g.
RingOf(r, g) ==
  /\ DOMAIN r = {"items", "total", "dropped"} /\ r.total \in Nat /\ r.dropped \in Nat
  /\ r.total = r.dropped + Len(r.items) /\ Numbered(r.items, g, r.dropped)

\* A sequence of events of the build g, in order, all after the number n.
EventsAfter(es, g, n) ==
  /\ es \in Seq(Event)
  /\ \A i \in 1..Len(es) : es[i].gen = g /\ es[i].seq \in Nat /\ es[i].seq > n
  /\ \A i, j \in 1..Len(es) : i < j => es[i].seq < es[j].seq

\* An accumulator of events of the build g, with the number of the last.
AccOf(acc, g) == EventsAfter(acc.folded, g, 0) /\ \A i \in 1..Len(acc.folded) : acc.folded[i].seq <= acc.lastSeq

\* What was asked for after the accumulator's last event, and an answer to it.
LogFor(log, acc, g) ==
  /\ log.pc # "none" => log.since = acc.lastSeq
  /\ log.pc = "answered" => EventsAfter(log.items, g, acc.lastSeq)

ShapeOf(sc, c) ==
  /\ DOMAIN sc = {"run", "running", "finished", "starting", "again", "acc"}
  /\ DOMAIN sc.acc = {"lastSeq", "folded"} /\ sc.acc.lastSeq \in Nat
  /\ DOMAIN c = {"start", "status", "log"} /\ DOMAIN c.log = {"pc", "since", "items"}
  /\ c.log.pc \in {"none", "sent", "answered"} /\ c.status.pc \in {"none", "sent", "answered"}
  /\ c.log.pc # "none" => c.log.since \in Nat
  /\ c.log.pc = "answered" => c.log.items \in Seq(Event)

RunsInv ==
  /\ builds.gen \in Nat /\ (builds.gen # 0 => builds.running \/ builds.finished)
  /\ RingOf(ring, builds.gen)
  /\ screen.run \in Nat /\ screen.run <= builds.gen
  /\ calls.status.pc = "answered" =>
       /\ calls.status.run \in Nat /\ calls.status.run <= builds.gen
       /\ calls.status.run # 0 => calls.status.running \/ calls.status.finished

\* The inductive invariant: while the screen shows the application's build, its
\* accumulator and the page on its way to it are of that build, and the page
\* goes on where the accumulator ends.
ScreenInv ==
  /\ RunsInv /\ ShapeOf(screen, calls)
  /\ screen.run = builds.gen /\ screen.run # 0 =>
       AccOf(screen.acc, screen.run) /\ LogFor(calls.log, screen.acc, screen.run)

LEMMA AppendNumbered ==
  ASSUME NEW es, NEW g \in Nat, NEW d \in Nat, Numbered(es, g, d)
  PROVE  Numbered(Append(es, [seq |-> d + Len(es) + 1, gen |-> g]), g, d)
<1>1. Len(es) \in Nat /\ es \in Seq(Event) BY DEF Numbered
<1>2. PICK e : e = [seq |-> d + Len(es) + 1, gen |-> g] OBVIOUS
<1>3. e \in Event /\ e.seq = d + Len(es) + 1 /\ e.gen = g BY <1>1, <1>2 DEF Event
<1>4. PICK both : both = Append(es, e) OBVIOUS
<1>5. /\ both \in Seq(Event) /\ Len(both) = Len(es) + 1 /\ both[Len(es) + 1] = e
      /\ \A i \in 1..Len(es) : both[i] = es[i]
  BY <1>1, <1>3, <1>4
<1>6. ASSUME NEW i \in 1..Len(both) PROVE both[i].seq = d + i /\ both[i].gen = g
  <2>1. CASE i \in 1..Len(es) BY <1>5, <2>1 DEF Numbered
  <2>2. CASE i = Len(es) + 1 BY <1>1, <1>3, <1>5, <2>2
  <2> QED BY <1>1, <1>5, <2>1, <2>2
<1> QED BY <1>2, <1>4, <1>5, <1>6 DEF Numbered

\* What SubSeq takes out of numbered events.
LEMMA SubSeqNumbered ==
  ASSUME NEW es, NEW g \in Nat, NEW d \in Nat, Numbered(es, g, d),
         NEW a \in Nat \ {0}, NEW b \in Nat, b <= Len(es), a <= b + 1
  PROVE  /\ Numbered(SubSeq(es, a, b), g, d + a - 1) /\ Len(SubSeq(es, a, b)) = b - a + 1
<1>1. Len(es) \in Nat /\ es \in Seq(Event) BY DEF Numbered
<1>2. PICK part : part = SubSeq(es, a, b) OBVIOUS
<1>3. Len(part) = b - a + 1 /\ part = [i \in 1..(b - a + 1) |-> es[a + i - 1]] BY <1>1, <1>2
<1>4. \A i \in 1..(b - a + 1) : a + i - 1 \in 1..Len(es) BY <1>1
<1>5. \A i \in 1..Len(es) : es[i] \in Event BY <1>1
<1>6. part \in Seq(Event) BY <1>3, <1>4, <1>5
<1>7. ASSUME NEW i \in 1..Len(part) PROVE part[i].seq = d + a - 1 + i /\ part[i].gen = g
  <2>1. i \in 1..(b - a + 1) /\ part[i] = es[a + i - 1] /\ a + i - 1 \in 1..Len(es) BY <1>3, <1>4
  <2>2. es[a + i - 1].seq = d + (a + i - 1) /\ es[a + i - 1].gen = g BY <2>1 DEF Numbered
  <2> QED BY <2>1, <2>2
<1> QED BY <1>2, <1>3, <1>6, <1>7 DEF Numbered

LEMMA NumberedAreAfter ==
  ASSUME NEW es, NEW g \in Nat, NEW d \in Nat, Numbered(es, g, d), NEW n \in Nat, n <= d
  PROVE  EventsAfter(es, g, n)
<1>1. \A i \in 1..Len(es) : i \in Nat \ {0} /\ es[i].seq = d + i /\ es[i].gen = g BY DEF Numbered
<1>2. ASSUME NEW i \in 1..Len(es) PROVE es[i].gen = g /\ es[i].seq \in Nat /\ es[i].seq > n
  BY <1>1
<1>3. ASSUME NEW i \in 1..Len(es), NEW j \in 1..Len(es), i < j PROVE es[i].seq < es[j].seq
  BY <1>1, <1>3
<1> QED BY <1>2, <1>3 DEF EventsAfter, Numbered

LEMMA RingAppendKeeps ==
  ASSUME NEW r, NEW g \in Nat, RingOf(r, g)
  PROVE  RingOf(RingAppend(r, g), g)
<1>1. PICK es, d : es = r.items /\ d = r.dropped OBVIOUS
<1>2. Numbered(es, g, d) /\ d \in Nat /\ Len(es) \in Nat /\ r.total = d + Len(es) BY <1>1 DEF RingOf, Numbered
<1>3. PICK all : all = Append(es, [seq |-> r.total + 1, gen |-> g]) OBVIOUS
<1>4. Numbered(all, g, d) BY <1>2, <1>3, AppendNumbered
<1>5. Len(all) = Len(es) + 1 BY <1>2, <1>3 DEF Numbered
<1>6. PICK drop : drop = IF Len(all) > RingLimit THEN Len(all) - RingLimit ELSE 0 OBVIOUS
<1>7. drop \in Nat /\ drop <= Len(all) BY <1>2, <1>5, <1>6, RingAssumption
<1>8. PICK kept : kept = SubSeq(all, drop + 1, Len(all)) OBVIOUS
<1>9. Numbered(kept, g, d + drop) /\ Len(kept) = Len(all) - drop
  <2>1. drop + 1 \in Nat \ {0} /\ Len(all) \in Nat /\ drop + 1 <= Len(all) + 1 BY <1>2, <1>5, <1>7
  <2>2. Numbered(kept, g, d + (drop + 1) - 1) /\ Len(kept) = Len(all) - (drop + 1) + 1 BY <1>2, <1>4, <1>8, <2>1, SubSeqNumbered
  <2>3. d + (drop + 1) - 1 = d + drop /\ Len(all) - (drop + 1) + 1 = Len(all) - drop BY <1>2, <1>5, <1>7
  <2> QED BY <2>2, <2>3
<1>10. RingAppend(r, g) = [items |-> kept, total |-> r.total + 1, dropped |-> d + drop]
  BY <1>1, <1>3, <1>6, <1>8 DEF RingAppend
<1>11. r.total + 1 = d + drop + Len(kept) /\ d + drop \in Nat /\ r.total + 1 \in Nat BY <1>2, <1>5, <1>7, <1>9
<1> QED BY <1>9, <1>10, <1>11 DEF RingOf

\* A page is made of events after the number it was asked for, in order.
LEMMA PageIsAfter ==
  ASSUME NEW r, NEW g \in Nat, RingOf(r, g), NEW since \in Nat
  PROVE  EventsAfter(RingPage(r, since), g, since)
<1>1. PICK es, d : es = r.items /\ d = r.dropped OBVIOUS
<1>2. Numbered(es, g, d) /\ d \in Nat /\ Len(es) \in Nat /\ DOMAIN es = 1..Len(es) BY <1>1 DEF RingOf, Numbered
<1> DEFINE later == {i \in DOMAIN r.items : r.items[i].seq > since}
           first == CHOOSE i \in later : \A j \in later : i <= j
           most  == first + PageMax - 1
           last  == IF most < Len(r.items) THEN most ELSE Len(r.items)
<1>3. RingPage(r, since) = IF later = {} THEN <<>> ELSE SubSeq(es, first, last) BY <1>1 DEF RingPage
<1>4. later = {i \in 1..Len(es) : d + i > since} BY <1>1, <1>2 DEF Numbered
<1>5. CASE later = {}
  BY <1>3, <1>5 DEF EventsAfter
<1>6. CASE later # {}
  <2> HIDE DEF later
  <2>1. PICK k \in later : \A j \in later : k <= j
    <3>1. PICK a \in later : TRUE BY <1>6
    <3>2. a \in 1..Len(es) /\ d + a > since BY <1>4, <3>1
    <3>3. CASE since >= d
      <4>1. since - d + 1 \in later BY <1>2, <1>4, <3>2, <3>3
      <4>2. \A j \in later : since - d + 1 <= j BY <1>2, <1>4
      <4> QED BY <4>1, <4>2
    <3>4. CASE since < d
      <4>1. 1 \in later /\ \A j \in later : 1 <= j BY <1>2, <1>4, <3>2, <3>4
      <4> QED BY <4>1
    <3> QED BY <1>2, <3>3, <3>4
  <2>2. first \in later BY <2>1
  <2> HIDE DEF first
  <2>3. first \in 1..Len(es) /\ d + first > since BY <1>4, <2>2
  <2>4. last = IF first + PageMax - 1 < Len(es) THEN first + PageMax - 1 ELSE Len(es) BY <1>1
  <2> HIDE DEF last
  <2>5. last \in Nat /\ last <= Len(es) /\ first <= last + 1
    <3>1. Len(es) \in Nat /\ first \in Nat /\ first <= Len(es) /\ 1 <= first BY <1>2, <2>3
    <3>2. PICK p, n : p = PageMax /\ n = Len(es) OBVIOUS
    <3>3. p \in Nat /\ 1 <= p /\ n \in Nat BY <3>1, <3>2, RingAssumption
    <3>4. last = IF first + p - 1 < n THEN first + p - 1 ELSE n BY <2>4, <3>2
    <3>5. last \in Nat /\ last <= n /\ first <= last + 1 BY <3>1, <3>2, <3>3, <3>4
    <3> QED BY <3>2, <3>5
  <2>6. RingPage(r, since) = SubSeq(es, first, last) BY <1>3, <1>6
  <2>7. Numbered(SubSeq(es, first, last), g, d + first - 1) BY <1>2, <2>3, <2>5, SubSeqNumbered
  <2>8. d + first - 1 \in Nat /\ since <= d + first - 1 BY <1>2, <2>3
  <2> QED BY <2>6, <2>7, <2>8, NumberedAreAfter
<1> QED BY <1>5, <1>6

\* Events of one build, followed by later ones.
LEMMA LaterEventsFollow ==
  ASSUME NEW es, NEW fs, NEW g, NEW n \in Nat, EventsAfter(es, g, 0), \A i \in 1..Len(es) : es[i].seq <= n, EventsAfter(fs, g, n)
  PROVE  EventsAfter(es \o fs, g, 0)
<1>1. PICK both : both = es \o fs OBVIOUS
<1>2. PICK k, m : k = Len(es) /\ m = Len(fs) OBVIOUS
<1>3. /\ es \in Seq(Event) /\ fs \in Seq(Event) /\ k \in Nat /\ m \in Nat BY <1>2 DEF EventsAfter
<1>4. /\ both \in Seq(Event) /\ Len(both) = k + m BY <1>1, <1>2, <1>3
<1>5. ASSUME NEW i \in 1..k PROVE both[i] = es[i]
  <2>1. (es \o fs)[i] = es[i] BY <1>2, <1>3
  <2> QED BY <1>1, <2>1
<1>6. ASSUME NEW i \in 1..m PROVE both[k + i] = fs[i]
  <2>1. k + i \in 1..(k + m) /\ k + i > k /\ k + i - k = i BY <1>3
  <2>2. (es \o fs)[k + i] = fs[k + i - k] BY <1>2, <1>3, <2>1
  <2> QED BY <1>1, <2>1, <2>2
<1>7. \A i \in 1..(k + m) : i \in 1..k \/ \E j \in 1..m : i = k + j
  <2>1. ASSUME NEW i \in 1..(k + m), i \notin 1..k PROVE i - k \in 1..m /\ i = k + (i - k) BY <1>3, <2>1
  <2> QED BY <2>1
<1>8. \A i \in 1..k : both[i].gen = g /\ both[i].seq \in Nat /\ both[i].seq > 0 /\ both[i].seq <= n
  BY <1>2, <1>5 DEF EventsAfter
<1>9. \A j \in 1..m : both[k + j].gen = g /\ both[k + j].seq \in Nat /\ both[k + j].seq > n
  BY <1>2, <1>6 DEF EventsAfter
<1>10. ASSUME NEW i \in 1..(k + m) PROVE both[i].gen = g /\ both[i].seq \in Nat /\ both[i].seq > 0
  <2>1. CASE i \in 1..k BY <1>8, <2>1
  <2>2. ASSUME NEW j \in 1..m, i = k + j PROVE both[i].gen = g /\ both[i].seq \in Nat /\ both[i].seq > 0 BY <1>9, <2>2
  <2> QED BY <1>7, <2>1, <2>2
<1>11. ASSUME NEW i \in 1..(k + m), NEW j \in 1..(k + m), i < j PROVE both[i].seq < both[j].seq
  <2>1. CASE i \in 1..k /\ j \in 1..k BY <1>2, <1>5, <1>11, <2>1 DEF EventsAfter
  <2>2. ASSUME i \in 1..k, NEW a \in 1..m, j = k + a PROVE both[i].seq < both[j].seq BY <1>8, <1>9, <2>2
  <2>3. ASSUME NEW a \in 1..m, i = k + a, NEW b \in 1..m, j = k + b PROVE both[i].seq < both[j].seq
    <3>1. a < b BY <1>3, <1>11, <2>3
    <3> QED BY <1>2, <1>6, <2>3, <3>1 DEF EventsAfter
  <2>4. ASSUME NEW a \in 1..m, i = k + a, j \in 1..k PROVE FALSE BY <1>3, <1>11, <2>4
  <2> QED BY <1>7, <2>1, <2>2, <2>3, <2>4
<1> QED BY <1>1, <1>4, <1>10, <1>11 DEF EventsAfter

\* Folding a page after the last event counts no event twice.
LEMMA FoldKeeps ==
  ASSUME NEW acc, NEW g \in Nat, acc.lastSeq \in Nat, AccOf(acc, g), NEW page, EventsAfter(page, g, acc.lastSeq), page # <<>>
  PROVE  /\ AccOf(Fold(acc, page), g) /\ Fold(acc, page).lastSeq = Last(page).seq
<1>1. PICK n : n = Len(page) OBVIOUS
<1>2. page \in Seq(Event) /\ n \in Nat \ {0} /\ Last(page) = page[n] BY <1>1 DEF EventsAfter, Last
<1>3. PICK es, z, last : es = acc.folded /\ z = acc.lastSeq /\ last = page[n].seq OBVIOUS
<1>4. last \in Nat /\ last > z /\ z \in Nat BY <1>1, <1>2, <1>3 DEF EventsAfter
<1>5. Fold(acc, page) = [lastSeq |-> last, folded |-> es \o page] BY <1>2, <1>3, <1>4 DEF Fold
<1>6. /\ EventsAfter(es, g, 0) /\ \A i \in 1..Len(es) : es[i].seq <= z BY <1>3 DEF AccOf
<1>7. EventsAfter(es \o page, g, 0) BY <1>3, <1>4, <1>6, LaterEventsFollow
<1>8. \A i \in 1..n : page[i].seq <= last BY <1>1, <1>2, <1>3 DEF EventsAfter
<1>9. ASSUME NEW i \in 1..Len(es \o page) PROVE (es \o page)[i].seq <= last
  <2>1. es \in Seq(Event) /\ Len(es) \in Nat BY <1>6 DEF EventsAfter
  <2>2. CASE i \in 1..Len(es)
    <3>1. (es \o page)[i] = es[i] /\ es[i].seq \in Nat /\ es[i].seq <= z BY <1>2, <1>6, <2>1, <2>2 DEF EventsAfter
    <3> QED BY <1>4, <3>1
  <2>3. CASE i \notin 1..Len(es)
    <3>1. i - Len(es) \in 1..n /\ (es \o page)[i] = page[i - Len(es)] BY <1>1, <1>2, <2>1, <2>3
    <3> QED BY <1>8, <3>1
  <2> QED BY <2>2, <2>3
<1> QED BY <1>2, <1>3, <1>5, <1>7, <1>9 DEF AccOf

\* While the screen shows another build than the application's, or none,
\* nothing need be known of what it holds.
LEMMA OtherRunStep ==
  ASSUME RunsInv', ShapeOf(screen', calls'), screen'.run # builds'.gen \/ screen'.run = 0
  PROVE  ScreenInv'
  BY DEF ScreenInv

\* The application's steps: the screen's run and what it holds stay.
LEMMA EventStep == ScreenInv /\ RecordBuildEvent => ScreenInv'
<1> SUFFICES ASSUME ScreenInv, RecordBuildEvent PROVE ScreenInv' OBVIOUS
<1>1. RingOf(ring', builds.gen) BY RingAppendKeeps DEF ScreenInv, RunsInv, RecordBuildEvent
<1>2. UNCHANGED <<builds, screen, calls>> BY DEF RecordBuildEvent
<1> QED BY <1>1, <1>2 DEF ScreenInv, RunsInv

LEMMA BuildOverStep == ScreenInv /\ BuildOver => ScreenInv'
<1> SUFFICES ASSUME ScreenInv, BuildOver PROVE ScreenInv' OBVIOUS
<1>1. UNCHANGED <<ring, screen, calls>> BY DEF BuildOver
<1>2. builds'.gen = builds.gen /\ (builds'.gen # 0 => builds'.finished)
  BY DEF BuildOver, ScreenInv, RunsInv
<1> QED BY <1>1, <1>2 DEF ScreenInv, RunsInv

\* A build starts after the one the screen shows.
LEMMA AppStartStep == ScreenInv /\ AppStartBuild => ScreenInv'
<1> SUFFICES ASSUME ScreenInv, AppStartBuild PROVE ScreenInv' OBVIOUS
<1>1. /\ screen' = screen /\ calls'.status = calls.status /\ calls'.log = calls.log /\ DOMAIN calls' = DOMAIN calls
  BY DEF AppStartBuild, ScreenInv, ShapeOf
<1>2. ShapeOf(screen', calls') BY <1>1 DEF ScreenInv, ShapeOf
<1>3. CASE builds.running
  <2>1. UNCHANGED <<builds, ring>> BY <1>3 DEF AppStartBuild
  <2> QED BY <1>1, <1>2, <2>1 DEF ScreenInv, RunsInv
<1>4. CASE ~builds.running
  <2>1. builds' = [gen |-> builds.gen + 1, running |-> TRUE, finished |-> FALSE] /\ ring' = RingReset BY <1>4 DEF AppStartBuild
  <2>2. RingOf(RingReset, builds.gen + 1) BY DEF RingReset, RingOf, Numbered
  <2>3. RunsInv' BY <1>1, <2>1, <2>2 DEF ScreenInv, RunsInv
  <2>4. screen'.run # builds'.gen BY <1>1, <2>1 DEF ScreenInv, RunsInv
  <2> QED BY <1>2, <2>3, <2>4, OtherRunStep
<1> QED BY <1>3, <1>4

LEMMA StatusAnswerStep == ScreenInv /\ AppBuildStatus => ScreenInv'
<1> SUFFICES ASSUME ScreenInv, AppBuildStatus PROVE ScreenInv' OBVIOUS
<1>1. UNCHANGED <<builds, ring, screen>> BY DEF AppBuildStatus
<1>2. /\ calls'.log = calls.log /\ DOMAIN calls' = DOMAIN calls
      /\ calls'.status = [pc |-> "answered", run |-> builds.gen, running |-> builds.running,
                          finished |-> builds.finished, total |-> ring.total]
  BY DEF AppBuildStatus, ScreenInv, ShapeOf
<1> QED BY <1>1, <1>2 DEF ScreenInv, RunsInv, ShapeOf

\* The page that the application answers is of the build it runs, or ran last.
LEMMA LogAnswerStep == ScreenInv /\ AppBuildLog => ScreenInv'
<1> SUFFICES ASSUME ScreenInv, AppBuildLog PROVE ScreenInv' OBVIOUS
<1>1. UNCHANGED <<builds, ring, screen>> BY DEF AppBuildLog
<1>2. PICK log : log = [calls.log EXCEPT !.pc = "answered", !.items = RingPage(ring, calls.log.since)] OBVIOUS
<1>3. /\ calls'.log = log /\ calls'.status = calls.status /\ DOMAIN calls' = DOMAIN calls
  BY <1>2 DEF AppBuildLog, ScreenInv, ShapeOf
<1>4. /\ DOMAIN log = DOMAIN calls.log /\ log.pc = "answered" /\ log.since = calls.log.since
      /\ log.items = RingPage(ring, calls.log.since) /\ calls.log.since \in Nat /\ calls.log.pc = "sent"
  BY <1>2 DEF AppBuildLog, ScreenInv, ShapeOf
<1>5. EventsAfter(log.items, builds.gen, log.since) BY <1>4, PageIsAfter DEF ScreenInv, RunsInv
<1>6. ShapeOf(screen', calls') BY <1>1, <1>3, <1>4, <1>5 DEF ScreenInv, ShapeOf, EventsAfter
<1>7. RunsInv' BY <1>1, <1>3 DEF ScreenInv, RunsInv
<1>8. ASSUME screen.run = builds.gen, screen.run # 0 PROVE AccOf(screen.acc, screen.run) /\ LogFor(log, screen.acc, screen.run)
  BY <1>4, <1>5, <1>8 DEF ScreenInv, LogFor
<1> QED BY <1>1, <1>3, <1>6, <1>7, <1>8 DEF ScreenInv

\* A step of the screen that keeps its run and its accumulator, and gives up
\* the page that is coming or asks for the one after the last event.
LEMMA SameAccStep ==
  ASSUME ScreenInv, UNCHANGED <<builds, ring>>, screen'.run = screen.run, screen'.acc = screen.acc, DOMAIN screen' = DOMAIN screen,
         DOMAIN calls' = DOMAIN calls, DOMAIN calls'.log = DOMAIN calls.log,
         calls'.status = calls.status \/ calls'.status.pc \in {"none", "sent"},
         \/ calls'.log = calls.log
         \/ calls'.log.pc = "none"
         \/ calls'.log.pc = "sent" /\ calls'.log.since = screen.acc.lastSeq
  PROVE  ScreenInv'
<1>1. RunsInv' BY DEF ScreenInv, RunsInv
<1>2. ShapeOf(screen', calls') BY DEF ScreenInv, ShapeOf
<1>3. ASSUME screen.run = builds.gen, screen.run # 0 PROVE AccOf(screen.acc, screen.run) /\ LogFor(calls'.log, screen.acc, screen.run)
  BY <1>3 DEF ScreenInv, LogFor
<1> QED BY <1>1, <1>2, <1>3 DEF ScreenInv

LEMMA OperatorStep == ScreenInv /\ (ScreenStart \/ ScreenShow) => ScreenInv'
<1> SUFFICES ASSUME ScreenInv, ScreenStart \/ ScreenShow PROVE ScreenInv' OBVIOUS
<1>1. CASE ScreenStart
  <2>1. UNCHANGED <<builds, ring>> BY <1>1 DEF ScreenStart
  <2>2. /\ screen'.run = 0 /\ screen'.acc = NewAcc /\ DOMAIN screen' = DOMAIN screen
        /\ DOMAIN calls' = DOMAIN calls /\ calls'.log = NoPage /\ calls'.status = NoStatus
    BY <1>1 DEF ScreenStart, ScreenInv, ShapeOf
  <2>3. RunsInv' BY <2>1, <2>2 DEF ScreenInv, RunsInv, NoStatus
  <2>4. ShapeOf(screen', calls') BY <2>2 DEF ScreenInv, ShapeOf, NewAcc, NoPage, NoStatus
  <2> QED BY <2>2, <2>3, <2>4, OtherRunStep
<1>2. CASE ScreenShow
  <2>1. calls'.log = calls.log /\ calls'.status.pc = "sent" /\ DOMAIN calls' = DOMAIN calls /\ UNCHANGED <<builds, ring, screen>>
    BY <1>2 DEF ScreenShow, Sync, NoStatus, ScreenInv, ShapeOf
  <2> QED BY <2>1, SameAccStep
<1> QED BY <1>1, <1>2

LEMMA NoticeStep == ScreenInv /\ (ScreenStarted \/ OnLifecycle \/ OnProgress \/ OnEvent) => ScreenInv'
<1> SUFFICES ASSUME ScreenInv, ScreenStarted \/ OnLifecycle \/ OnProgress \/ OnEvent PROVE ScreenInv' OBVIOUS
<1>1. ShapeOf(screen, calls) BY DEF ScreenInv
<1>2. CASE ScreenStarted
  <2>1. /\ UNCHANGED <<builds, ring>> /\ screen'.run = screen.run /\ screen'.acc = screen.acc /\ DOMAIN screen' = DOMAIN screen
    BY <1>1, <1>2 DEF ScreenStarted, ShapeOf
  <2>2. /\ DOMAIN calls' = DOMAIN calls /\ calls'.log = calls.log
        /\ (calls'.status = calls.status \/ calls'.status.pc \in {"none", "sent"})
    <3>1. CASE calls.start = "ok"
      <4>1. PICK c : c = [calls EXCEPT !.start = "none"] OBVIOUS
      <4>2. DOMAIN c = DOMAIN calls /\ c.log = calls.log BY <1>1, <4>1 DEF ShapeOf
      <4>3. calls' = [c EXCEPT !.status = [NoStatus EXCEPT !.pc = "sent"]] BY <1>2, <3>1, <4>1 DEF ScreenStarted, Sync
      <4> QED BY <1>1, <4>2, <4>3 DEF NoStatus, ShapeOf
    <3>2. CASE calls.start # "ok"
      <4>1. calls' = [calls EXCEPT !.start = "none"] BY <1>2, <3>2 DEF ScreenStarted
      <4> QED BY <1>1, <4>1 DEF ShapeOf
    <3> QED BY <3>1, <3>2
  <2> QED BY <2>1, <2>2, SameAccStep
<1>3. CASE OnLifecycle
  <2>1. /\ UNCHANGED <<builds, ring>> /\ screen'.run = screen.run /\ screen'.acc = screen.acc /\ DOMAIN screen' = DOMAIN screen
    BY <1>1, <1>3 DEF OnLifecycle, ShapeOf
  <2>2. /\ DOMAIN calls' = DOMAIN calls /\ calls'.log = NoPage /\ calls'.status.pc = "sent"
    BY <1>1, <1>3 DEF OnLifecycle, ShapeOf, Sync, NoStatus
  <2>3. calls'.log.pc = "none" /\ DOMAIN calls'.log = DOMAIN calls.log BY <1>1, <2>2 DEF NoPage, ShapeOf
  <2> QED BY <2>1, <2>2, <2>3, SameAccStep
<1>4. CASE OnProgress
  <2>1. /\ UNCHANGED <<builds, ring, screen>> /\ DOMAIN calls' = DOMAIN calls /\ calls'.log = calls.log
        /\ (calls'.status = calls.status \/ calls'.status.pc = "sent")
    BY <1>1, <1>4 DEF OnProgress, ShapeOf, Sync, NoStatus
  <2> QED BY <2>1, SameAccStep
<1>5. CASE OnEvent
  <2>1. /\ UNCHANGED <<builds, ring>> /\ screen'.run = screen.run /\ screen'.acc = screen.acc /\ DOMAIN screen' = DOMAIN screen
    BY <1>1, <1>5 DEF OnEvent, ShapeOf
  <2>2. \/ calls' = calls
        \/ calls' = [calls EXCEPT !.log = [NoPage EXCEPT !.pc = "sent", !.since = screen.acc.lastSeq]]
    BY <1>5 DEF OnEvent, Rehydrate
  <2>3. PICK log : log = [NoPage EXCEPT !.pc = "sent", !.since = screen.acc.lastSeq] OBVIOUS
  <2>4. log.pc = "sent" /\ log.since = screen.acc.lastSeq /\ DOMAIN log = DOMAIN calls.log BY <1>1, <2>3 DEF NoPage, ShapeOf
  <2>5. /\ DOMAIN calls' = DOMAIN calls /\ calls'.status = calls.status
        /\ (calls'.log = calls.log \/ calls'.log = log)
    BY <1>1, <2>2, <2>3 DEF ShapeOf
  <2> QED BY <2>1, <2>4, <2>5, SameAccStep
<1> QED BY <1>2, <1>3, <1>4, <1>5

\* A status of another run than the one shown starts the accumulator afresh
\* and gives up the page that is coming.
LEMMA StatusStep == ScreenInv /\ StatusArrives => ScreenInv'
<1> SUFFICES ASSUME ScreenInv, StatusArrives PROVE ScreenInv' OBVIOUS
<1>1. ShapeOf(screen, calls) /\ RunsInv /\ UNCHANGED <<builds, ring>> BY DEF ScreenInv, StatusArrives
<1>2. PICK st : st = calls.status OBVIOUS
<1>3. st.run \in Nat /\ st.run <= builds.gen /\ (st.run # 0 => st.running \/ st.finished)
  BY <1>1, <1>2 DEF RunsInv, StatusArrives
<1>4. PICK reset : reset = ((st.running \/ st.finished) /\ st.run # screen.run) OBVIOUS
<1>5. PICK acc : acc = IF reset THEN NewAcc ELSE screen.acc OBVIOUS
<1>6. PICK log : log = IF reset THEN NoPage ELSE calls.log OBVIOUS
<1>7. DOMAIN acc = {"lastSeq", "folded"} /\ acc.lastSeq \in Nat BY <1>1, <1>5 DEF ShapeOf, NewAcc
<1>8. /\ DOMAIN log = {"pc", "since", "items"} /\ log.pc \in {"none", "sent", "answered"} /\ (log.pc # "none" => log.since \in Nat)
      /\ log.pc = "answered" => log.items \in Seq(Event)
  BY <1>1, <1>6 DEF ShapeOf, NoPage
<1>9. PICK asked : asked = [NoPage EXCEPT !.pc = "sent", !.since = acc.lastSeq] OBVIOUS
<1>10. DOMAIN asked = {"pc", "since", "items"} /\ asked.pc = "sent" /\ asked.since = acc.lastSeq BY <1>9 DEF NoPage
<1>11. /\ screen'.run = st.run /\ screen'.acc = acc /\ DOMAIN screen' = DOMAIN screen
  BY <1>1, <1>2, <1>4, <1>5 DEF StatusArrives, ShapeOf
<1>12. calls' = [calls EXCEPT !.status = NoStatus, !.log = log]
       \/ calls' = [calls EXCEPT !.status = NoStatus, !.log = asked]
  <2>1. PICK next : next = [calls EXCEPT !.status = NoStatus, !.log = log] OBVIOUS
  <2>2. calls' = next \/ calls' = [next EXCEPT !.log = asked]
    BY <1>2, <1>4, <1>5, <1>6, <1>9, <2>1 DEF StatusArrives, Rehydrate
  <2>3. [next EXCEPT !.log = asked] = [calls EXCEPT !.status = NoStatus, !.log = asked]
    BY <1>1, <2>1 DEF ShapeOf
  <2> QED BY <2>1, <2>2, <2>3
<1>13. /\ DOMAIN calls' = DOMAIN calls /\ calls'.status = NoStatus
       /\ (calls'.log = log \/ calls'.log = asked)
  BY <1>1, <1>12 DEF ShapeOf
<1>14. ShapeOf(screen', calls') BY <1>1, <1>7, <1>8, <1>10, <1>11, <1>13 DEF ShapeOf, NoStatus
<1>15. RunsInv' BY <1>1, <1>3, <1>11, <1>13 DEF RunsInv, NoStatus
<1>16. CASE st.run # builds.gen \/ st.run = 0 BY <1>1, <1>11, <1>14, <1>15, <1>16, OtherRunStep
<1>17. CASE st.run = builds.gen /\ st.run # 0
  <2>1. AccOf(acc, st.run) /\ LogFor(log, acc, st.run)
    <3>1. CASE reset BY <1>5, <1>6, <3>1 DEF NewAcc, NoPage, AccOf, LogFor, EventsAfter
    <3>2. CASE ~reset
      <4>1. screen.run = st.run BY <1>3, <1>4, <1>17, <3>2
      <4> QED BY <1>5, <1>6, <1>17, <3>2, <4>1 DEF ScreenInv
    <3> QED BY <3>1, <3>2, <1>4
  <2>2. LogFor(asked, acc, st.run) BY <1>10 DEF LogFor
  <2> QED BY <1>1, <1>11, <1>13, <1>14, <1>15, <2>1, <2>2 DEF ScreenInv
<1> QED BY <1>16, <1>17

LEMMA PageStep == ScreenInv /\ PageArrives => ScreenInv'
<1> SUFFICES ASSUME ScreenInv, PageArrives PROVE ScreenInv' OBVIOUS
<1>1. ShapeOf(screen, calls) /\ RunsInv /\ UNCHANGED <<builds, ring>> /\ calls.log.pc = "answered" BY DEF ScreenInv, PageArrives
<1>2. PICK page : page = calls.log.items OBVIOUS
<1>3. PICK acc : acc = Fold(screen.acc, page) OBVIOUS
<1>4. page \in Seq(Event) /\ screen.acc.lastSeq \in Nat BY <1>1, <1>2 DEF ShapeOf
<1>5. CASE page # <<>>
  <2>1. Last(page) \in Event BY <1>4, <1>5 DEF Last
  <2>2. Last(page).seq \in Nat BY <2>1 DEF Event
  <2>3. PICK log : log = [NoPage EXCEPT !.pc = "sent", !.since = Last(page).seq] OBVIOUS
  <2>4. DOMAIN log = {"pc", "since", "items"} /\ log.pc = "sent" /\ log.since = Last(page).seq BY <2>3 DEF NoPage
  <2>5. /\ screen'.run = screen.run /\ screen'.acc = acc /\ DOMAIN screen' = DOMAIN screen
        /\ calls'.status = calls.status /\ calls'.log = log /\ DOMAIN calls' = DOMAIN calls
    BY <1>1, <1>2, <1>3, <1>5, <2>3 DEF PageArrives, Rehydrate, ShapeOf
  <2>6. DOMAIN acc = {"lastSeq", "folded"} /\ acc.lastSeq \in Nat BY <1>3, <1>4, <2>2 DEF Fold
  <2>7. ShapeOf(screen', calls') BY <1>1, <2>2, <2>4, <2>5, <2>6 DEF ShapeOf
  <2>8. RunsInv' BY <1>1, <2>5 DEF RunsInv
  <2>9. ASSUME screen.run = builds.gen, screen.run # 0 PROVE AccOf(acc, screen.run) /\ LogFor(log, acc, screen.run)
    <3>1. AccOf(screen.acc, screen.run) /\ EventsAfter(page, screen.run, screen.acc.lastSeq) /\ screen.run \in Nat
      BY <1>1, <1>2, <2>9 DEF ScreenInv, LogFor, RunsInv
    <3>2. AccOf(acc, screen.run) /\ acc.lastSeq = Last(page).seq BY <1>3, <1>4, <1>5, <3>1, FoldKeeps
    <3> QED BY <2>4, <3>2 DEF LogFor
  <2> QED BY <1>1, <2>5, <2>7, <2>8, <2>9 DEF ScreenInv
<1>6. CASE page = <<>>
  <2>1. acc.lastSeq = screen.acc.lastSeq BY <1>3, <1>6 DEF Fold
  <2>2. PICK log : log = [NoPage EXCEPT !.pc = "sent", !.since = screen.acc.lastSeq] OBVIOUS
  <2>3. /\ screen'.run = screen.run /\ screen'.acc = screen.acc /\ DOMAIN screen' = DOMAIN screen
        /\ calls'.status = calls.status /\ (calls'.log = log \/ calls'.log = NoPage) /\ DOMAIN calls' = DOMAIN calls
    <3>1. screen' = [screen EXCEPT !.again = FALSE] BY <1>2, <1>6 DEF PageArrives
    <3>2. \/ calls' = [calls EXCEPT !.log = log]
          \/ calls' = [calls EXCEPT !.log = NoPage]
      BY <1>2, <1>3, <1>6, <2>1, <2>2 DEF PageArrives, Rehydrate
    <3> QED BY <1>1, <3>1, <3>2 DEF ShapeOf
  <2>4. DOMAIN calls'.log = DOMAIN calls.log BY <1>1, <2>2, <2>3 DEF NoPage, ShapeOf
  <2>5. \/ calls'.log = calls.log
        \/ calls'.log.pc = "none"
        \/ calls'.log.pc = "sent" /\ calls'.log.since = screen.acc.lastSeq
    <3>1. CASE calls'.log = log
      <4>1. log.pc = "sent" /\ log.since = screen.acc.lastSeq BY <2>2 DEF NoPage
      <4> QED BY <3>1, <4>1
    <3>2. CASE calls'.log = NoPage BY <3>2 DEF NoPage
    <3> QED BY <2>3, <3>1, <3>2
  <2> QED BY <1>1, <2>3, <2>4, <2>5, SameAccStep
<1> QED BY <1>5, <1>6

(* ScreenShowsItsRun for every size of the ring and of a page: giving up the  *)
(* page on its way where a run is first seen, and asking for each page after   *)
(* the last event that was counted, are enough for no event to be counted      *)
(* twice or with another run's.                                                *)
THEOREM ScreenCountsEventsOnce == ScreenSpec => []ScreenShowsItsRun
<1>1. ScreenInit => ScreenInv
  BY DEF ScreenInit, ScreenInv, RunsInv, ShapeOf, RingOf, Numbered, NewAcc, NoPage, NoStatus
<1>2. ScreenInv /\ [ScreenNext]_svars => ScreenInv'
  <2> SUFFICES ASSUME ScreenInv, [ScreenNext]_svars PROVE ScreenInv' OBVIOUS
  <2>1. CASE UNCHANGED svars BY <2>1 DEF svars, ScreenInv, RunsInv
  <2> QED BY <2>1, EventStep, BuildOverStep, AppStartStep, StatusAnswerStep, LogAnswerStep, OperatorStep, NoticeStep, StatusStep, PageStep
    DEF ScreenNext, Backend, Screen
<1>3. ScreenInv => ScreenShowsItsRun
  <2> SUFFICES ASSUME ScreenInv, screen.run = builds.gen, screen.run # 0
               PROVE  LET f == screen.acc.folded
                      IN /\ \A i \in DOMAIN f : f[i].gen = screen.run
                         /\ \A i, j \in DOMAIN f : i < j => f[i].seq < f[j].seq
    BY DEF ScreenShowsItsRun
  <2>1. AccOf(screen.acc, screen.run) BY DEF ScreenInv
  <2>2. DOMAIN screen.acc.folded = 1..Len(screen.acc.folded) BY <2>1 DEF AccOf, EventsAfter
  <2> QED BY <2>1, <2>2 DEF AccOf, EventsAfter
<1> QED BY <1>1, <1>2, <1>3, PTL DEF ScreenSpec

-----------------------------------------------------------------------------

\* The fields that no action adds to or takes away.
ListFields ==
  {"query", "gen", "since", "total", "started", "top", "last", "first", "live", "frame", "pending", "settle",
   "recovery", "attempts", "reported", "failed", "errors", "scrolls"}
SearchFields == {"page", "gen", "query", "reply", "at"}

\* A list l while the catalogue is at version v.
ListOf(l, v) == DOMAIN l = ListFields /\ l.gen \in Nat /\ l.since \in Nat /\ l.since <= v
\* A call of SearchPackages as far as the list l knows it.
CallOf(s, l) ==
  /\ DOMAIN s = SearchFields /\ s.reply \in {"none", "page", "error"} /\ s.gen \in Nat /\ s.at \in Nat /\ s.gen <= l.gen
  /\ s.gen = l.gen => s.query = l.query /\ (s.reply = "page" => s.at >= l.since)
\* A cached page of the list l.
CachedFor(p, l) == p.query = l.query /\ p.at >= l.since

\* The inductive invariant: also an answer that is still on its way, if its
\* generation is the list's, is to the list's query and by a build of the
\* catalogue no older than the query.
PagesInv ==
  /\ served.version \in Nat /\ DOMAIN served = {"ready", "version", "shown"}
  /\ ListOf(list, served.version)
  /\ \A s \in searches : CallOf(s, list)
  /\ \A p \in DOMAIN cache : CachedFor(cache[p], list)

\* l and m are on the same query.
SameQuery(l, m) == DOMAIN m = DOMAIN l /\ m.gen = l.gen /\ m.query = l.query /\ m.since = l.since
\* m is on a query that was asked after l's, when the catalogue was at version v.
LaterQuery(l, m, v) == DOMAIN m = DOMAIN l /\ m.gen = l.gen + 1 /\ m.since = v
Asked(l, pages) == {[page |-> p, gen |-> l.gen, query |-> l.query, reply |-> "none", at |-> 0] : p \in pages}

LEMMA SameKeepsCalls ==
  ASSUME NEW l, NEW m, NEW v, ListOf(l, v), SameQuery(l, m)
  PROVE  /\ ListOf(m, v)
         /\ \A s : CallOf(s, l) => CallOf(s, m)
         /\ \A p : CachedFor(p, l) => CachedFor(p, m)
  BY DEF ListOf, CallOf, CachedFor, SameQuery

LEMMA LaterKeepsCalls ==
  ASSUME NEW l, NEW m, NEW v \in Nat, ListOf(l, v), LaterQuery(l, m, v)
  PROVE  /\ ListOf(m, v)
         /\ \A s : CallOf(s, l) => CallOf(s, m)
  BY DEF ListOf, CallOf, LaterQuery

LEMMA AskedAreCalls ==
  ASSUME NEW l, NEW v, ListOf(l, v), NEW pages, NEW s \in Asked(l, pages)
  PROVE  CallOf(s, l)
<1>1. PICK p \in pages : s = [page |-> p, gen |-> l.gen, query |-> l.query, reply |-> "none", at |-> 0]
  BY DEF Asked
<1> QED BY <1>1 DEF ListOf, CallOf, SearchFields

\* A step on the same query, which may ask for pages and take calls away.
LEMMA SameStep ==
  ASSUME PagesInv, SameQuery(list, list'), served'.version = served.version, DOMAIN served' = DOMAIN served,
         NEW pages, searches' \subseteq searches \cup Asked(list', pages), UNCHANGED cache
  PROVE  PagesInv'
<1>1. PICK l : l = list' OBVIOUS
<1>2. ListOf(list, served.version) BY DEF PagesInv
<1>3. ListOf(l, served.version) BY <1>1, <1>2, SameKeepsCalls
<1>4. ASSUME NEW s \in searches' PROVE CallOf(s, l)
  <2>1. CASE s \in searches BY <2>1, <1>1, <1>2, SameKeepsCalls DEF PagesInv
  <2>2. CASE s \in Asked(l, pages) BY <2>2, <1>3, AskedAreCalls
  <2> QED BY <2>1, <2>2, <1>1, <1>4
<1>5. \A p \in DOMAIN cache : CachedFor(cache[p], l) BY <1>1, <1>2, SameKeepsCalls DEF PagesInv
<1> QED BY <1>1, <1>3, <1>4, <1>5 DEF PagesInv

\* A step that begins another query: what was asked before is of an older
\* generation, and nothing is cached.
LEMMA LaterStep ==
  ASSUME PagesInv, LaterQuery(list, list', served.version), served'.version = served.version, DOMAIN served' = DOMAIN served,
         NEW pages, searches' \subseteq searches \cup Asked(list', pages), cache' = NoPages
  PROVE  PagesInv'
<1>1. PICK l : l = list' OBVIOUS
<1>2. ListOf(list, served.version) /\ served.version \in Nat BY DEF PagesInv
<1>3. ListOf(l, served.version) BY <1>1, <1>2, LaterKeepsCalls
<1>4. ASSUME NEW s \in searches' PROVE CallOf(s, l)
  <2>1. CASE s \in searches BY <2>1, <1>1, <1>2, LaterKeepsCalls DEF PagesInv
  <2>2. CASE s \in Asked(l, pages) BY <2>2, <1>3, AskedAreCalls
  <2> QED BY <2>1, <2>2, <1>1, <1>4
<1> QED BY <1>1, <1>2, <1>3, <1>4 DEF PagesInv, NoPages

LEMMA RenewedIsLater ==
  ASSUME NEW l, NEW v, ListOf(l, v)
  PROVE  LaterQuery(l, Renewed(l), served.version)
  BY DEF ListOf, LaterQuery, Renewed, ListFields

LEMMA RecoveringIsSame ==
  ASSUME NEW l, DOMAIN l = ListFields
  PROVE  SameQuery(l, Recovering(l))
  BY DEF SameQuery, Recovering, ListFields

\* Whatever _renderDiscovery does: another query, or nothing.
LEMMA DiscoveryStep ==
  ASSUME PagesInv, NEW q, NEW refresh, RenderDiscovery(q, refresh), served'.version = served.version, DOMAIN served' = DOMAIN served
  PROVE  PagesInv'
<1>1. ListOf(list, served.version) /\ DOMAIN list = ListFields BY DEF PagesInv, ListOf
<1>2. PICK r : r = Renewed(list) OBVIOUS
<1>3. LaterQuery(list, r, served.version) BY <1>1, <1>2, RenewedIsLater
<1>4. CASE Reset
  <2>1. list' = [r EXCEPT !.started = FALSE, !.top = 0, !.last = 0] BY <1>2, <1>4 DEF Reset
  <2>2. LaterQuery(list, list', served.version) BY <2>1, <1>1, <1>3 DEF LaterQuery, ListFields
  <2> QED BY <1>4, <2>2, LaterStep DEF Reset, Cleared
<1>5. CASE Refresh
  <2>1. PICK l : l = [r EXCEPT !.started = TRUE] OBVIOUS
  <2>2. list' = l /\ cache' = NoPages /\ searches' = searches \cup Asked(l, {PageOf(l.top)})
    BY <1>2, <1>5, <2>1 DEF Refresh, Cleared, Fetch, Asked
  <2>3. LaterQuery(list, list', served.version) BY <2>1, <2>2, <1>1, <1>3 DEF LaterQuery, ListFields
  <2> QED BY <2>2, <2>3, LaterStep
<1>6. CASE SetQuery(q)
  <2>1. CASE UNCHANGED <<list, cache, used, inflight, searches>>
    BY <2>1, SameStep DEF SameQuery
  <2>2. CASE ~UNCHANGED <<list, cache, used, inflight, searches>>
    <3>1. PICK l : l = [r EXCEPT !.query = q, !.started = TRUE, !.top = 0, !.last = 0] OBVIOUS
    <3>2. list' = l /\ cache' = NoPages /\ searches' = searches \cup Asked(l, {0})
      BY <1>2, <1>6, <2>2, <3>1 DEF SetQuery, Cleared, Fetch, Asked
    <3>3. LaterQuery(list, list', served.version) BY <3>1, <3>2, <1>1, <1>3 DEF LaterQuery, ListFields
    <3> QED BY <3>2, <3>3, LaterStep
  <2> QED BY <2>1, <2>2
<1> QED BY <1>4, <1>5, <1>6 DEF RenderDiscovery

\* A step that leaves the list, its calls and its cache alone.
LEMMA QuietStep ==
  ASSUME PagesInv, UNCHANGED <<list, cache, searches>>, served'.version = served.version, DOMAIN served' = DOMAIN served
  PROVE  PagesInv'
  BY SameStep DEF SameQuery

LEMMA UpdateStep == PagesInv /\ Update => PagesInv'
<1> SUFFICES ASSUME PagesInv, Update PROVE PagesInv' OBVIOUS
<1>1. DOMAIN list = ListFields BY DEF PagesInv, ListOf
<1> DEFINE w == Window(list)
           delta == IF list.top > list.last THEN list.top - list.last ELSE list.last - list.top
           known == list.total # Unknown
           flinging == delta > Fling
           l == [list EXCEPT !.frame = FALSE, !.last = list.top, !.first = w.first, !.live = w.count, !.pending = @ \/ (known /\ flinging)]
           armed == [l EXCEPT !.settle = @ \/ delta > 0 \/ l.pending]
           pages == Wanted(armed, w.first, w.count, TRUE)
<1>2. SameQuery(list, l) BY <1>1 DEF SameQuery, ListFields
<1>3. SameQuery(list, armed) /\ DOMAIN armed = ListFields
  <2> HIDE DEF l
  <2> QED BY <1>1, <1>2 DEF SameQuery, ListFields
<1>4. \/ list' = armed /\ searches' = searches \cup Asked(armed, pages)
      \/ (list' = armed \/ list' = Recovering(armed)) /\ UNCHANGED searches
  BY DEF Update, Fetch, Asked
<1> HIDE DEF armed, pages
<1>5. SameQuery(list, list')
  <2>1. SameQuery(armed, Recovering(armed)) BY <1>3, RecoveringIsSame
  <2> QED BY <2>1, <1>3, <1>4 DEF SameQuery
<1>6. searches' \subseteq searches \cup Asked(list', pages) BY <1>4
<1>7. UNCHANGED <<cache, served>> BY DEF Update
<1> QED BY <1>5, <1>6, <1>7, SameStep

LEMMA TimerStep == PagesInv /\ (Settle \/ Recover) => PagesInv'
<1> SUFFICES ASSUME PagesInv, Settle \/ Recover PROVE PagesInv' OBVIOUS
<1>1. DOMAIN list = ListFields BY DEF PagesInv, ListOf
<1>2. CASE Settle
  <2>1. PICK l : l = [list EXCEPT !.settle = FALSE, !.pending = FALSE, !.last = list.top] OBVIOUS
  <2>2. PICK pages : pages = IF l.total # Unknown THEN Wanted(l, l.first, l.live, TRUE) ELSE {} OBVIOUS
  <2>3. list' = l /\ searches' = searches \cup Asked(l, pages) /\ UNCHANGED <<cache, served>>
    BY <1>2, <2>1, <2>2 DEF Settle, Fetch, Asked
  <2>4. SameQuery(list, list') BY <1>1, <2>1, <2>3 DEF SameQuery, ListFields
  <2> QED BY <2>3, <2>4, SameStep
<1>3. CASE Recover
  <2>1. PICK l : l = [list EXCEPT !.recovery = FALSE, !.frame = TRUE] OBVIOUS
  <2>2. PICK pages : pages = IF l.total = Unknown THEN {PageOf(l.top)} ELSE Wanted(l, l.first, Max({1, l.live}), FALSE) OBVIOUS
  <2>3. list' = l /\ searches' = searches \cup Asked(l, pages) /\ UNCHANGED <<cache, served>>
    BY <1>3, <2>1, <2>2 DEF Recover, Fetch, Asked
  <2>4. SameQuery(list, list') BY <1>1, <2>1, <2>3 DEF SameQuery, ListFields
  <2> QED BY <2>3, <2>4, SameStep
<1> QED BY <1>2, <1>3

\* An answer to a call is by the build of the catalogue that is ready now,
\* which is no older than the list's query.
LEMMA AnswerStep ==
  ASSUME PagesInv, NEW s \in searches, Answer(s) PROVE PagesInv'
<1>1. /\ ListOf(list, served.version) /\ DOMAIN list = ListFields /\ served.version \in Nat
      /\ CallOf(s, list) /\ UNCHANGED <<cache, served>>
  BY DEF PagesInv, ListOf, Answer
<1>2. PICK l : l = list' OBVIOUS
<1>3. SameQuery(list, l) BY <1>1, <1>2 DEF SameQuery, ListFields, Answer
<1>4. ListOf(l, served.version) BY <1>1, <1>3, SameKeepsCalls
<1>5. PICK a : a \in {[s EXCEPT !.reply = "page", !.at = served.version], [s EXCEPT !.reply = "error"]}
               /\ searches' = (searches \ {s}) \cup {a}
  BY DEF Answer
<1>6. CallOf(a, list)
  <2>1. CASE a = [s EXCEPT !.reply = "page", !.at = served.version]
    BY <2>1, <1>1 DEF CallOf, ListOf, SearchFields
  <2>2. CASE a = [s EXCEPT !.reply = "error"]
    BY <2>2, <1>1 DEF CallOf, SearchFields
  <2> QED BY <1>5, <2>1, <2>2
<1>7. \A t \in searches' : CallOf(t, l) BY <1>1, <1>3, <1>5, <1>6, SameKeepsCalls DEF PagesInv
<1>8. \A p \in DOMAIN cache : CachedFor(cache[p], l) BY <1>1, <1>3, SameKeepsCalls DEF PagesInv
<1> QED BY <1>1, <1>2, <1>4, <1>7, <1>8 DEF PagesInv

\* Only a page of the list's generation is kept.
LEMMA DeliverStep ==
  ASSUME PagesInv, NEW s \in searches, Deliver(s) PROVE PagesInv'
<1>1. /\ ListOf(list, served.version) /\ DOMAIN list = ListFields /\ CallOf(s, list)
      /\ UNCHANGED served /\ searches' \subseteq searches
  BY DEF PagesInv, ListOf, Deliver
<1>2. CASE UNCHANGED <<list, cache, used>>
  BY <1>1, <1>2, SameStep DEF SameQuery
<1>3. CASE ~Stale(s) /\ s.reply = "error" /\ list' = Recovering([list EXCEPT !.failed = TRUE]) /\ UNCHANGED cache
  <2>1. PICK l : l = [list EXCEPT !.failed = TRUE] OBVIOUS
  <2>2. DOMAIN l = ListFields /\ SameQuery(list, l) BY <1>1, <2>1 DEF SameQuery, ListFields
  <2>3. SameQuery(list, list') BY <1>3, <2>1, <2>2, RecoveringIsSame DEF SameQuery
  <2> QED BY <1>1, <1>3, <2>3, SameStep
<1>4. CASE list' = Recovering(list) /\ UNCHANGED cache
  <2>1. SameQuery(list, list') BY <1>1, <1>4, RecoveringIsSame
  <2> QED BY <1>1, <1>4, <2>1, SameStep
<1>5. CASE ~Stale(s) /\ s.reply # "error" /\ Trimmed(s.query) = list.query
  <2> DEFINE total == Rows(Trimmed(s.query), s.at)
             len == Max({0, Min({PageSize, total - s.page * PageSize})})
             page == [query |-> s.query, at |-> s.at, len |-> len,
                      complete |-> len >= PageSize \/ s.page * PageSize + len >= total,
                      attempts |-> IF s.page \in DOMAIN cache THEN cache[s.page].attempts + 1 ELSE 1]
             pages == With(cache, s.page, page)
             gone == Evicted(DOMAIN pages, Append(SelectSeq(used, LAMBDA p : p # s.page), s.page), list)
  <2>1. /\ list' = [list EXCEPT !.total = total, !.attempts = 0, !.reported = FALSE, !.failed = FALSE, !.frame = TRUE]
        /\ cache' = [p \in DOMAIN pages \ gone |-> pages[p]]
    BY <1>5 DEF Deliver
  <2>2. SameQuery(list, list') BY <1>1, <2>1 DEF SameQuery, ListFields
  <2>3. CachedFor(page, list) BY <1>1, <1>5 DEF CallOf, CachedFor, Stale, Deliver
  <2> HIDE DEF page, gone
  <2>4. DOMAIN pages = DOMAIN cache \cup {s.page} BY DEF With
  <2>5. ASSUME NEW p \in DOMAIN cache' PROVE CachedFor(cache'[p], list)
    <3>1. p \in DOMAIN pages /\ cache'[p] = pages[p] BY <2>1, <2>5
    <3>2. CASE p = s.page BY <3>1, <3>2, <2>3, <2>4 DEF With
    <3>3. CASE p # s.page
      <4>1. p \in DOMAIN cache /\ cache'[p] = cache[p] BY <3>1, <3>3, <2>4 DEF With
      <4> QED BY <4>1 DEF PagesInv
    <3> QED BY <3>2, <3>3
  <2>6. PICK l : l = list' OBVIOUS
  <2>7. /\ ListOf(l, served.version) /\ \A t \in searches : CallOf(t, l)
        /\ \A p \in DOMAIN cache' : CachedFor(cache'[p], l)
    BY <1>1, <2>2, <2>5, <2>6, SameKeepsCalls DEF PagesInv
  <2> QED BY <1>1, <2>6, <2>7 DEF PagesInv
<1> QED BY <1>2, <1>3, <1>4, <1>5 DEF Deliver

LEMMA PagesStep ==
  ASSUME PagesInv, [ListNext]_lvars
  PROVE  PagesInv'
<1>1. ASSUME NEW q \in Texts, Type(q) PROVE PagesInv' BY <1>1, QuietStep DEF Type
<1>2. CASE Commit
  <2>1. served' = served BY <1>2 DEF Commit
  <2>2. RenderDiscovery(box.text, FALSE) \/ UNCHANGED <<list, cache, used, inflight, searches>> BY <1>2 DEF Commit
  <2> QED BY <2>1, <2>2, DiscoveryStep, QuietStep
<1>3. CASE PreparationStarts
  <2>1. served'.version = served.version /\ DOMAIN served' = DOMAIN served BY <1>3 DEF PreparationStarts, PagesInv
  <2>2. PICK r : r = [Renewed(list) EXCEPT !.started = FALSE, !.top = 0, !.last = 0] OBVIOUS
  <2>3. list' = r /\ cache' = NoPages /\ UNCHANGED searches BY <1>3, <2>2 DEF PreparationStarts, Reset, Cleared
  <2>4. ListOf(list, served.version) /\ DOMAIN list = ListFields BY DEF PagesInv, ListOf
  <2>5. LaterQuery(list, Renewed(list), served.version) BY <2>4, RenewedIsLater
  <2>6. LaterQuery(list, list', served.version) BY <2>2, <2>3, <2>4, <2>5 DEF LaterQuery, ListFields
  <2> QED BY <2>1, <2>3, <2>6, LaterStep
<1>4. CASE CatalogBuilt
  <2>1. served'.version = served.version + 1 /\ DOMAIN served' = DOMAIN served /\ UNCHANGED <<list, searches, cache>>
    BY <1>4 DEF CatalogBuilt, PagesInv
  <2>2. ListOf(list, served.version + 1) /\ served.version + 1 \in Nat BY DEF PagesInv, ListOf
  <2> QED BY <2>1, <2>2 DEF PagesInv
<1>5. CASE ShowReady
  <2>1. served'.version = served.version /\ DOMAIN served' = DOMAIN served BY <1>5 DEF ShowReady, PagesInv
  <2> QED BY <1>5, <2>1, DiscoveryStep DEF ShowReady
<1>6. ASSUME NEW row, Scroll(row) PROVE PagesInv'
  <2>1. SameQuery(list, list') BY <1>6 DEF Scroll, SameQuery, PagesInv, ListOf, ListFields
  <2> QED BY <1>6, <2>1, SameStep DEF Scroll
<1>7. CASE Update BY <1>7, UpdateStep
<1>8. CASE Settle \/ Recover BY <1>8, TimerStep
<1>9. ASSUME NEW s \in searches, Answer(s) \/ Deliver(s) PROVE PagesInv' BY <1>9, AnswerStep, DeliverStep
<1>10. CASE UNCHANGED lvars BY <1>10, QuietStep DEF lvars
<1> QED BY <1>1, <1>2, <1>3, <1>4, <1>5, <1>6, <1>7, <1>8, <1>9, <1>10 DEF ListNext

(* PagesAreOfTheQuery for all texts, page sizes, cache limits and numbers of  *)
(* rows: the generation that a request carries and the check of it in         *)
(* fetchPage are enough to keep an answer to an older search, or by an older   *)
(* build of the catalogue, off the screen.                                     *)
THEOREM ListShowsItsQuery == ListSpec => []PagesAreOfTheQuery
<1>1. ListInit => PagesInv
  BY DEF ListInit, PagesInv, ListOf, ListFields, NoPages
<1>2. PagesInv /\ [ListNext]_lvars => PagesInv' BY PagesStep
<1>3. PagesInv => PagesAreOfTheQuery BY DEF PagesInv, CachedFor, PagesAreOfTheQuery
<1> QED BY <1>1, <1>2, <1>3, PTL DEF ListSpec


LEMMA DivBounds ==
  ASSUME NEW b \in Nat \ {0}, NEW a \in Nat
  PROVE  a \div b \in Nat /\ b * (a \div b) <= a /\ a < b * (a \div b) + b
  OBVIOUS

LEMMA DivMono ==
  ASSUME NEW b \in Nat \ {0}, NEW a \in Nat, NEW c \in Nat, a <= c
  PROVE  a \div b <= c \div b
<1>1. PICK q \in Nat : q = a \div b BY DivBounds
<1>2. PICK r \in Nat : r = c \div b BY DivBounds
<1>3. b * q <= a /\ c < b * r + b BY <1>1, <1>2, DivBounds
<1>4. SUFFICES ASSUME q > r PROVE FALSE BY <1>1, <1>2
<1>5. PICK d \in Nat : q = r + 1 + d BY <1>4
<1>6. b * q = b * r + b + b * d BY <1>5
<1>7. b * d \in Nat /\ b * q \in Nat /\ b * r \in Nat OBVIOUS
<1> QED BY <1>3, <1>6, <1>7

LEMMA MaxOfTwo ==
  ASSUME NEW a \in Int, NEW b \in Int
  PROVE  Max({a, b}) = (IF a >= b THEN a ELSE b)
  BY DEF Max

LEMMA MinOfTwo ==
  ASSUME NEW a \in Int, NEW b \in Int
  PROVE  Min({a, b}) = (IF a <= b THEN a ELSE b)
  BY DEF Min

\* How many rows the page p of t rows has.
LenOf(p, t) == Max({0, Min({PageSize, t - p * PageSize})})

LEMMA LenOfPage ==
  ASSUME NEW p \in Int, NEW t \in Nat
  PROVE  /\ LenOf(p, t) \in Nat
         /\ LenOf(p, t) >= PageSize \/ p * PageSize + LenOf(p, t) >= t
         /\ \A k \in 0..(PageSize - 1) : k < t - p * PageSize => k < LenOf(p, t)
<1>1. PageSize \in Nat \ {0} BY ListAssumption
<1>2. PICK m \in Int : m = p * PageSize BY <1>1
<1>8. PICK d \in Int : d = t - m BY <1>2
<1>9. Min({PageSize, d}) = IF PageSize <= d THEN PageSize ELSE d BY <1>1, <1>8, MinOfTwo
<1>3. Min({PageSize, t - m}) = IF PageSize <= d THEN PageSize ELSE d BY Zenon, <1>8, <1>9
<1>4. PICK n \in Int : n = Min({PageSize, t - m}) BY <1>1, <1>2, <1>3, <1>8
<1>5. Max({0, n}) = IF 0 >= n THEN 0 ELSE n BY <1>4, MaxOfTwo
<1>6. LenOf(p, t) = Max({0, Min({PageSize, t - m})}) BY Zenon, <1>2 DEF LenOf
<1>7. LenOf(p, t) = IF 0 >= n THEN 0 ELSE n BY Zenon, <1>4, <1>5, <1>6
<1> QED BY <1>1, <1>2, <1>3, <1>4, <1>7, <1>8

WaitServed(sv) ==
  /\ sv.version \in 1..MaxVersion
  /\ sv.shown => sv.ready
  /\ ~sv.ready => sv.version < MaxVersion
WaitBox(bx) == bx.text \in Texts /\ bx.emitted \in Texts
WaitList(l, sv) ==
  /\ DOMAIN l = ListFields
  /\ l.gen \in Nat /\ l.top \in Nat /\ l.last \in Nat /\ l.first \in Nat /\ l.live \in Nat /\ l.query \in Texts
  /\ l.total # Unknown => l.total \in Nat /\ l.total = Rows(l.query, l.since) /\ Trimmed(l.query) = l.query
  /\ l.started => sv.shown /\ l.since = sv.version
  /\ ~l.started => l.total = Unknown /\ ~l.recovery
  /\ l.reported => l.failed
WaitCalls(ss, l, sv) ==
  \A s \in ss : s.page \in Int /\ (s.gen = l.gen => l.started /\ (s.reply = "page" => s.at <= sv.version))
WaitOut(inf, ss, l) ==
  \A p \in DOMAIN inf : inf[p] = l.gen /\ \E s \in ss : s.page = p /\ s.gen = l.gen
WaitCache(c, l) ==
  \A p \in DOMAIN c : p \in Int /\ l.total # Unknown /\ c[p].len = LenOf(p, l.total) /\ c[p].complete
\* What is not on the screen is on its way, or a frame or timer will ask.
Covered(pages, out, l) ==
  /\ l.started /\ l.total = Unknown /\ ~l.frame /\ ~l.recovery => l.failed \/ out # {}
  /\ l.started /\ l.total # Unknown /\ ~l.frame /\ ~l.settle /\ ~l.recovery =>
       \/ l.failed
       \/ \A row \in l.first..(l.first + l.live - 1) : row < l.total => PageOf(row) \in pages \cup out

WaitInv ==
  /\ PagesInv /\ WaitServed(served) /\ WaitBox(box) /\ WaitList(list, served)
  /\ WaitCalls(searches, list, served) /\ WaitOut(inflight, searches, list) /\ WaitCache(cache, list)
  /\ Covered(DOMAIN cache, DOMAIN inflight, list)

LEMMA RowsPage ==
  ASSUME NEW row \in Nat
  PROVE  PageOf(row) \in Nat /\ row - PageOf(row) * PageSize \in 0..(PageSize - 1)
<1>1. PageSize \in Nat \ {0} BY ListAssumption
<1>2. PICK q \in Nat : q = row \div PageSize /\ PageSize * q <= row /\ row < PageSize * q + PageSize BY <1>1, DivBounds
<1>3. PICK m \in Nat : m = PageSize * q /\ m = q * PageSize BY <1>1, <1>2
<1> QED BY <1>1, <1>2, <1>3 DEF PageOf

LEMMA NoRowWaitsByInv ==
  ASSUME WaitInv
  PROVE  NoRowWaits
<1>1. SUFFICES ASSUME Quiet, list.started, ~list.failed
      PROVE  list.total # Unknown /\ \A row \in list.first..(list.first + list.live - 1) : row < list.total => Shown(row)
  BY DEF NoRowWaits
<1>2. DOMAIN inflight = {} BY <1>1 DEF WaitInv, WaitOut, Quiet
<1>3. list.total # Unknown /\ list.total \in Nat BY <1>1, <1>2 DEF WaitInv, Covered, WaitList, Quiet
<1>4. ASSUME NEW row \in list.first..(list.first + list.live - 1), row < list.total
      PROVE  Shown(row)
  <2>1. row \in Nat BY DEF WaitInv, WaitList
  <2>2. PICK p \in Int : p = PageOf(row) /\ row - p * PageSize \in 0..(PageSize - 1) BY <2>1, RowsPage
  <2>3. p \in DOMAIN cache BY <1>1, <1>2, <1>3, <1>4, <2>2 DEF WaitInv, Covered, Quiet
  <2>4. cache[p].len = LenOf(p, list.total) BY <2>3 DEF WaitInv, WaitCache
  <2>5. PICK m \in Int : m = p * PageSize BY ListAssumption
  <2>6. row - m < list.total - m BY <1>3, <1>4, <2>1, <2>5
  <2>7. row - p * PageSize < cache[p].len BY <1>3, <2>2, <2>4, <2>5, <2>6, LenOfPage
  <2> QED BY <2>2, <2>3, <2>7 DEF Shown
<1> QED BY <1>3, <1>4

LEMMA WantedCovers ==
  ASSUME NEW l, NEW first \in Nat, NEW count \in Nat, l.total \in Nat,
         NEW row \in first..(first + count - 1), row < l.total,
         PageOf(row) \notin DOMAIN inflight, PageOf(row) \notin DOMAIN cache
  PROVE  PageOf(row) \in Wanted(l, first, count, TRUE)
<1>1. row \in Nat /\ count > 0 /\ first + count - 1 \in Nat /\ row <= first + count - 1 /\ first <= row /\ l.total > 0 /\ l.total - 1 \in Nat /\ row <= l.total - 1
  OBVIOUS
<1>2. PICK p \in Nat : p = PageOf(row) BY <1>1, RowsPage
<1>3. PageSize \in Nat \ {0} BY ListAssumption
<1>4. PageOf(first) <= p /\ p <= PageOf(first + count - 1) /\ p <= PageOf(l.total - 1)
  BY <1>1, <1>2, <1>3, DivMono DEF PageOf
<1>5. PageOf(first) \in Nat /\ PageOf(first + count - 1) \in Nat /\ PageOf(l.total - 1) \in Nat BY <1>1, RowsPage
<1>6. p \in (PageOf(first) - 1)..(PageOf(first + count - 1) + 1) BY <1>4, <1>5
<1> QED BY <1>1, <1>2, <1>4, <1>5, <1>6 DEF Wanted

LEMMA WantedArePages ==
  ASSUME NEW l, NEW first, NEW count, NEW prefetch
  PROVE  Wanted(l, first, count, prefetch) \subseteq Int
  BY DEF Wanted

\* A step that begins another query, whose pages are asked for.
LEMMA RenewedWaits ==
  ASSUME WaitInv, PagesInv', WaitServed(served'), WaitBox(box'), WaitList(list', served'),
         LaterQuery(list, list', served.version), list'.total = Unknown, list'.frame,
         NEW pages, pages \subseteq Int, pages # {} => list'.started,
         searches' = searches \cup Asked(list', pages), cache' = NoPages,
         inflight' = [p \in pages |-> list'.gen]
  PROVE  WaitInv'
<1>1. PICK l : l = list' OBVIOUS
<1>2. list.gen \in Nat /\ l.gen = list.gen + 1 BY <1>1 DEF WaitInv, WaitList, LaterQuery
<1>3. \A s \in searches : s.gen \in Nat /\ s.gen # l.gen /\ s.page \in Int BY <1>2 DEF WaitInv, PagesInv, CallOf, WaitCalls
<1>4. ASSUME NEW s \in Asked(l, pages) PROVE s.page \in Int /\ s.gen = l.gen /\ s.reply = "none" /\ l.started
  <2>1. PICK p \in pages : s = [page |-> p, gen |-> l.gen, query |-> l.query, reply |-> "none", at |-> 0] BY DEF Asked
  <2> QED BY <1>1, <2>1
<1>5. WaitCalls(searches', l, served') BY <1>1, <1>3, <1>4 DEF WaitCalls
<1>6. WaitOut(inflight', searches', l)
  <2>1. ASSUME NEW p \in pages PROVE \E s \in searches' : s.page = p /\ s.gen = l.gen
    <3>1. PICK s : s = [page |-> p, gen |-> l.gen, query |-> l.query, reply |-> "none", at |-> 0] OBVIOUS
    <3>2. s \in Asked(l, pages) BY <3>1 DEF Asked
    <3> QED BY <1>1, <3>1, <3>2
  <2> QED BY <1>1, <2>1 DEF WaitOut
<1>7. WaitCache(cache', l) BY DEF WaitCache, NoPages
<1>8. Covered(DOMAIN cache', DOMAIN inflight', l) BY <1>1 DEF Covered
<1> QED BY <1>1, <1>5, <1>6, <1>7, <1>8 DEF WaitInv

LEMMA RenewedFields ==
  ASSUME NEW l, DOMAIN l = ListFields
  PROVE  /\ DOMAIN Renewed(l) = ListFields
         /\ Renewed(l).gen = l.gen + 1 /\ Renewed(l).since = served.version /\ Renewed(l).total = Unknown
         /\ ~Renewed(l).recovery /\ ~Renewed(l).reported /\ ~Renewed(l).failed /\ Renewed(l).frame
         /\ Renewed(l).top = l.top /\ Renewed(l).last = l.last /\ Renewed(l).first = l.first /\ Renewed(l).live = l.live
         /\ Renewed(l).query = l.query /\ Renewed(l).started = l.started /\ Renewed(l).settle = l.settle
  BY DEF Renewed, ListFields

\* Whatever _renderDiscovery does, once the screen knows the catalogue is ready.
LEMMA DiscoveryWaits ==
  ASSUME WaitInv, PagesInv', WaitServed(served'), WaitBox(box'), NEW q \in Texts, NEW refresh, RenderDiscovery(q, refresh),
         served'.version = served.version, served'.shown
  PROVE  WaitInv'
<1>1. DOMAIN list = ListFields /\ list.gen \in Nat /\ list.top \in Nat /\ list.last \in Nat /\ list.first \in Nat /\ list.live \in Nat /\ list.query \in Texts
  BY DEF WaitInv, WaitList
<1>2. PICK r : r = Renewed(list) OBVIOUS
<1>3. /\ DOMAIN r = ListFields
      /\ r.gen = list.gen + 1 /\ r.since = served.version /\ r.total = Unknown
      /\ ~r.recovery /\ ~r.reported /\ ~r.failed /\ r.frame
      /\ r.top = list.top /\ r.last = list.last /\ r.first = list.first /\ r.live = list.live
      /\ r.query = list.query /\ r.started = list.started /\ r.settle = list.settle
  BY <1>1, <1>2, RenewedFields
<1>4. CASE Reset
  <2>1. PICK l : l = [r EXCEPT !.started = FALSE, !.top = 0, !.last = 0] OBVIOUS
  <2>2. list' = l /\ cache' = NoPages /\ inflight' = NoPages /\ searches' = searches BY <1>2, <1>4, <2>1 DEF Reset, Cleared
  <2>3. LaterQuery(list, l, served.version) /\ l.total = Unknown /\ l.frame BY <1>1, <1>3, <2>1 DEF LaterQuery, ListFields
  <2>4. WaitList(l, served') BY <1>1, <1>3, <2>1 DEF WaitList, ListFields
  <2>5. searches' = searches \cup Asked(l, {}) BY <2>2 DEF Asked
  <2>6. inflight' = [p \in {} |-> l.gen] BY <2>2 DEF NoPages
  <2> QED BY <2>2, <2>3, <2>4, <2>5, <2>6, RenewedWaits
<1>5. CASE Refresh
  <2>1. PICK l : l = [r EXCEPT !.started = TRUE] OBVIOUS
  <2>2. PICK pages : pages = {PageOf(l.top)} OBVIOUS
  <2>3. l.top \in Nat BY <1>1, <1>3, <2>1 DEF ListFields
  <2>4. pages \subseteq Int BY <2>2, <2>3, RowsPage
  <2>5. list' = l /\ cache' = NoPages /\ searches' = searches \cup Asked(l, pages)
    BY <1>2, <1>5, <2>1, <2>2 DEF Refresh, Cleared, Fetch, Asked
  <2>6. inflight' = [p \in pages |-> l.gen] BY <1>2, <1>5, <2>1, <2>2 DEF Refresh, Fetch, NoPages
  <2>7. LaterQuery(list, l, served.version) /\ l.total = Unknown /\ l.frame /\ l.started BY <1>1, <1>3, <2>1 DEF LaterQuery, ListFields
  <2>8. WaitList(l, served') BY <1>1, <1>3, <2>1 DEF WaitList, ListFields
  <2> QED BY <2>4, <2>5, <2>6, <2>7, <2>8, RenewedWaits
<1>6. CASE SetQuery(q) /\ ~UNCHANGED <<list, cache, used, inflight, searches>>
  <2>1. PICK l : l = [r EXCEPT !.query = q, !.started = TRUE, !.top = 0, !.last = 0] OBVIOUS
  <2>2. list' = l /\ cache' = NoPages /\ searches' = searches \cup Asked(l, {0})
    BY <1>2, <1>6, <2>1 DEF SetQuery, Cleared, Fetch, Asked
  <2>3. inflight' = [p \in {0} |-> l.gen] BY <1>2, <1>6, <2>1 DEF SetQuery, Fetch, NoPages
  <2>4. LaterQuery(list, l, served.version) /\ l.total = Unknown /\ l.frame /\ l.started BY <1>1, <1>3, <2>1 DEF LaterQuery, ListFields
  <2>5. WaitList(l, served') BY <1>1, <1>3, <2>1 DEF WaitList, ListFields
  <2> QED BY <2>2, <2>3, <2>4, <2>5, RenewedWaits
<1>7. CASE UNCHANGED <<list, cache, used, inflight, searches>>
  <2>1. PICK sv : sv = served' OBVIOUS
  <2>2. WaitList(list, sv) /\ WaitCalls(searches, list, sv) BY <2>1 DEF WaitInv, WaitList, WaitCalls
  <2> QED BY <1>7, <2>1, <2>2 DEF WaitInv
<1> QED BY <1>4, <1>5, <1>6, <1>7 DEF RenderDiscovery

\* A step on the same query that leaves the cache and the catalogue alone and
\* may ask for pages.
LEMMA AskingWaits ==
  ASSUME WaitInv, PagesInv', WaitBox(box'), served' = served, WaitList(list', served),
         SameQuery(list, list'), list'.started = list.started, list'.total = list.total, cache' = cache,
         NEW pages, pages \subseteq Int, pages # {} => list.started,
         searches' = searches \cup Asked(list', pages),
         inflight' = [p \in DOMAIN inflight \cup pages |-> IF p \in pages THEN list'.gen ELSE inflight[p]],
         Covered(DOMAIN cache, DOMAIN inflight \cup pages, list')
  PROVE  WaitInv'
<1>1. PICK l : l = list' OBVIOUS
<1>2. l.gen = list.gen /\ l.started = list.started /\ l.total = list.total BY <1>1 DEF SameQuery
<1>3. ASSUME NEW s \in Asked(l, pages) PROVE s.page \in Int /\ s.gen = l.gen /\ s.reply = "none" /\ l.started
  <2>1. PICK p \in pages : s = [page |-> p, gen |-> l.gen, query |-> l.query, reply |-> "none", at |-> 0] BY DEF Asked
  <2> QED BY <1>2, <2>1
<1>4. WaitCalls(searches', l, served)
  <2>1. ASSUME NEW s \in searches PROVE s.page \in Int /\ (s.gen = l.gen => l.started /\ (s.reply = "page" => s.at <= served.version))
    BY <1>2 DEF WaitInv, WaitCalls
  <2> QED BY <1>1, <1>3, <2>1 DEF WaitCalls
<1>5. WaitOut(inflight', searches', l)
  <2>1. ASSUME NEW p \in pages PROVE \E s \in searches' : s.page = p /\ s.gen = l.gen
    <3>1. PICK s : s = [page |-> p, gen |-> l.gen, query |-> l.query, reply |-> "none", at |-> 0] OBVIOUS
    <3>2. s \in Asked(l, pages) BY <3>1 DEF Asked
    <3> QED BY <1>1, <3>1, <3>2
  <2>2. ASSUME NEW p \in DOMAIN inflight PROVE inflight[p] = l.gen /\ \E s \in searches' : s.page = p /\ s.gen = l.gen
    BY <1>2 DEF WaitInv, WaitOut
  <2> QED BY <1>1, <2>1, <2>2 DEF WaitOut
<1>6. WaitCache(cache', l) BY <1>2 DEF WaitInv, WaitCache
<1>7. Covered(DOMAIN cache', DOMAIN inflight', l) BY <1>1
<1> QED BY <1>1, <1>4, <1>5, <1>6, <1>7 DEF WaitInv

LEMMA WindowIsNat ==
  ASSUME NEW l, l.top \in Nat, l.total \in Nat \/ l.total = Unknown
  PROVE  Window(l).first \in Nat /\ Window(l).count \in Nat
<1>1. Viewport \in Nat /\ Overscan \in Nat BY ListAssumption
<1>2. PICK all \in Nat : all = IF l.total = Unknown THEN Viewport + Overscan ELSE l.total BY <1>1
<1>3. PICK most \in Nat : most = Viewport + 1 + 2 * Overscan BY <1>1
<1>4. PICK first \in Nat : first = Max({0, l.top - Overscan})
  <2>1. PICK d \in Int : d = l.top - Overscan BY <1>1
  <2>2. Max({0, d}) \in Nat BY <2>1, MaxOfTwo
  <2> QED BY Zenon, <2>1, <2>2
<1>5. PICK count \in Nat : count = Max({0, Min({all - first, most})})
  <2>1. PICK d \in Int : d = all - first OBVIOUS
  <2>2. PICK n \in Int : n = Min({d, most}) BY <2>1, MinOfTwo
  <2>3. Max({0, n}) \in Nat BY MaxOfTwo
  <2> QED BY Zenon, <2>1, <2>2, <2>3
<1>6. PICK end \in Nat : end = Max({0, all - 1})
  <2>1. PICK d \in Int : d = all - 1 OBVIOUS
  <2>2. Max({0, d}) \in Nat BY <2>1, MaxOfTwo
  <2> QED BY Zenon, <2>1, <2>2
<1>7. end = IF all >= 1 THEN all - 1 ELSE 0
  <2>1. PICK d \in Int : d = all - 1 OBVIOUS
  <2>2. Max({0, d}) = IF 0 >= d THEN 0 ELSE d BY <2>1, MaxOfTwo
  <2>3. end = IF 0 >= d THEN 0 ELSE d BY Zenon, <1>6, <2>1, <2>2
  <2> QED BY <2>1, <2>3
<1>8. PICK few \in Int : few = Min({all - end, most}) /\ few >= 0
  <2>1. PICK d \in Nat : d = all - end BY <1>7
  <2>2. Min({d, most}) \in Nat BY <2>1, MinOfTwo
  <2>3. Min({all - end, most}) \in Nat BY Zenon, <2>1, <2>2
  <2> QED BY <2>3
<1>9. Window(l) = IF first > 0 /\ count = 0 THEN [first |-> end, count |-> few] ELSE [first |-> first, count |-> count]
  BY Zenon, <1>2, <1>3, <1>4, <1>5, <1>6, <1>8 DEF Window
<1> QED BY <1>8, <1>9

LEMMA RecoveringFields ==
  ASSUME NEW l, DOMAIN l = ListFields
  PROVE  /\ DOMAIN Recovering(l) = ListFields /\ SameQuery(l, Recovering(l))
         /\ \A f \in ListFields \ {"recovery", "attempts", "reported", "failed"} : Recovering(l)[f] = l[f]
         /\ l.failed => Recovering(l).failed
         /\ (l.reported => l.failed) => (Recovering(l).reported => Recovering(l).failed)
         /\ l.total = Unknown /\ (l.reported => l.failed) => Recovering(l).recovery \/ Recovering(l).failed
<1>1. \/ Recovering(l) = l /\ (l.recovery \/ ~(l.total = Unknown /\ ~l.reported))
      \/ Recovering(l) = [l EXCEPT !.reported = TRUE, !.failed = TRUE]
      \/ Recovering(l) = [l EXCEPT !.attempts = @ + 1, !.recovery = TRUE]
  BY Zenon DEF Recovering
<1>2. CASE Recovering(l) = l /\ (l.recovery \/ ~(l.total = Unknown /\ ~l.reported)) BY <1>2 DEF SameQuery
<1>3. CASE Recovering(l) = [l EXCEPT !.reported = TRUE, !.failed = TRUE] BY <1>3 DEF SameQuery, ListFields
<1>4. CASE Recovering(l) = [l EXCEPT !.attempts = @ + 1, !.recovery = TRUE] BY <1>4 DEF SameQuery, ListFields
<1> QED BY <1>1, <1>2, <1>3, <1>4

LEMMA StillWaits ==
  ASSUME WaitInv, PagesInv', WaitBox(box'), served' = served, WaitList(list', served),
         SameQuery(list, list'), list'.started = list.started, list'.total = list.total,
         UNCHANGED <<cache, searches, inflight>>, Covered(DOMAIN cache, DOMAIN inflight, list')
  PROVE  WaitInv'
<1>1. PICK l : l = list' OBVIOUS
<1>2. l.gen = list.gen /\ l.started = list.started /\ l.total = list.total BY <1>1 DEF SameQuery
<1>3. WaitCalls(searches, l, served) BY <1>2 DEF WaitInv, WaitCalls
<1>4. WaitOut(inflight, searches, l) BY <1>2 DEF WaitInv, WaitOut
<1>5. WaitCache(cache, l) BY <1>2 DEF WaitInv, WaitCache
<1> QED BY <1>1, <1>3, <1>4, <1>5 DEF WaitInv

LEMMA WindowIsCovered ==
  ASSUME NEW l, NEW first \in Nat, NEW count \in Nat, l.total \in Nat, NEW row \in first..(first + count - 1), row < l.total
  PROVE  PageOf(row) \in DOMAIN cache \cup (DOMAIN inflight \cup Wanted(l, first, count, TRUE))
<1>1. CASE PageOf(row) \notin DOMAIN inflight /\ PageOf(row) \notin DOMAIN cache BY <1>1, WantedCovers
<1> QED BY <1>1

LEMMA UpdateWaits == WaitInv /\ PagesInv' /\ Update => WaitInv'
<1> SUFFICES ASSUME WaitInv, PagesInv', Update PROVE WaitInv' OBVIOUS
<1>1. /\ DOMAIN list = ListFields /\ list.top \in Nat /\ list.last \in Nat /\ WaitList(list, served)
      /\ list.total \in Nat \/ list.total = Unknown
  BY DEF WaitInv, WaitList
<1> DEFINE w == Window(list)
           delta == IF list.top > list.last THEN list.top - list.last ELSE list.last - list.top
           known == list.total # Unknown
           flinging == delta > Fling
           l == [list EXCEPT !.frame = FALSE, !.last = list.top, !.first = w.first, !.live = w.count, !.pending = @ \/ (known /\ flinging)]
           armed == [l EXCEPT !.settle = @ \/ delta > 0 \/ l.pending]
           pages == Wanted(armed, w.first, w.count, TRUE)
<1>2. w.first \in Nat /\ w.count \in Nat /\ delta \in Nat /\ Fling \in Nat BY <1>1, WindowIsNat, ListAssumption
<1>3. served' = served /\ box' = box /\ cache' = cache BY DEF Update
<1> HIDE DEF w, delta, known, flinging
<1>4. /\ DOMAIN l = ListFields /\ SameQuery(list, l) /\ l.started = list.started /\ l.total = list.total /\ l.failed = list.failed
      /\ l.top = list.top /\ l.first = w.first /\ l.live = w.count /\ l.last = list.top /\ l.recovery = list.recovery /\ l.reported = list.reported
  BY <1>1 DEF SameQuery, ListFields
<1>5. /\ DOMAIN armed = ListFields /\ SameQuery(list, armed) /\ armed.started = list.started /\ armed.total = list.total /\ armed.failed = list.failed
      /\ armed.top = list.top /\ armed.first = w.first /\ armed.live = w.count /\ armed.last = list.top /\ armed.recovery = list.recovery
      /\ armed.reported = list.reported
  <2> HIDE DEF l
  <2> QED BY <1>4 DEF SameQuery, ListFields
<1>6. delta > 0 => armed.settle
  <2> HIDE DEF l
  <2> QED BY <1>4 DEF ListFields
<1>7. \/ known /\ ~flinging /\ list' = armed /\ Fetch(armed, inflight, pages)
      \/ /\ ~(known /\ ~flinging) /\ UNCHANGED <<inflight, searches>>
         /\ list' = IF ~known /\ list.started /\ DOMAIN inflight = {} THEN Recovering(armed) ELSE armed
  BY DEF Update, w, delta, known, flinging
<1> HIDE DEF armed, pages
<1>8. WaitList(armed, served) BY <1>1, <1>2, <1>5 DEF WaitList, SameQuery
<1>9. WaitBox(box') BY <1>3 DEF WaitInv
<1>10. CASE known /\ ~flinging /\ list' = armed /\ Fetch(armed, inflight, pages)
  <2>1. list.total # Unknown /\ list.total \in Nat /\ list.started BY <1>1, <1>10 DEF known, WaitList
  <2>2. pages \subseteq Int BY WantedArePages DEF pages
  <2>3. searches' = searches \cup Asked(armed, pages) BY <1>10 DEF Fetch, Asked
  <2>4. inflight' = [p \in DOMAIN inflight \cup pages |-> IF p \in pages THEN armed.gen ELSE inflight[p]] BY <1>10 DEF Fetch
  <2>5. \A row \in armed.first..(armed.first + armed.live - 1) : row < armed.total => PageOf(row) \in DOMAIN cache \cup (DOMAIN inflight \cup pages)
    BY <1>2, <1>5, <2>1, WindowIsCovered DEF pages
  <2>6. Covered(DOMAIN cache, DOMAIN inflight \cup pages, armed) BY <1>5, <2>1, <2>5 DEF Covered
  <2> QED BY <1>3, <1>5, <1>8, <1>9, <1>10, <2>1, <2>2, <2>3, <2>4, <2>6, AskingWaits
<1>11. CASE known /\ flinging /\ list' = armed /\ UNCHANGED <<inflight, searches>>
  <2>1. armed.settle BY <1>2, <1>6, <1>11 DEF flinging
  <2>2. Covered(DOMAIN cache, DOMAIN inflight, armed) BY <1>5, <1>11, <2>1 DEF Covered, known
  <2> QED BY <1>3, <1>5, <1>8, <1>9, <1>11, <2>2, StillWaits
<1>12. CASE ~known /\ ~(list.started /\ DOMAIN inflight = {}) /\ list' = armed /\ UNCHANGED <<inflight, searches>>
  <2>1. Covered(DOMAIN cache, DOMAIN inflight, armed) BY <1>5, <1>12 DEF Covered, known
  <2> QED BY <1>3, <1>5, <1>8, <1>9, <1>12, <2>1, StillWaits
<1>13. CASE ~known /\ list.started /\ DOMAIN inflight = {} /\ list' = Recovering(armed) /\ UNCHANGED <<inflight, searches>>
  <2>1. PICK m : m = Recovering(armed) OBVIOUS
  <2>2. /\ DOMAIN m = ListFields /\ SameQuery(armed, m)
        /\ \A f \in ListFields \ {"recovery", "attempts", "reported", "failed"} : m[f] = armed[f]
        /\ m.reported => m.failed
        /\ m.recovery \/ m.failed
    <3>1. armed.total = Unknown /\ (armed.reported => armed.failed) BY <1>5, <1>8, <1>13 DEF known, WaitList
    <3> QED BY <1>5, <2>1, <3>1, RecoveringFields
  <2>3. /\ m.started = list.started /\ m.total = list.total /\ m.top = armed.top /\ m.last = armed.last /\ m.first = armed.first
        /\ m.live = armed.live /\ m.query = armed.query /\ m.gen = armed.gen /\ m.since = armed.since
    BY <1>5, <2>2 DEF ListFields
  <2>4. WaitList(m, served) BY <1>5, <1>8, <1>13, <2>2, <2>3 DEF WaitList
  <2>5. SameQuery(list, m) BY <1>5, <2>2 DEF SameQuery
  <2>6. Covered(DOMAIN cache, DOMAIN inflight, m) BY <1>13, <2>2, <2>3 DEF Covered, known
  <2> QED BY <1>3, <1>9, <1>13, <2>1, <2>3, <2>4, <2>5, <2>6, StillWaits
<1> QED BY <1>7, <1>10, <1>11, <1>12, <1>13

LEMMA SettleWaits == WaitInv /\ PagesInv' /\ Settle => WaitInv'
<1> SUFFICES ASSUME WaitInv, PagesInv', Settle PROVE WaitInv' OBVIOUS
<1>1. DOMAIN list = ListFields /\ WaitList(list, served) BY DEF WaitInv, WaitList
<1>2. PICK l : l = [list EXCEPT !.settle = FALSE, !.pending = FALSE, !.last = list.top] OBVIOUS
<1>3. PICK pages : pages = IF l.total # Unknown THEN Wanted(l, l.first, l.live, TRUE) ELSE {} OBVIOUS
<1>4. /\ DOMAIN l = ListFields /\ SameQuery(list, l) /\ l.started = list.started /\ l.total = list.total /\ l.failed = list.failed
      /\ l.top = list.top /\ l.first = list.first /\ l.live = list.live /\ l.last = list.top /\ l.recovery = list.recovery
      /\ l.reported = list.reported /\ l.frame = list.frame
  BY <1>1, <1>2 DEF SameQuery, ListFields
<1>5. /\ list' = l /\ searches' = searches \cup Asked(l, pages) /\ UNCHANGED <<box, cache, used, served>>
      /\ inflight' = [p \in DOMAIN inflight \cup pages |-> IF p \in pages THEN l.gen ELSE inflight[p]]
  BY <1>2, <1>3 DEF Settle, Fetch, Asked
<1>6. WaitList(l, served) BY <1>1, <1>4 DEF WaitList, SameQuery
<1>7. pages \subseteq Int BY <1>3, WantedArePages
<1>8. pages # {} => list.started BY <1>1, <1>3, <1>4 DEF WaitList
<1>9. Covered(DOMAIN cache, DOMAIN inflight \cup pages, l)
  <2>1. CASE l.total = Unknown BY <2>1, <1>3, <1>4 DEF WaitInv, Covered
  <2>2. CASE l.total # Unknown
    <3>1. l.total \in Nat /\ l.first \in Nat /\ l.live \in Nat BY <1>6, <2>2 DEF WaitList
    <3>2. \A row \in l.first..(l.first + l.live - 1) : row < l.total => PageOf(row) \in DOMAIN cache \cup (DOMAIN inflight \cup pages)
      BY <1>3, <2>2, <3>1, WindowIsCovered
    <3> QED BY <2>2, <3>2 DEF Covered
  <2> QED BY <2>1, <2>2
<1>10. WaitBox(box') BY <1>5 DEF WaitInv
<1> QED BY <1>4, <1>5, <1>6, <1>7, <1>8, <1>9, <1>10, AskingWaits

LEMMA RecoverWaits == WaitInv /\ PagesInv' /\ Recover => WaitInv'
<1> SUFFICES ASSUME WaitInv, PagesInv', Recover PROVE WaitInv' OBVIOUS
<1>1. DOMAIN list = ListFields /\ WaitList(list, served) /\ list.started BY DEF WaitInv, WaitList, Recover
<1>2. PICK l : l = [list EXCEPT !.recovery = FALSE, !.frame = TRUE] OBVIOUS
<1>3. PICK pages : pages = IF l.total = Unknown THEN {PageOf(l.top)} ELSE Wanted(l, l.first, Max({1, l.live}), FALSE) OBVIOUS
<1>4. /\ DOMAIN l = ListFields /\ SameQuery(list, l) /\ l.started = list.started /\ l.total = list.total /\ l.failed = list.failed
      /\ l.top = list.top /\ l.first = list.first /\ l.live = list.live /\ l.last = list.last /\ ~l.recovery
      /\ l.reported = list.reported /\ l.frame
  BY <1>1, <1>2 DEF SameQuery, ListFields
<1>5. /\ list' = l /\ searches' = searches \cup Asked(l, pages) /\ UNCHANGED <<box, cache, used, served>>
      /\ inflight' = [p \in DOMAIN inflight \cup pages |-> IF p \in pages THEN l.gen ELSE inflight[p]]
  BY <1>2, <1>3 DEF Recover, Fetch, Asked
<1>6. WaitList(l, served) BY <1>1, <1>4 DEF WaitList, SameQuery
<1>7. pages \subseteq Int
  <2>1. l.top \in Nat BY <1>6 DEF WaitList
  <2>2. PageOf(l.top) \in Nat BY <2>1, RowsPage
  <2>3. CASE l.total = Unknown
    <3>1. pages = {PageOf(l.top)} BY <1>3, <2>3
    <3> QED BY <2>2, <3>1
  <2>4. CASE l.total # Unknown BY <1>3, <2>4, WantedArePages
  <2> QED BY <2>3, <2>4
<1>8. Covered(DOMAIN cache, DOMAIN inflight \cup pages, l) BY <1>4 DEF Covered
<1>9. WaitBox(box') BY <1>5 DEF WaitInv
<1> QED BY <1>1, <1>4, <1>5, <1>6, <1>7, <1>8, <1>9, AskingWaits

LEMMA ScrollWaits ==
  ASSUME WaitInv, PagesInv', NEW row \in Nat, Scroll(row) PROVE WaitInv'
<1>1. DOMAIN list = ListFields /\ WaitList(list, served) BY DEF WaitInv, WaitList
<1>2. PICK l : l = [list EXCEPT !.top = row, !.frame = TRUE, !.scrolls = @ + 1] OBVIOUS
<1>3. /\ DOMAIN l = ListFields /\ SameQuery(list, l) /\ l.started = list.started /\ l.total = list.total /\ l.failed = list.failed
      /\ l.top = row /\ l.first = list.first /\ l.live = list.live /\ l.last = list.last /\ l.recovery = list.recovery
      /\ l.reported = list.reported /\ l.frame
  BY <1>1, <1>2 DEF SameQuery, ListFields
<1>4. list' = l /\ UNCHANGED <<box, cache, used, inflight, searches, served>> BY <1>2 DEF Scroll
<1>5. WaitList(l, served) BY <1>1, <1>3 DEF WaitList, SameQuery
<1>6. Covered(DOMAIN cache, DOMAIN inflight, l) BY <1>3 DEF Covered
<1>7. WaitBox(box') BY <1>4 DEF WaitInv
<1> QED BY <1>3, <1>4, <1>5, <1>6, <1>7, StillWaits

LEMMA AnswerWaits ==
  ASSUME WaitInv, PagesInv', NEW s \in searches, Answer(s) PROVE WaitInv'
<1>1. DOMAIN list = ListFields /\ WaitList(list, served) BY DEF WaitInv, WaitList
<1>2. PICK l : l = list' OBVIOUS
<1>3. /\ DOMAIN l = ListFields /\ SameQuery(list, l) /\ l.started = list.started /\ l.total = list.total /\ l.failed = list.failed
      /\ l.top = list.top /\ l.first = list.first /\ l.live = list.live /\ l.last = list.last /\ l.recovery = list.recovery
      /\ l.reported = list.reported /\ l.frame = list.frame /\ l.settle = list.settle
  <2>1. list' = list \/ list' = [list EXCEPT !.errors = @ + 1] BY DEF Answer
  <2> QED BY <1>1, <1>2, <2>1 DEF SameQuery, ListFields
<1>4. UNCHANGED <<box, cache, used, inflight, served>> BY DEF Answer
<1>5. PICK a : a \in {[s EXCEPT !.reply = "page", !.at = served.version], [s EXCEPT !.reply = "error"]}
               /\ searches' = (searches \ {s}) \cup {a}
  BY DEF Answer
<1>6. DOMAIN s = SearchFields BY DEF WaitInv, PagesInv, CallOf
<1>7. a.page = s.page /\ a.gen = s.gen /\ (a.reply = "page" => a.at = served.version)
  <2>1. CASE a = [s EXCEPT !.reply = "page", !.at = served.version] BY <2>1, <1>6 DEF SearchFields
  <2>2. CASE a = [s EXCEPT !.reply = "error"] BY <2>2, <1>6 DEF SearchFields
  <2> QED BY <1>5, <2>1, <2>2
<1>8. WaitList(l, served) BY <1>1, <1>3 DEF WaitList, SameQuery
<1>9. l.gen = list.gen BY <1>3 DEF SameQuery
<1>10. WaitCalls(searches', l, served)
  <2>1. ASSUME NEW t \in searches PROVE t.page \in Int /\ (t.gen = l.gen => l.started /\ (t.reply = "page" => t.at <= served.version))
    BY <1>3, <1>9 DEF WaitInv, WaitCalls
  <2>2. served.version <= served.version BY DEF WaitInv, WaitServed
  <2>3. a.page \in Int /\ (a.gen = l.gen => l.started /\ (a.reply = "page" => a.at <= served.version))
    BY <1>7, <2>1, <2>2
  <2> QED BY <1>5, <2>1, <2>3 DEF WaitCalls
<1>11. WaitOut(inflight, searches', l)
  <2>1. ASSUME NEW p \in DOMAIN inflight PROVE inflight[p] = l.gen /\ \E t \in searches' : t.page = p /\ t.gen = l.gen
    <3>1. inflight[p] = list.gen /\ \E t \in searches : t.page = p /\ t.gen = list.gen BY DEF WaitInv, WaitOut
    <3>2. PICK t \in searches : t.page = p /\ t.gen = l.gen BY <3>1, <1>9
    <3>3. CASE t = s BY <3>1, <3>2, <3>3, <1>5, <1>7, <1>9
    <3>4. CASE t # s BY <3>1, <3>2, <3>4, <1>5, <1>9
    <3> QED BY <3>3, <3>4
  <2> QED BY <2>1 DEF WaitOut
<1>12. WaitCache(cache, l) BY <1>3 DEF WaitInv, WaitCache
<1>13. Covered(DOMAIN cache, DOMAIN inflight, l) BY <1>3 DEF WaitInv, Covered
<1> QED BY <1>2, <1>4, <1>8, <1>10, <1>11, <1>12, <1>13 DEF WaitInv

\* The request of an answered page is no longer out, the others still are.
LEMMA AnsweredIsOut ==
  ASSUME WaitInv, NEW s \in searches
  PROVE  WaitOut(Answered(s), searches \ {s}, list)
<1>1. ASSUME NEW p \in DOMAIN inflight PROVE inflight[p] = list.gen /\ \E t \in searches : t.page = p /\ t.gen = list.gen
  BY DEF WaitInv, WaitOut
<1>2. CASE s.page \in DOMAIN inflight /\ inflight[s.page] = s.gen
  <2>1. Answered(s) = Without(inflight, s.page) BY <1>2 DEF Answered
  <2>2. ASSUME NEW p \in DOMAIN Answered(s)
        PROVE  Answered(s)[p] = list.gen /\ \E t \in searches \ {s} : t.page = p /\ t.gen = list.gen
    <3>1. p \in DOMAIN inflight /\ p # s.page /\ Answered(s)[p] = inflight[p] BY <2>1, <2>2 DEF Without
    <3>2. PICK t \in searches : t.page = p /\ t.gen = list.gen BY <1>1, <3>1
    <3> QED BY <1>1, <3>1, <3>2
  <2> QED BY <2>2 DEF WaitOut
<1>3. CASE ~(s.page \in DOMAIN inflight /\ inflight[s.page] = s.gen)
  <2>1. Answered(s) = inflight BY <1>3 DEF Answered
  <2>2. ASSUME NEW p \in DOMAIN inflight
        PROVE  inflight[p] = list.gen /\ \E t \in searches \ {s} : t.page = p /\ t.gen = list.gen
    <3>1. PICK t \in searches : t.page = p /\ t.gen = list.gen BY <1>1
    <3>2. t # s BY <1>1, <1>3, <3>1
    <3> QED BY <1>1, <3>1, <3>2
  <2> QED BY <2>1, <2>2 DEF WaitOut
<1> QED BY <1>2, <1>3

LEMMA DeliverWaits ==
  ASSUME WaitInv, PagesInv', NEW s \in searches, Deliver(s) PROVE WaitInv'
<1>1. DOMAIN list = ListFields /\ WaitList(list, served) BY DEF WaitInv, WaitList
<1>2. UNCHANGED <<box, served>> /\ searches' = searches \ {s} /\ inflight' = Answered(s) BY DEF Deliver
<1>3. WaitBox(box') /\ WaitServed(served') BY <1>2 DEF WaitInv
<1>4. ASSUME NEW l, l.gen = list.gen, l.started = list.started
      PROVE  WaitCalls(searches', l, served) /\ WaitOut(inflight', searches', l)
  <2>1. WaitCalls(searches', l, served) BY <1>2, <1>4 DEF WaitInv, WaitCalls
  <2>2. WaitOut(inflight', searches', list) BY <1>2, AnsweredIsOut
  <2> QED BY <2>1, <2>2, <1>4 DEF WaitOut
<1>5. CASE Stale(s)
  <2>1. UNCHANGED <<list, cache, used>> BY <1>5 DEF Deliver
  <2>2. inflight' = inflight BY <1>2, <1>5 DEF Answered, Stale, WaitInv, WaitOut
  <2>3. WaitList(list, served) /\ WaitCache(cache, list) /\ Covered(DOMAIN cache, DOMAIN inflight, list) BY DEF WaitInv
  <2> QED BY <1>2, <1>3, <1>4, <2>1, <2>2, <2>3 DEF WaitInv
<1>6. CASE ~Stale(s) /\ s.reply = "error"
  <2>1. PICK l : l = [list EXCEPT !.failed = TRUE] OBVIOUS
  <2>2. /\ DOMAIN l = ListFields /\ SameQuery(list, l) /\ l.started = list.started /\ l.total = list.total /\ l.failed
        /\ l.top = list.top /\ l.first = list.first /\ l.live = list.live /\ l.last = list.last
    BY <1>1, <2>1 DEF SameQuery, ListFields
  <2>3. PICK m : m = Recovering(l) OBVIOUS
  <2>4. list' = m /\ UNCHANGED <<cache, used>> BY <1>6, <2>1, <2>3 DEF Deliver
  <2>5. /\ DOMAIN m = ListFields /\ SameQuery(l, m) /\ m.failed
        /\ \A f \in ListFields \ {"recovery", "attempts", "reported", "failed"} : m[f] = l[f]
        /\ ~m.started => ~m.recovery
    <3>1. list.started BY <1>6 DEF WaitInv, WaitCalls, Stale
    <3>2. /\ DOMAIN m = ListFields /\ SameQuery(l, m) /\ m.failed
          /\ \A f \in ListFields \ {"recovery", "attempts", "reported", "failed"} : m[f] = l[f]
      BY <2>2, <2>3, RecoveringFields
    <3>3. m.started = l.started BY <3>2 DEF ListFields
    <3> QED BY <2>2, <3>1, <3>2, <3>3
  <2>6. /\ m.started = list.started /\ m.total = list.total /\ m.top = list.top /\ m.last = list.last /\ m.first = list.first
        /\ m.live = list.live /\ m.query = list.query /\ m.gen = list.gen /\ m.since = list.since
    BY <2>2, <2>5 DEF ListFields, SameQuery
  <2>7. WaitList(m, served) BY <1>1, <2>5, <2>6 DEF WaitList
  <2>8. WaitCache(cache, m) BY <2>6 DEF WaitInv, WaitCache
  <2>9. Covered(DOMAIN cache, DOMAIN inflight', m) BY <2>5 DEF Covered
  <2> QED BY <1>2, <1>3, <1>4, <2>4, <2>6, <2>7, <2>8, <2>9 DEF WaitInv
<1>7. CASE ~Stale(s) /\ s.reply # "error" /\ Trimmed(s.query) # list.query
  <2>1. list.started /\ s.query = list.query BY <1>7 DEF WaitInv, WaitCalls, PagesInv, CallOf, Stale
  <2>2. list.total = Unknown /\ (list.reported => list.failed) BY <1>1, <1>7, <2>1 DEF WaitList
  <2>3. PICK m : m = Recovering(list) OBVIOUS
  <2>4. list' = m /\ UNCHANGED <<cache, used>> BY <1>7, <2>3 DEF Deliver
  <2>5. /\ DOMAIN m = ListFields /\ SameQuery(list, m)
        /\ \A f \in ListFields \ {"recovery", "attempts", "reported", "failed"} : m[f] = list[f]
        /\ m.reported => m.failed
        /\ m.recovery \/ m.failed
    BY <1>1, <2>2, <2>3, RecoveringFields
  <2>6. /\ m.started = list.started /\ m.total = list.total /\ m.top = list.top /\ m.last = list.last /\ m.first = list.first
        /\ m.live = list.live /\ m.query = list.query /\ m.gen = list.gen /\ m.since = list.since
    BY <2>5 DEF ListFields
  <2>7. WaitList(m, served) BY <1>1, <2>1, <2>5, <2>6 DEF WaitList
  <2>8. WaitCache(cache, m) BY <2>6 DEF WaitInv, WaitCache
  <2>9. Covered(DOMAIN cache, DOMAIN inflight', m) BY <2>2, <2>5, <2>6 DEF Covered
  <2> QED BY <1>2, <1>3, <1>4, <2>4, <2>6, <2>7, <2>8, <2>9 DEF WaitInv
<1>8. CASE ~Stale(s) /\ s.reply # "error" /\ Trimmed(s.query) = list.query
  <2>1. /\ list.started /\ s.query = list.query /\ Trimmed(list.query) = list.query /\ s.page \in Int
        /\ s.at = served.version /\ list.since = served.version
    <3>1. list.started /\ s.query = list.query /\ s.reply = "page" /\ s.at >= list.since /\ s.at <= served.version /\ s.at \in Nat /\ s.page \in Int
      BY <1>8 DEF WaitInv, WaitCalls, PagesInv, CallOf, Stale, Deliver
    <3>2. list.since = served.version /\ served.version \in Nat BY <1>1, <3>1 DEF WaitList, WaitInv, PagesInv
    <3> QED BY <1>8, <3>1, <3>2
  <2>2. PICK total \in Nat : total = Rows(Trimmed(s.query), s.at) /\ total = Rows(list.query, list.since)
    <3>1. Rows(list.query, served.version) \in Nat BY <1>1, ListAssumption DEF WaitInv, WaitServed, WaitList
    <3> QED BY <1>8, <2>1, <3>1
  <2>3. PICK len : len = Max({0, Min({PageSize, total - s.page * PageSize})}) OBVIOUS
  <2>4. len = LenOf(s.page, total) BY <2>3 DEF LenOf
  <2>5. PICK page : page = [query |-> s.query, at |-> s.at, len |-> len,
                            complete |-> len >= PageSize \/ s.page * PageSize + len >= total,
                            attempts |-> IF s.page \in DOMAIN cache THEN cache[s.page].attempts + 1 ELSE 1]
    OBVIOUS
  <2>6. page.complete = (len >= PageSize \/ s.page * PageSize + len >= total) /\ page.len = len BY Zenon, <2>5
  <2>7. page.complete BY <2>1, <2>4, <2>6, LenOfPage
  <2>8. PICK pages : pages = With(cache, s.page, page) OBVIOUS
  <2>9. PICK gone : gone = Evicted(DOMAIN pages, Append(SelectSeq(used, LAMBDA p : p # s.page), s.page), list) OBVIOUS
  <2>10. /\ list' = [list EXCEPT !.total = total, !.attempts = 0, !.reported = FALSE, !.failed = FALSE, !.frame = TRUE]
         /\ cache' = [p \in DOMAIN pages \ gone |-> pages[p]]
    BY Zenon, <1>8, <2>2, <2>3, <2>5, <2>8, <2>9 DEF Deliver
  <2>11. PICK l : l = list' OBVIOUS
  <2>12. /\ DOMAIN l = ListFields /\ l.total = total /\ l.frame /\ ~l.reported
         /\ l.started = list.started /\ l.top = list.top /\ l.last = list.last /\ l.first = list.first
         /\ l.live = list.live /\ l.query = list.query /\ l.gen = list.gen /\ l.since = list.since
    BY <1>1, <2>10, <2>11 DEF ListFields
  <2>13. WaitList(l, served) BY <1>1, <2>1, <2>2, <2>12 DEF WaitList
  <2>14. WaitCache(cache', l)
    <3>1. l.total # Unknown BY <2>12 DEF Unknown
    <3>2. ASSUME NEW p \in DOMAIN cache' PROVE p \in Int /\ cache'[p].len = LenOf(p, total) /\ cache'[p].complete
      <4>1. p \in DOMAIN cache \cup {s.page} /\ cache'[p] = pages[p] BY <2>8, <2>10, <3>2 DEF With
      <4>2. CASE p = s.page
        <5>1. cache'[p] = page BY <2>8, <4>1, <4>2 DEF With
        <5> QED BY <2>1, <2>4, <2>6, <2>7, <4>2, <5>1
      <4>3. CASE p # s.page
        <5>1. p \in DOMAIN cache /\ cache'[p] = cache[p] BY <2>8, <4>1, <4>3 DEF With
        <5>2. p \in Int /\ list.total # Unknown /\ cache[p].len = LenOf(p, list.total) /\ cache[p].complete BY <5>1 DEF WaitInv, WaitCache
        <5>3. list.total = total BY <1>1, <2>2, <5>2 DEF WaitList
        <5> QED BY <5>1, <5>2, <5>3
      <4> QED BY <4>2, <4>3
    <3> QED BY <2>12, <3>1, <3>2 DEF WaitCache
  <2>15. Covered(DOMAIN cache', DOMAIN inflight', l) BY <2>12 DEF Covered
  <2> QED BY <1>2, <1>3, <1>4, <2>11, <2>12, <2>13, <2>14, <2>15 DEF WaitInv
<1> QED BY <1>5, <1>6, <1>7, <1>8

LEMMA WaitStep ==
  ASSUME WaitInv, [ListNext]_lvars
  PROVE  WaitInv'
<1>1. PagesInv' BY PagesStep DEF WaitInv
<1>2. DOMAIN served = {"ready", "version", "shown"} /\ WaitServed(served) /\ WaitBox(box) /\ WaitList(list, served)
  BY DEF WaitInv, PagesInv
<1>3. ASSUME UNCHANGED <<list, cache, inflight, searches, served>>, WaitBox(box') PROVE WaitInv'
  BY <1>1, <1>3 DEF WaitInv
<1>4. ASSUME NEW q \in Texts, Type(q) PROVE WaitInv'
  <2>1. PICK b : b = box' OBVIOUS
  <2>2. b = [box EXCEPT !.text = q, !.timer = TRUE] BY <1>4, <2>1 DEF Type
  <2>3. DOMAIN b = DOMAIN box /\ (b.text = q \/ b.text = box.text) /\ b.emitted = box.emitted BY <2>2
  <2>4. WaitBox(b) BY <1>2, <2>3 DEF WaitBox
  <2> QED BY <1>3, <1>4, <2>1, <2>4 DEF Type
<1>5. CASE Commit
  <2>1. PICK b : b = box' OBVIOUS
  <2>2. b = [box EXCEPT !.timer = FALSE, !.emitted = box.text] BY <1>5, <2>1 DEF Commit
  <2>3. WaitBox(b) BY <1>2, <2>2 DEF WaitBox
  <2>4. served' = served BY <1>5 DEF Commit
  <2>5. CASE RenderDiscovery(box.text, FALSE) /\ served.shown
    BY <1>1, <1>2, <2>1, <2>3, <2>4, <2>5, DiscoveryWaits DEF WaitBox
  <2>6. CASE UNCHANGED <<list, cache, used, inflight, searches>> BY <1>3, <2>1, <2>3, <2>4, <2>6
  <2> QED BY <1>5, <2>5, <2>6 DEF Commit
<1>6. CASE PreparationStarts
  <2>1. PICK sv : sv = served' OBVIOUS
  <2>2. sv = [served EXCEPT !.ready = FALSE, !.shown = FALSE] /\ served.version < MaxVersion BY <1>6, <2>1 DEF PreparationStarts
  <2>3. sv.version = served.version /\ ~sv.shown /\ ~sv.ready BY <1>2, <2>2
  <2>4. WaitServed(sv) BY <1>2, <2>2, <2>3 DEF WaitServed
  <2>5. PICK r : r = Renewed(list) OBVIOUS
  <2>6. DOMAIN list = ListFields /\ list.gen \in Nat BY <1>2 DEF WaitList
  <2>7. /\ DOMAIN r = ListFields
        /\ r.gen = list.gen + 1 /\ r.since = served.version /\ r.total = Unknown
        /\ ~r.recovery /\ ~r.reported /\ ~r.failed /\ r.frame
        /\ r.top = list.top /\ r.last = list.last /\ r.first = list.first /\ r.live = list.live
        /\ r.query = list.query /\ r.started = list.started /\ r.settle = list.settle
    BY <2>5, <2>6, RenewedFields
  <2>8. PICK l : l = [r EXCEPT !.started = FALSE, !.top = 0, !.last = 0] OBVIOUS
  <2>9. list' = l /\ cache' = NoPages /\ inflight' = NoPages /\ searches' = searches /\ box' = box
    BY <1>6, <2>5, <2>8 DEF PreparationStarts, Reset, Cleared
  <2>10. LaterQuery(list, l, served.version) /\ l.total = Unknown /\ l.frame BY <2>6, <2>7, <2>8 DEF LaterQuery, ListFields
  <2>11. WaitList(l, sv) BY <1>2, <2>6, <2>7, <2>8 DEF WaitList, ListFields
  <2>12. searches' = searches \cup Asked(l, {}) BY <2>9 DEF Asked
  <2>13. inflight' = [p \in {} |-> l.gen] BY <2>9 DEF NoPages
  <2> QED BY <1>1, <1>2, <2>1, <2>4, <2>9, <2>10, <2>11, <2>12, <2>13, RenewedWaits
<1>7. CASE CatalogBuilt
  <2>1. PICK sv : sv = served' OBVIOUS
  <2>2. sv = [served EXCEPT !.ready = TRUE, !.version = @ + 1] /\ ~served.ready BY <1>7, <2>1 DEF CatalogBuilt
  <2>3. sv.version = served.version + 1 /\ sv.shown = served.shown /\ sv.ready BY <1>2, <2>2
  <2>4. ~served.shown /\ served.version < MaxVersion BY <1>2, <2>2 DEF WaitServed
  <2>10. ~sv.shown
    <3>1. sv.shown = served.shown BY <2>3
    <3> QED BY Zenon, <2>4, <3>1
  <2>11. sv.version \in 1..MaxVersion BY <1>2, <2>3, <2>4, ListAssumption DEF WaitServed
  <2>5. WaitServed(sv) BY <2>3, <2>10, <2>11 DEF WaitServed
  <2>6. ~list.started BY <1>2, <2>4 DEF WaitList
  <2>7. WaitList(list, sv) BY <1>2, <2>6 DEF WaitList
  <2>8. WaitCalls(searches, list, sv) BY <2>6 DEF WaitInv, WaitCalls
  <2>9. UNCHANGED <<box, list, cache, inflight, searches>> BY <1>7 DEF CatalogBuilt
  <2> QED BY <1>1, <2>1, <2>5, <2>7, <2>8, <2>9 DEF WaitInv
<1>8. CASE ShowReady
  <2>1. PICK sv : sv = served' OBVIOUS
  <2>2. sv = [served EXCEPT !.shown = TRUE] /\ served.ready BY <1>8, <2>1 DEF ShowReady
  <2>3. sv.version = served.version /\ sv.shown /\ sv.ready BY <1>2, <2>2
  <2>4. WaitServed(sv) BY <1>2, <2>3 DEF WaitServed
  <2>5. box' = box /\ RenderDiscovery(box.emitted, TRUE) BY <1>8 DEF ShowReady
  <2> QED BY <1>1, <1>2, <2>1, <2>3, <2>4, <2>5, DiscoveryWaits DEF WaitBox
<1>9. ASSUME NEW row \in 0..(Max({0, list.total}) - 1), Scroll(row) PROVE WaitInv'
  BY <1>1, <1>9, ScrollWaits
<1>10. CASE Update BY <1>1, <1>10, UpdateWaits
<1>11. CASE Settle BY <1>1, <1>11, SettleWaits
<1>12. CASE Recover BY <1>1, <1>12, RecoverWaits
<1>13. ASSUME NEW s \in searches, Answer(s) \/ Deliver(s) PROVE WaitInv' BY <1>1, <1>13, AnswerWaits, DeliverWaits
<1>14. CASE UNCHANGED lvars BY <1>2, <1>3, <1>14 DEF lvars
<1> QED BY <1>4, <1>5, <1>6, <1>7, <1>8, <1>9, <1>10, <1>11, <1>12, <1>13, <1>14 DEF ListNext

LEMMA ListInitWaits ==
  ASSUME ListInit
  PROVE  WaitInv
<1>1. PagesInv BY DEF ListInit, PagesInv, ListOf, ListFields, NoPages
<1>2. WaitServed(served) BY ListAssumption DEF ListInit, WaitServed
<1>3. WaitBox(box) BY ListAssumption DEF ListInit, WaitBox
<1>4. WaitList(list, served) BY ListAssumption DEF ListInit, WaitList, ListFields
<1>5. WaitCalls(searches, list, served) /\ WaitOut(inflight, searches, list) /\ WaitCache(cache, list)
  BY DEF ListInit, WaitCalls, WaitOut, WaitCache, NoPages
<1>6. Covered(DOMAIN cache, DOMAIN inflight, list) BY DEF ListInit, Covered
<1> QED BY <1>1, <1>2, <1>3, <1>4, <1>5, <1>6 DEF WaitInv

(* NoRowWaits for all texts, page and window sizes, limits and numbers of     *)
(* rows: the frames, the settle timer and the bounded recovery of             *)
(* picker-list.js leave no row of the window waiting for an answer that        *)
(* nobody will ask for again, without the operator being told.                *)
THEOREM EveryRowIsAskedFor == ListSpec => []NoRowWaits
<1>1. ListInit => WaitInv BY ListInitWaits
<1>2. WaitInv /\ [ListNext]_lvars => WaitInv' BY WaitStep
<1>3. WaitInv => NoRowWaits BY NoRowWaitsByInv
<1> QED BY <1>1, <1>2, <1>3, PTL DEF ListSpec

-----------------------------------------------------------------------------
(* The package picker. Its invariant has three independent parts: the edit    *)
(* lock, the catalogue's status, and the marks with the count and the tray.    *)
(* Each says that what the screen shows is right, or that an event, or a call  *)
(* that has not been read or whose answer is right, is on its way to put it    *)
(* right.                                                                      *)

\* The fields that every handler keeps, and the calls that there are.
ScreenHas(s) ==
  /\ "visible" \in DOMAIN s /\ "gen" \in DOMAIN s /\ "ready" \in DOMAIN s /\ "status" \in DOMAIN s
  /\ "mode" \in DOMAIN s /\ "poll" \in DOMAIN s /\ "prepare" \in DOMAIN s /\ "pending" \in DOMAIN s
  /\ "attempted" \in DOMAIN s /\ "cancelled" \in DOMAIN s /\ "failed" \in DOMAIN s /\ "life" \in DOMAIN s
  /\ "selected" \in DOMAIN s /\ "complete" \in DOMAIN s /\ "keysRev" \in DOMAIN s /\ "sumRev" \in DOMAIN s
  /\ "total" \in DOMAIN s /\ "token" \in DOMAIN s /\ "toggles" \in DOMAIN s /\ "opBusy" \in DOMAIN s
  /\ "trayRev" \in DOMAIN s /\ "entries" \in DOMAIN s /\ "calls" \in DOMAIN s
Operations == {"status", "newTarget", "selection", "lifecycle", "keys", "page", "add", "remove", "clear", "undo", "prepare", "cancel"}
ScreenShape(s) ==
  /\ ScreenHas(s)
  /\ \A c \in s.calls : c = [op |-> c.op, arg |-> c.arg, reply |-> c.reply, also |-> c.also]
  /\ \A c \in s.calls : c.op = "add" => c.arg \in Names
  /\ \A c \in s.calls : c.op \in Operations

BackHas(b) ==
  /\ "tgen" \in DOMAIN b /\ "state" \in DOMAIN b /\ "busy" \in DOMAIN b /\ "sel" \in DOMAIN b
  /\ "rev" \in DOMAIN b /\ "undo" \in DOMAIN b /\ "acts" \in DOMAIN b /\ b.busy \in BOOLEAN

(* The edit lock. *)
Word(busy) == IF busy THEN "busy" ELSE "free"
LifeInv(s, b, ev) ==
  \/ \E e \in ev : e.name = "lifecycle"
  \/ /\ \A c \in s.calls : c.op = "lifecycle" => c.reply = NoReply \/ c.reply.busy = b.busy
     /\ (\E c \in s.calls : c.op = "lifecycle") \/ s.life = Word(b.busy)

(* The target and the status of its catalogue. *)
Told(b, ev) == \E e \in ev : e.name = "target" \/ (e.name = "catalog" /\ e.gen = b.tgen)
StatusShown(s, b) ==
  \/ \E c \in s.calls : c.op = "status"
  \/ /\ s.gen = b.tgen
     /\ \/ s.status = b.state
        \/ s.gen \in s.failed
        \/ \E c \in s.calls : c.op = "prepare" /\ c.arg.gen = s.gen
        \/ \E c \in s.calls : c.op = "newTarget" /\ c.arg = b.state
StatusAnswers(s, b) ==
  \A c \in s.calls :
    /\ c.op = "status" => /\ c.reply = NoReply \/ c.reply.gen = b.tgen
                          /\ c.also = NoReply \/ (c.also.gen = b.tgen /\ c.also.state = b.state)
    /\ c.op = "newTarget" => s.gen = b.tgen /\ c.arg = b.state
Past(s, b) ==
  /\ s.gen \in Int /\ b.tgen \in Int /\ s.gen <= b.tgen
  /\ \A c \in s.calls : c.op = "status" /\ c.reply # NoReply => c.reply.gen \in Int /\ c.reply.gen <= b.tgen
StatusInv(s, b, ev) ==
  /\ Past(s, b)
  /\ Told(b, ev) \/ (StatusAnswers(s, b) /\ StatusShown(s, b))

(* The marks, the count and the tray. *)
Heard(s, b, ev) == s.sumRev = b.rev \/ \E e \in ev : e.name = "selection" /\ e.rev = b.rev
GoodSum(b, sum) ==
  /\ sum.rev \in Nat /\ sum.rev <= b.rev
  /\ sum.rev = b.rev => sum.total = Cardinality(b.sel)
UpToDate(s, b, ev, sum) == GoodSum(b, sum) /\ (sum.rev = b.rev \/ Heard(s, b, ev))
Summed == {"selection", "newTarget", "add", "remove", "clear", "undo"}
Draft(b) == b.sel \subseteq Names /\ b.undo.sel \subseteq Names /\ b.rev \in Nat
Numbers(s, b) ==
  /\ s.sumRev \in Int /\ s.trayRev \in Int /\ s.keysRev \in Int
  /\ s.sumRev <= s.trayRev /\ s.trayRev <= b.rev /\ s.keysRev <= b.rev
  /\ s.sumRev = b.rev => s.total = Cardinality(b.sel)
SumsOK(s, b, ev) == \A c \in s.calls : c.op \in Summed /\ c.reply # NoReply => UpToDate(s, b, ev, c.reply.sum)
KeysOK(s, b) ==
  \A c \in s.calls : c.op = "keys" /\ c.reply # NoReply =>
    /\ c.reply.rev \in Int /\ c.reply.rev <= b.rev
    /\ c.reply.rev = b.rev => c.reply.keys = b.sel
PagesOK(s, b, ev) ==
  \A c \in s.calls : c.op = "page" =>
    /\ c.arg = s.trayRev
    /\ c.reply # NoReply /\ c.arg = b.rev => c.reply.keys = b.sel
    /\ c.also # NoReply => UpToDate(s, b, ev, c.also.sum) /\ c.arg <= c.also.sum.rev
Notices(s, b, ev) ==
  /\ \A e \in ev : e.name = "selection" => UpToDate(s, b, ev, e)
  /\ \A e \in ev : e.name \in {"target", "catalog", "selection", "lifecycle"}
DraftParts(s, b, ev) == Draft(b) /\ Numbers(s, b) /\ SumsOK(s, b, ev) /\ KeysOK(s, b) /\ PagesOK(s, b, ev) /\ Notices(s, b, ev)

TrayRight(s, b) == s.trayRev = b.rev => s.entries = b.sel \/ \E c \in s.calls : c.op = "page"
SumComes(s, b, ev) ==
  \/ Heard(s, b, ev)
  \/ \E c \in s.calls : c.op = "selection" \/ (c.op = "keys" /\ ~c.arg)
Open(s, n) == \E c \in s.calls : c.op \in {"add", "remove"} /\ c.arg = n /\ (c.reply = NoReply \/ ~c.reply.changed)
MarksRight(s, b, ev) ==
  \/ \E c \in s.calls : c.op = "keys" /\ (c.reply = NoReply \/ c.reply.rev = b.rev)
  \/ s.complete /\ s.keysRev = b.rev /\ s.selected \subseteq Names /\ \A n \in Names : Open(s, n) \/ (n \in s.selected <=> n \in b.sel)
  \/ (\E e \in ev : e.name = "selection" /\ e.rev = b.rev) /\ (s.keysRev # b.rev \/ ~s.complete)
SelInv(s, b, ev) == DraftParts(s, b, ev) /\ TrayRight(s, b) /\ SumComes(s, b, ev) /\ MarksRight(s, b, ev)

PickerInv ==
  /\ ScreenShape(scr) /\ BackHas(back)
  /\ LifeInv(scr, back, events) /\ StatusInv(scr, back, events) /\ SelInv(scr, back, events)

-----------------------------------------------------------------------------
(* What a step leaves as it is of each part.                                 *)

SameLife(s, t) ==
  /\ t.life = s.life
  /\ \A c \in s.calls : c.op = "lifecycle" => c \in t.calls
  /\ \A c \in t.calls : c.op = "lifecycle" => c \in s.calls
SameStatus(s, t) ==
  /\ t.gen = s.gen /\ t.status = s.status /\ t.failed = s.failed
  /\ \A c \in s.calls : c.op \in {"status", "newTarget", "prepare"} => c \in t.calls
  /\ \A c \in t.calls : c.op \in {"status", "newTarget", "prepare"} => c \in s.calls
SameMarks(s, t) ==
  /\ t.selected = s.selected /\ t.complete = s.complete /\ t.keysRev = s.keysRev
  /\ t.sumRev = s.sumRev /\ t.total = s.total /\ t.trayRev = s.trayRev /\ t.entries = s.entries
  /\ \A c \in s.calls : c.op \in {"selection", "keys", "page", "add", "remove"} => c \in t.calls
  /\ \A c \in t.calls : c.op \in Summed \cup {"keys", "page"} =>
       c \in s.calls \/ (c.op \in {"selection", "newTarget"} /\ c.reply = NoReply)

LEMMA LifeStays ==
  ASSUME NEW s, NEW t, NEW b, NEW ev, SameLife(s, t), LifeInv(s, b, ev)
  PROVE  LifeInv(t, b, ev)
BY DEF SameLife, LifeInv

LEMMA StatusStays ==
  ASSUME NEW s, NEW t, NEW b, NEW ev, SameStatus(s, t)
  PROVE  /\ Past(s, b) => Past(t, b)
         /\ StatusAnswers(s, b) => StatusAnswers(t, b)
         /\ StatusShown(s, b) => StatusShown(t, b)
         /\ StatusInv(s, b, ev) => StatusInv(t, b, ev)
<1>1. Past(s, b) => Past(t, b)
  BY DEF SameStatus, Past
<1>2. StatusAnswers(s, b) => StatusAnswers(t, b)
  BY DEF SameStatus, StatusAnswers
<1>3. StatusShown(s, b) => StatusShown(t, b)
  BY DEF SameStatus, StatusShown
<1> QED  BY <1>1, <1>2, <1>3 DEF StatusInv

LEMMA MarksStay ==
  ASSUME NEW s, NEW t, NEW b, NEW ev, SameMarks(s, t)
  PROVE  /\ Heard(s, b, ev) => Heard(t, b, ev)
         /\ DraftParts(s, b, ev) => DraftParts(t, b, ev)
         /\ TrayRight(s, b) => TrayRight(t, b)
         /\ SumComes(s, b, ev) => SumComes(t, b, ev)
         /\ MarksRight(s, b, ev) => MarksRight(t, b, ev)
         /\ SelInv(s, b, ev) => SelInv(t, b, ev)
<1>1. Heard(s, b, ev) => Heard(t, b, ev)
  BY DEF SameMarks, Heard
<1>2. ASSUME DraftParts(s, b, ev)  PROVE DraftParts(t, b, ev)
  <2>1. \A sum : UpToDate(s, b, ev, sum) => UpToDate(t, b, ev, sum)
    BY <1>1 DEF UpToDate
  <2>2. SumsOK(t, b, ev)
    BY <1>2, <2>1 DEF DraftParts, SumsOK, SameMarks
  <2>3. KeysOK(t, b)
    BY <1>2 DEF DraftParts, KeysOK, SameMarks
  <2>4. PagesOK(t, b, ev)
    BY <1>2, <2>1 DEF DraftParts, PagesOK, SameMarks
  <2>5. Numbers(t, b)
    BY <1>2 DEF DraftParts, Numbers, SameMarks
  <2>6. Notices(t, b, ev)
    BY <1>2, <2>1 DEF DraftParts, Notices
  <2> QED  BY <1>2, <2>2, <2>3, <2>4, <2>5, <2>6 DEF DraftParts
<1>3. TrayRight(s, b) => TrayRight(t, b)
  BY DEF SameMarks, TrayRight
<1>4. SumComes(s, b, ev) => SumComes(t, b, ev)
  BY <1>1 DEF SameMarks, SumComes
<1>5. \A n : Open(s, n) => Open(t, n)
  BY DEF SameMarks, Open
<1>6. MarksRight(s, b, ev) => MarksRight(t, b, ev)
  BY <1>5 DEF SameMarks, MarksRight
<1> QED  BY <1>1, <1>2, <1>3, <1>4, <1>6 DEF SelInv

(* Two frames after one another. *)
LEMMA FramesCompose ==
  ASSUME NEW s, NEW t, NEW u
  PROVE  /\ SameLife(s, t) /\ SameLife(t, u) => SameLife(s, u)
         /\ SameStatus(s, t) /\ SameStatus(t, u) => SameStatus(s, u)
         /\ SameMarks(s, t) /\ SameMarks(t, u) => SameMarks(s, u)
<1>1. SameLife(s, t) /\ SameLife(t, u) => SameLife(s, u)
  BY DEF SameLife
<1>2. SameStatus(s, t) /\ SameStatus(t, u) => SameStatus(s, u)
  BY DEF SameStatus
<1>3. SameMarks(s, t) /\ SameMarks(t, u) => SameMarks(s, u)
  BY DEF SameMarks
<1> QED  BY <1>1, <1>2, <1>3

(* A new call. *)
LEMMA NewCall ==
  ASSUME NEW op, NEW arg
  PROVE  /\ Call(op, arg).op = op /\ Call(op, arg).arg = arg
         /\ Call(op, arg).reply = NoReply /\ Call(op, arg).also = NoReply
         /\ Call(op, arg) = [op |-> op, arg |-> arg, reply |-> NoReply, also |-> NoReply]
BY DEF Call

-----------------------------------------------------------------------------
(* The handlers.                                                           *)

LEMMA RefreshStatusIs ==
  ASSUME NEW s, ScreenShape(s)
  PROVE  /\ ScreenShape(RefreshStatus(s)) /\ SameLife(s, RefreshStatus(s)) /\ SameMarks(s, RefreshStatus(s))
         /\ RefreshStatus(s).gen = s.gen
         /\ \E c \in RefreshStatus(s).calls : c.op = "status"
         /\ \A c \in RefreshStatus(s).calls :
              /\ c.op = "status" => c.reply = NoReply /\ c.also = NoReply
              /\ c.op # "newTarget"
<1> DEFINE t == RefreshStatus(s)
<1> DEFINE Old == {c \in s.calls : c.op \notin {"status", "newTarget"}}
<1> DEFINE New == {Call("status", Unset)} \cup {Call("selection", "status") : c \in {d \in s.calls : d.op = "newTarget"}}
<1>1. t = [s EXCEPT !.calls = Old \cup New]
  BY DEF RefreshStatus
<1> HIDE DEF t
<1>2. t.calls = Old \cup New /\ ScreenHas(t)
  BY <1>1 DEF ScreenShape, ScreenHas
<1>3. \A c \in New : c = Call("status", Unset) \/ c = Call("selection", "status")
  OBVIOUS
<1>4. \A c \in New : /\ c.op \in {"status", "selection"} /\ c.reply = NoReply /\ c.also = NoReply
                     /\ c = [op |-> c.op, arg |-> c.arg, reply |-> c.reply, also |-> c.also]
  BY <1>3, NewCall
<1>5. Call("status", Unset) \in New /\ Call("status", Unset).op = "status"
  BY NewCall
<1> HIDE DEF New
<1>6. ScreenShape(t)
  BY <1>2, <1>4 DEF ScreenShape, Operations
<1>7. SameLife(s, t)
  <2>1. t.life = s.life
    BY <1>1 DEF ScreenShape, ScreenHas
  <2> QED  BY <2>1, <1>2, <1>4 DEF SameLife
<1>8. SameMarks(s, t)
  <2>1. /\ t.selected = s.selected /\ t.complete = s.complete /\ t.keysRev = s.keysRev
        /\ t.sumRev = s.sumRev /\ t.total = s.total /\ t.trayRev = s.trayRev /\ t.entries = s.entries
    BY <1>1 DEF ScreenShape, ScreenHas
  <2> QED  BY <2>1, <1>2, <1>4 DEF SameMarks, Summed
<1>9. t.gen = s.gen
  BY <1>1 DEF ScreenShape, ScreenHas
<1> QED  BY <1>2, <1>4, <1>5, <1>6, <1>7, <1>8, <1>9 DEF t

(* A status that is being read is right, whatever the screen showed. *)
LEMMA RefreshedStatus ==
  ASSUME NEW s, NEW b, NEW ev, ScreenShape(s), s.gen \in Int, b.tgen \in Int, s.gen <= b.tgen
  PROVE  StatusInv(RefreshStatus(s), b, ev)
BY RefreshStatusIs DEF StatusInv, StatusAnswers, StatusShown, Past

LEMMA RefreshLifecycleIs ==
  ASSUME NEW s, ScreenShape(s)
  PROVE  /\ ScreenShape(RefreshLifecycle(s)) /\ SameStatus(s, RefreshLifecycle(s)) /\ SameMarks(s, RefreshLifecycle(s))
         /\ \A b, ev : LifeInv(RefreshLifecycle(s), b, ev)
<1> DEFINE t == RefreshLifecycle(s)
<1>1. t = [s EXCEPT !.calls = {c \in s.calls : c.op # "lifecycle"} \cup {Call("lifecycle", Unset)}]
  BY DEF RefreshLifecycle
<1> HIDE DEF t
<1>2. t.calls = {c \in s.calls : c.op # "lifecycle"} \cup {Call("lifecycle", Unset)} /\ ScreenHas(t)
  BY <1>1 DEF ScreenShape, ScreenHas
<1>3. ScreenShape(t)
  BY <1>2, NewCall DEF ScreenShape, Operations
<1>4. SameStatus(s, t)
  <2>1. t.gen = s.gen /\ t.status = s.status /\ t.failed = s.failed
    BY <1>1 DEF ScreenShape, ScreenHas
  <2> QED  BY <2>1, <1>2, NewCall DEF SameStatus
<1>5. SameMarks(s, t)
  <2>1. /\ t.selected = s.selected /\ t.complete = s.complete /\ t.keysRev = s.keysRev
        /\ t.sumRev = s.sumRev /\ t.total = s.total /\ t.trayRev = s.trayRev /\ t.entries = s.entries
    BY <1>1 DEF ScreenShape, ScreenHas
  <2> QED  BY <2>1, <1>2, NewCall DEF SameMarks, Summed
<1>6. \A b, ev : LifeInv(t, b, ev)
  BY <1>2, NewCall DEF LifeInv
<1> QED  BY <1>3, <1>4, <1>5, <1>6 DEF t

LEMMA ReloadSelectionIs ==
  ASSUME NEW s, ScreenShape(s), NEW have \in BOOLEAN
  PROVE  /\ ScreenShape(ReloadSelection(s, have)) /\ SameLife(s, ReloadSelection(s, have)) /\ SameStatus(s, ReloadSelection(s, have))
         /\ \A b, ev : DraftParts(s, b, ev) /\ TrayRight(s, b) /\ (have => Heard(s, b, ev)) =>
              SelInv(ReloadSelection(s, have), b, ev) /\ (Heard(s, b, ev) => Heard(ReloadSelection(s, have), b, ev))
<1> DEFINE t == ReloadSelection(s, have)
<1> DEFINE Old == {c \in s.calls : c.op # "keys" /\ ~(c.op = "selection" /\ c.arg = "reload")}
<1>1. t = [s EXCEPT !.calls = Old \cup {Call("keys", have)}]
  BY DEF ReloadSelection
<1> HIDE DEF t
<1>2. t.calls = Old \cup {Call("keys", have)} /\ ScreenHas(t)
  BY <1>1 DEF ScreenShape, ScreenHas
<1>3. ScreenShape(t)
  BY <1>2, NewCall DEF ScreenShape, Operations
<1>4. SameStatus(s, t)
  <2>1. t.gen = s.gen /\ t.status = s.status /\ t.failed = s.failed
    BY <1>1 DEF ScreenShape, ScreenHas
  <2> QED  BY <2>1, <1>2, NewCall DEF SameStatus
<1>5. SameLife(s, t)
  <2>1. t.life = s.life
    BY <1>1 DEF ScreenShape, ScreenHas
  <2> QED  BY <2>1, <1>2, NewCall DEF SameLife
<1>6. /\ t.selected = s.selected /\ t.complete = s.complete /\ t.keysRev = s.keysRev
      /\ t.sumRev = s.sumRev /\ t.total = s.total /\ t.trayRev = s.trayRev /\ t.entries = s.entries
  BY <1>1 DEF ScreenShape, ScreenHas
<1>7. ASSUME NEW b, NEW ev, DraftParts(s, b, ev), TrayRight(s, b), have => Heard(s, b, ev)
      PROVE  SelInv(t, b, ev) /\ (Heard(s, b, ev) => Heard(t, b, ev))
  <2>1. Heard(s, b, ev) => Heard(t, b, ev)
    BY <1>6 DEF Heard
  <2>2. \A sum : UpToDate(s, b, ev, sum) => UpToDate(t, b, ev, sum)
    BY <2>1 DEF UpToDate
  <2>3. SumsOK(t, b, ev)
    BY <1>2, <1>7, <2>2, NewCall DEF DraftParts, SumsOK, Summed
  <2>4. KeysOK(t, b)
    BY <1>2, <1>7, NewCall DEF DraftParts, KeysOK
  <2>5. PagesOK(t, b, ev)
    BY <1>2, <1>6, <1>7, <2>2, NewCall DEF DraftParts, PagesOK
  <2>6. Numbers(t, b)
    BY <1>6, <1>7 DEF DraftParts, Numbers
  <2>7. DraftParts(t, b, ev)
    <3>1. Notices(t, b, ev)
      BY <1>7, <2>2 DEF DraftParts, Notices
    <3> QED  BY <1>7, <2>3, <2>4, <2>5, <2>6, <3>1 DEF DraftParts
  <2>8. TrayRight(t, b)
    BY <1>2, <1>6, <1>7 DEF TrayRight
  <2>9. SumComes(t, b, ev)
    BY <1>2, <1>7, <2>1, NewCall DEF SumComes
  <2>10. MarksRight(t, b, ev)
    BY <1>2, NewCall DEF MarksRight
  <2> QED  BY <2>1, <2>7, <2>8, <2>9, <2>10 DEF SelInv
<1> QED  BY <1>3, <1>4, <1>5, <1>7 DEF t

LEMMA RenderIs ==
  ASSUME NEW s, ScreenShape(s), NEW sum
  PROVE  /\ ScreenShape(Render(s, sum)) /\ SameLife(s, Render(s, sum)) /\ SameStatus(s, Render(s, sum))
         /\ \A c \in s.calls : c.op # "page" => c \in Render(s, sum).calls
         /\ \A c \in Render(s, sum).calls : c.op # "page" => c \in s.calls
         /\ Render(s, sum).selected = s.selected /\ Render(s, sum).complete = s.complete
         /\ Render(s, sum).keysRev = s.keysRev /\ Render(s, sum).sumRev = s.sumRev /\ Render(s, sum).total = s.total
         /\ \/ sum.rev < s.trayRev /\ Render(s, sum) = s
            \/ /\ ~(sum.rev < s.trayRev)
               /\ Render(s, sum).trayRev = sum.rev
               /\ \A c \in Render(s, sum).calls : c.op = "page" => c.arg = sum.rev /\ c.reply = NoReply /\ c.also = NoReply
               /\ \/ sum.total = 0 /\ Render(s, sum).entries = {}
                  \/ \E c \in Render(s, sum).calls : c.op = "page"
<1> DEFINE t == Render(s, sum)
<1> DEFINE Others == {c \in s.calls : c.op # "page"}
<1>1. CASE sum.rev < s.trayRev
  <2>1. t = s
    BY <1>1 DEF Render
  <2> QED  BY <1>1, <2>1 DEF SameLife, SameStatus
<1>2. CASE ~(sum.rev < s.trayRev) /\ sum.total = 0
  <2>1. t = [s EXCEPT !.trayRev = sum.rev, !.entries = {}, !.calls = Others]
    BY <1>2 DEF Render
  <2> HIDE DEF t
  <2>2. /\ t.selected = s.selected /\ t.complete = s.complete /\ t.keysRev = s.keysRev
        /\ t.sumRev = s.sumRev /\ t.total = s.total /\ t.trayRev = sum.rev /\ t.entries = {} /\ t.calls = Others
        /\ t.gen = s.gen /\ t.status = s.status /\ t.failed = s.failed /\ t.life = s.life /\ ScreenHas(t)
    BY <2>1 DEF ScreenShape, ScreenHas
  <2>3. ScreenShape(t) /\ SameLife(s, t) /\ SameStatus(s, t)
    BY <2>2 DEF ScreenShape, SameLife, SameStatus
  <2> QED  BY <1>2, <2>2, <2>3 DEF t
<1>3. CASE ~(sum.rev < s.trayRev) /\ sum.total # 0
  <2>1. t = [s EXCEPT !.trayRev = sum.rev, !.calls = Others \cup {Call("page", sum.rev)}]
    BY <1>3 DEF Render
  <2> HIDE DEF t
  <2>2. /\ t.selected = s.selected /\ t.complete = s.complete /\ t.keysRev = s.keysRev
        /\ t.sumRev = s.sumRev /\ t.total = s.total /\ t.trayRev = sum.rev /\ t.calls = Others \cup {Call("page", sum.rev)}
        /\ t.gen = s.gen /\ t.status = s.status /\ t.failed = s.failed /\ t.life = s.life /\ ScreenHas(t)
    BY <2>1 DEF ScreenShape, ScreenHas
  <2>3. ScreenShape(t) /\ SameLife(s, t) /\ SameStatus(s, t)
    BY <2>2, NewCall DEF ScreenShape, Operations, SameLife, SameStatus
  <2> QED  BY <1>3, <2>2, <2>3, NewCall DEF t
<1> QED  BY <1>1, <1>2, <1>3

(* The size of a draft, and a draft with none in it. *)
LEMMA DraftIsFinite ==
  ASSUME NEW b, Draft(b)
  PROVE  Cardinality(b.sel) \in Nat /\ Cardinality(b.undo.sel) \in Nat /\ (Cardinality(b.sel) = 0 <=> b.sel = {})
<1>1. IsFiniteSet(b.sel) /\ IsFiniteSet(b.undo.sel)
  BY PickerAssumption, FS_Subset DEF Draft
<1> QED  BY <1>1, FS_CardinalityType, FS_EmptySet

(* The tray after it has drawn itself. *)
LEMMA RenderIsRight ==
  ASSUME NEW s, ScreenShape(s), NEW b, NEW ev, Draft(b), NEW sum, GoodSum(b, sum), s.trayRev \in Int, s.trayRev <= b.rev,
         PagesOK(s, b, ev), TrayRight(s, b)
  PROVE  /\ TrayRight(Render(s, sum), b)
         /\ Heard(s, b, ev) => PagesOK(Render(s, sum), b, ev)
         /\ Render(s, sum).trayRev \in Int /\ sum.rev <= Render(s, sum).trayRev
         /\ s.trayRev <= Render(s, sum).trayRev /\ Render(s, sum).trayRev <= b.rev
<1> DEFINE t == Render(s, sum)
<1>0. Heard(s, b, ev) => Heard(t, b, ev)
  BY RenderIs DEF Heard
<1>4. \/ sum.rev < s.trayRev /\ t = s
      \/ /\ ~(sum.rev < s.trayRev)
         /\ t.trayRev = sum.rev
         /\ \A c \in t.calls : c.op = "page" => c.arg = sum.rev /\ c.reply = NoReply /\ c.also = NoReply
         /\ \/ sum.total = 0 /\ t.entries = {}
            \/ \E c \in t.calls : c.op = "page"
  BY RenderIs
<1>1. CASE sum.rev < s.trayRev /\ t = s
  BY <1>1 DEF GoodSum
<1>2. CASE ~(sum.rev < s.trayRev)
  <2> HIDE DEF t
  <2>0. t.trayRev = sum.rev
    BY <1>2, <1>4
  <2>1. \A c \in t.calls : c.op = "page" => c.arg = sum.rev /\ c.reply = NoReply /\ c.also = NoReply
    BY <1>2, <1>4
  <2>2. (sum.total = 0 /\ t.entries = {}) \/ \E c \in t.calls : c.op = "page"
    BY <1>2, <1>4
  <2>3. PagesOK(t, b, ev)
    BY <2>0, <2>1 DEF PagesOK
  <2>4. TrayRight(t, b)
    BY <2>0, <2>2, DraftIsFinite DEF TrayRight, GoodSum
  <2>5. t.trayRev \in Int /\ sum.rev <= t.trayRev /\ s.trayRev <= t.trayRev /\ t.trayRev <= b.rev
    BY <1>2, <2>0 DEF GoodSum
  <2> QED  BY <2>3, <2>4, <2>5 DEF t
<1>3. sum.rev < s.trayRev => t = s
  BY <1>4
<1> QED  BY <1>1, <1>2, <1>3

(* A summary reaches the screen. *)
LEMMA OnSelectionChangedIs ==
  ASSUME NEW s, ScreenShape(s), NEW sum
  PROVE  ScreenShape(OnSelectionChanged(s, sum)) /\ SameLife(s, OnSelectionChanged(s, sum)) /\ SameStatus(s, OnSelectionChanged(s, sum))
<1> DEFINE q == [s EXCEPT !.sumRev = sum.rev, !.total = sum.total, !.token = sum.token]
<1> DEFINE r == Render(q, sum)
<1>1. ScreenShape(q) /\ SameLife(s, q) /\ SameStatus(s, q)
  BY DEF ScreenShape, ScreenHas, SameLife, SameStatus
<1> HIDE DEF q
<1>2. ScreenShape(r) /\ SameLife(s, r) /\ SameStatus(s, r)
  BY <1>1, RenderIs, FramesCompose
<1> HIDE DEF r
<1>3. LET t == ReloadSelection(r, TRUE) IN ScreenShape(t) /\ SameLife(s, t) /\ SameStatus(s, t)
  BY <1>2, ReloadSelectionIs, FramesCompose
<1>4. OnSelectionChanged(s, sum) \in {s, r, ReloadSelection(r, TRUE)}
  BY DEF OnSelectionChanged, r, q
<1>5. SameLife(s, s) /\ SameStatus(s, s)
  BY DEF SameLife, SameStatus
<1> QED  BY <1>2, <1>3, <1>4, <1>5

LEMMA SummaryIsDrawn ==
  ASSUME NEW s, ScreenShape(s), NEW b, NEW ev, NEW ev2 \in SUBSET ev, NEW sum, DraftParts(s, b, ev), TrayRight(s, b),
         UpToDate(s, b, ev, sum), \A e \in ev \ ev2 : e.name = "selection" => e.rev = sum.rev
  PROVE  LET t == OnSelectionChanged(s, sum) IN
         /\ DraftParts(t, b, ev2) /\ TrayRight(t, b) /\ Heard(t, b, ev2)
         /\ MarksRight(s, b, ev) => MarksRight(t, b, ev2)
<1> DEFINE q == [s EXCEPT !.sumRev = sum.rev, !.total = sum.total, !.token = sum.token]
<1> DEFINE r == Render(q, sum)
<1> DEFINE t == OnSelectionChanged(s, sum)
<1>1. /\ b.rev \in Nat /\ sum.rev \in Nat /\ sum.rev <= b.rev /\ s.sumRev \in Int /\ s.trayRev \in Int /\ s.keysRev \in Int
      /\ s.sumRev <= s.trayRev /\ s.trayRev <= b.rev /\ s.keysRev <= b.rev /\ Draft(b)
  BY DEF DraftParts, Draft, Numbers, UpToDate, GoodSum
<1>2. CASE s.sumRev # Unset /\ sum.rev < s.sumRev
  <2>1. t = s
    BY <1>2 DEF OnSelectionChanged
  <2>2. Heard(s, b, ev2)
    BY <1>1, <1>2 DEF UpToDate, Heard
  <2>3. SumsOK(s, b, ev2) /\ PagesOK(s, b, ev2)
    BY <2>2 DEF DraftParts, SumsOK, PagesOK, UpToDate
  <2>4. DraftParts(s, b, ev2)
    <3>1. Notices(s, b, ev2)
      BY <2>2 DEF DraftParts, Notices, UpToDate
    <3> QED  BY <1>1, <2>3, <3>1 DEF DraftParts
  <2>5. MarksRight(s, b, ev) => MarksRight(s, b, ev2)
    BY <1>1, <1>2 DEF MarksRight
  <2> QED  BY <2>1, <2>2, <2>4, <2>5
<1>3. CASE ~(s.sumRev # Unset /\ sum.rev < s.sumRev)
  <2>1. /\ ScreenShape(q) /\ q.sumRev = sum.rev /\ q.total = sum.total /\ q.trayRev = s.trayRev /\ q.keysRev = s.keysRev
        /\ q.complete = s.complete /\ q.selected = s.selected /\ q.entries = s.entries /\ q.calls = s.calls
    BY DEF ScreenShape, ScreenHas
  <2> HIDE DEF q
  <2>2. Heard(q, b, ev2) /\ Heard(q, b, ev)
    BY <1>1, <1>3, <2>1 DEF UpToDate, Heard, Unset
  <2>3. PagesOK(q, b, ev2) /\ TrayRight(q, b)
    BY <2>1, <2>2 DEF DraftParts, PagesOK, TrayRight, UpToDate
  <2>4. GoodSum(b, sum)
    BY DEF UpToDate
  <2>5. /\ TrayRight(r, b) /\ PagesOK(r, b, ev2) /\ r.trayRev \in Int /\ sum.rev <= r.trayRev /\ r.trayRev <= b.rev
    BY <1>1, <2>1, <2>2, <2>3, <2>4, RenderIsRight
  <2>6. /\ ScreenShape(r) /\ r.sumRev = sum.rev /\ r.total = sum.total /\ r.keysRev = s.keysRev
        /\ r.complete = s.complete /\ r.selected = s.selected
        /\ \A c \in s.calls : c.op # "page" => c \in r.calls
        /\ \A c \in r.calls : c.op # "page" => c \in s.calls
    BY <2>1, RenderIs
  <2> HIDE DEF r
  <2>7. Heard(r, b, ev2)
    BY <2>1, <2>2, <2>6 DEF Heard
  <2>8. SumsOK(r, b, ev2) /\ KeysOK(r, b)
    BY <2>6, <2>7 DEF DraftParts, SumsOK, KeysOK, UpToDate, Summed
  <2>9. Numbers(r, b)
    BY <1>1, <2>4, <2>5, <2>6 DEF Numbers, GoodSum
  <2>10. DraftParts(r, b, ev2)
    <3>1. Notices(r, b, ev2)
      BY <2>7 DEF DraftParts, Notices, UpToDate
    <3> QED  BY <1>1, <2>5, <2>8, <2>9, <3>1 DEF DraftParts
  <2>11. CASE sum.rev # r.keysRev \/ ~r.complete
    <3>1. t = ReloadSelection(r, TRUE)
      BY <1>3, <2>11 DEF OnSelectionChanged, r, q
    <3> QED  BY <2>5, <2>6, <2>7, <2>10, <3>1, ReloadSelectionIs DEF SelInv
  <2>12. CASE ~(sum.rev # r.keysRev \/ ~r.complete)
    <3>1. t = r
      BY <1>3, <2>12 DEF OnSelectionChanged, r, q
    <3>2. \A n : Open(s, n) => Open(r, n)
      BY <2>6 DEF Open
    <3>3. ASSUME MarksRight(s, b, ev) PROVE MarksRight(r, b, ev2)
      <4>1. CASE \E c \in s.calls : c.op = "keys" /\ (c.reply = NoReply \/ c.reply.rev = b.rev)
        BY <4>1, <2>6 DEF MarksRight
      <4>2. CASE s.complete /\ s.keysRev = b.rev /\ s.selected \subseteq Names /\ \A n \in Names : Open(s, n) \/ (n \in s.selected <=> n \in b.sel)
        BY <4>2, <2>6, <3>2 DEF MarksRight
      <4>3. CASE (\E e \in ev : e.name = "selection" /\ e.rev = b.rev) /\ (s.keysRev # b.rev \/ ~s.complete)
        BY <4>3, <2>6, <2>12 DEF MarksRight
      <4> QED  BY <3>3, <4>1, <4>2, <4>3 DEF MarksRight
    <3> QED  BY <2>5, <2>7, <2>10, <3>1, <3>3
  <2> QED  BY <2>11, <2>12
<1> QED  BY <1>2, <1>3

LEMMA SummaryIsTaken ==
  ASSUME NEW s, ScreenShape(s), NEW b, NEW ev, NEW ev2 \in SUBSET ev, NEW sum, DraftParts(s, b, ev), TrayRight(s, b), MarksRight(s, b, ev),
         UpToDate(s, b, ev, sum), \A e \in ev \ ev2 : e.name = "selection" => e.rev = sum.rev
  PROVE  SelInv(OnSelectionChanged(s, sum), b, ev2)
BY SummaryIsDrawn DEF SelInv, SumComes

-----------------------------------------------------------------------------
(* The status of the catalogue.                                              *)

Prepares(s) == \E c \in s.calls : c.op = "prepare" /\ c.arg.gen = s.gen
(* What a status that is applied leaves as it is: nothing else is called than *)
(* a preparation, and what is shown is the answer, a failed start or that.    *)
Applied(s, t, answered) ==
  /\ ScreenShape(t) /\ SameLife(s, t) /\ SameMarks(s, t) /\ t.gen = s.gen /\ s.calls \subseteq t.calls
  /\ \A c \in t.calls : c.op = "prepare" \/ c \in s.calls
  /\ t.failed = s.failed \/ Prepares(t)
  /\ t.status = answered \/ t.gen \in t.failed \/ Prepares(t)

LEMMA StatusFieldsOnly ==
  ASSUME NEW s, ScreenShape(s), NEW t, ScreenHas(t), t.calls = s.calls, t.life = s.life, t.gen = s.gen,
         t.selected = s.selected, t.complete = s.complete, t.keysRev = s.keysRev, t.sumRev = s.sumRev,
         t.total = s.total, t.trayRev = s.trayRev, t.entries = s.entries
  PROVE  ScreenShape(t) /\ SameLife(s, t) /\ SameMarks(s, t)
BY DEF ScreenShape, SameLife, SameMarks

LEMMA ShowLoadingIs ==
  ASSUME NEW s, ScreenShape(s), NEW state
  PROVE  /\ ScreenShape(ShowLoading(s, state)) /\ SameLife(s, ShowLoading(s, state)) /\ SameMarks(s, ShowLoading(s, state))
         /\ ShowLoading(s, state).gen = s.gen /\ ShowLoading(s, state).status = state
         /\ ShowLoading(s, state).failed = s.failed /\ ShowLoading(s, state).calls = s.calls
<1> DEFINE t == ShowLoading(s, state)
<1>1. t = [s EXCEPT !.status = state, !.mode = "loading", !.attempted = @ \cup {s.gen}, !.poll = s.visible]
  BY DEF ShowLoading
<1> HIDE DEF t
<1>2. /\ ScreenHas(t) /\ t.calls = s.calls /\ t.life = s.life /\ t.gen = s.gen /\ t.status = state /\ t.failed = s.failed
      /\ t.selected = s.selected /\ t.complete = s.complete /\ t.keysRev = s.keysRev /\ t.sumRev = s.sumRev
      /\ t.total = s.total /\ t.trayRev = s.trayRev /\ t.entries = s.entries
  BY <1>1 DEF ScreenShape, ScreenHas
<1> QED  BY <1>2, StatusFieldsOnly DEF t

LEMMA AppliedTwice ==
  ASSUME NEW s, NEW t, NEW u, NEW a, NEW d, Applied(s, t, a), Applied(t, u, d), a = d
  PROVE  Applied(s, u, a)
<1>1. SameLife(s, u) /\ SameMarks(s, u)
  BY FramesCompose DEF Applied
<1>2. s.calls \subseteq u.calls /\ \A c \in u.calls : c.op = "prepare" \/ c \in s.calls
  BY DEF Applied
<1>3. Prepares(t) => Prepares(u)
  BY DEF Applied, Prepares
<1> QED  BY <1>1, <1>2, <1>3 DEF Applied

LEMMA StartPreparationIs ==
  ASSUME NEW s, ScreenShape(s), NEW force, NEW explicit
  PROVE  Applied(s, StartPreparation(s, force, explicit), s.status)
<1> DEFINE p == Call("prepare", [gen |-> s.gen, force |-> force])
<1> DEFINE q == [s EXCEPT !.cancelled = @ \ {s.gen}, !.failed = @ \ {s.gen}, !.ready = Unset,
                             !.pending = @ \cup {s.gen}, !.calls = @ \cup {p}]
<1> DEFINE m == [s EXCEPT !.mode = "unavailable"]
<1> DEFINE t == ShowLoading(q, "building")
<1>1. Applied(s, s, s.status)
  BY DEF Applied, SameLife, SameMarks
<1>2. Applied(s, m, s.status)
  BY DEF Applied, SameLife, SameMarks, ScreenShape, ScreenHas
<1>3. Applied(s, t, s.status)
  <2>1. p = [op |-> "prepare", arg |-> [gen |-> s.gen, force |-> force], reply |-> NoReply, also |-> NoReply] /\ p.arg.gen = s.gen /\ p.op = "prepare"
    BY NewCall
  <2> HIDE DEF p
  <2>2. /\ ScreenHas(q) /\ q.calls = s.calls \cup {p} /\ q.life = s.life /\ q.gen = s.gen
        /\ q.selected = s.selected /\ q.complete = s.complete /\ q.keysRev = s.keysRev /\ q.sumRev = s.sumRev
        /\ q.total = s.total /\ q.trayRev = s.trayRev /\ q.entries = s.entries
    BY DEF ScreenShape, ScreenHas
  <2> HIDE DEF q
  <2>3. ScreenShape(q) /\ SameLife(s, q) /\ SameMarks(s, q)
    BY <2>1, <2>2 DEF ScreenShape, Operations, SameLife, SameMarks, Summed
  <2>4. ScreenShape(t) /\ SameLife(s, t) /\ SameMarks(s, t) /\ t.gen = s.gen /\ t.calls = s.calls \cup {p}
    BY <2>2, <2>3, ShowLoadingIs, FramesCompose
  <2> HIDE DEF t
  <2>5. Prepares(t)
    BY <2>1, <2>4 DEF Prepares
  <2> QED  BY <2>1, <2>4, <2>5 DEF Applied
<1>4. StartPreparation(s, force, explicit) \in {s, m, t}
  BY DEF StartPreparation
<1> QED  BY <1>1, <1>2, <1>3, <1>4

LEMMA ApplyStatusIs ==
  ASSUME NEW s, ScreenShape(s), NEW answered
  PROVE  Applied(s, ApplyStatus(s, answered), answered)
<1> DEFINE state == IF answered \notin {"ready", "building"} /\ s.gen \in s.failed THEN "failed" ELSE answered
<1> DEFINE t == [s EXCEPT !.status = state]
<1>1. /\ ScreenHas(t) /\ t.calls = s.calls /\ t.life = s.life /\ t.gen = s.gen /\ t.status = state /\ t.failed = s.failed
      /\ t.selected = s.selected /\ t.complete = s.complete /\ t.keysRev = s.keysRev /\ t.sumRev = s.sumRev
      /\ t.total = s.total /\ t.trayRev = s.trayRev /\ t.entries = s.entries
  BY DEF ScreenShape, ScreenHas
<1>2. ScreenShape(t) /\ SameLife(s, t) /\ SameMarks(s, t)
  BY <1>1, StatusFieldsOnly
<1>3. state = answered \/ s.gen \in s.failed
  OBVIOUS
<1>4. ApplyStatus(s, answered) \in
        {[t EXCEPT !.mode = "choose"], t, [t EXCEPT !.ready = t.gen, !.mode = "discovery"], ShowLoading(t, state),
         [t EXCEPT !.attempted = @ \cup {t.gen}, !.mode = state], StartPreparation(t, FALSE, FALSE), [t EXCEPT !.mode = "notLoaded"]}
  BY DEF ApplyStatus
<1> HIDE DEF t, state
<1>5. Applied(s, t, answered)
  BY <1>1, <1>2, <1>3 DEF Applied
<1>6. ASSUME NEW u, ScreenHas(u), u.calls = t.calls, u.life = t.life, u.gen = t.gen, u.status = t.status, u.failed = t.failed,
             u.selected = t.selected, u.complete = t.complete, u.keysRev = t.keysRev, u.sumRev = t.sumRev,
             u.total = t.total, u.trayRev = t.trayRev, u.entries = t.entries
      PROVE  Applied(s, u, answered)
  <2>1. ScreenShape(u) /\ SameLife(s, u) /\ SameMarks(s, u)
    BY <1>2, <1>6, StatusFieldsOnly, FramesCompose
  <2> QED  BY <1>1, <1>3, <1>6, <2>1 DEF Applied
<1>7. Applied(s, [t EXCEPT !.mode = "choose"], answered)
  BY <1>1, <1>6 DEF ScreenHas
<1>8. Applied(s, [t EXCEPT !.ready = t.gen, !.mode = "discovery"], answered)
  BY <1>1, <1>6 DEF ScreenHas
<1>9. Applied(s, [t EXCEPT !.attempted = @ \cup {t.gen}, !.mode = state], answered)
  BY <1>1, <1>6 DEF ScreenHas
<1>10. Applied(s, [t EXCEPT !.mode = "notLoaded"], answered)
  BY <1>1, <1>6 DEF ScreenHas
<1>11. Applied(s, ShowLoading(t, state), answered)
  <2> DEFINE u == ShowLoading(t, state)
  <2>1. ScreenShape(u) /\ SameLife(t, u) /\ SameMarks(t, u) /\ u.gen = t.gen /\ u.status = state /\ u.failed = t.failed /\ u.calls = t.calls
    BY <1>2, ShowLoadingIs
  <2> HIDE DEF u
  <2>2. SameLife(s, u) /\ SameMarks(s, u)
    BY <1>2, <2>1, FramesCompose
  <2> QED  BY <1>1, <1>3, <2>1, <2>2 DEF Applied, u
<1>12. Applied(s, StartPreparation(t, FALSE, FALSE), answered)
  <2> DEFINE u == StartPreparation(t, FALSE, FALSE)
  <2>1. Applied(t, u, t.status)
    BY <1>2, StartPreparationIs
  <2> HIDE DEF u
  <2>2. SameLife(s, u) /\ SameMarks(s, u)
    BY <1>2, <2>1, FramesCompose DEF Applied
  <2>3. u.status = answered \/ u.gen \in u.failed \/ Prepares(u)
    BY <1>1, <1>3, <2>1 DEF Applied
  <2> QED  BY <1>1, <2>1, <2>2, <2>3 DEF Applied, u
<1> QED  BY <1>4, <1>5, <1>7, <1>8, <1>9, <1>10, <1>11, <1>12

(* A status of the target the screen is at. *)
LEMMA StatusIsTaken ==
  ASSUME NEW s, NEW t, NEW answered, Applied(s, t, answered), NEW b, NEW ev, Past(s, b),
         \/ Told(b, ev)
         \/ /\ StatusAnswers(s, b)
            /\ \/ \E c \in s.calls : c.op = "status"
               \/ StatusShown(s, b) /\ answered = s.status
               \/ s.gen = b.tgen /\ (answered = b.state \/ s.gen \in s.failed)
  PROVE  StatusInv(t, b, ev)
<1>1. Past(t, b)
  BY DEF Applied, Past
<1>2. StatusAnswers(s, b) => StatusAnswers(t, b)
  BY DEF Applied, StatusAnswers
<1>3. s.gen = b.tgen /\ (answered = b.state \/ s.gen \in s.failed) => StatusShown(t, b)
  BY DEF Applied, StatusShown, Prepares
<1>4. StatusShown(s, b) /\ answered = s.status => StatusShown(t, b)
  BY DEF Applied, StatusShown, Prepares
<1>5. (\E c \in s.calls : c.op = "status") => StatusShown(t, b)
  BY DEF Applied, StatusShown
<1> QED  BY <1>1, <1>2, <1>3, <1>4, <1>5 DEF StatusInv

-----------------------------------------------------------------------------
(* The steps.                                                              *)

(* The invariants only look at the backend's target, status, lock and draft. *)
LEMMA SameBack ==
  ASSUME NEW s, NEW b, NEW b2, NEW ev,
         b2.tgen = b.tgen, b2.state = b.state, b2.busy = b.busy, b2.sel = b.sel, b2.rev = b.rev, b2.undo = b.undo
  PROVE  /\ LifeInv(s, b, ev) => LifeInv(s, b2, ev)
         /\ StatusInv(s, b, ev) => StatusInv(s, b2, ev)
         /\ SelInv(s, b, ev) => SelInv(s, b2, ev)
<1>1. LifeInv(s, b, ev) => LifeInv(s, b2, ev)
  BY DEF LifeInv
<1>2. StatusInv(s, b, ev) => StatusInv(s, b2, ev)
  BY DEF StatusInv, Past, Told, StatusAnswers, StatusShown
<1>3. DraftParts(s, b, ev) => DraftParts(s, b2, ev)
  BY DEF DraftParts, Draft, Numbers, SumsOK, KeysOK, PagesOK, Notices, UpToDate, GoodSum, Heard
<1>4. TrayRight(s, b) => TrayRight(s, b2)
  BY DEF TrayRight
<1>5. SumComes(s, b, ev) => SumComes(s, b2, ev)
  BY DEF SumComes, Heard
<1>6. MarksRight(s, b, ev) => MarksRight(s, b2, ev)
  BY DEF MarksRight
<1> QED  BY <1>1, <1>2, <1>3, <1>4, <1>5, <1>6 DEF SelInv

InvOf(s, b, ev) == ScreenShape(s) /\ BackHas(b) /\ LifeInv(s, b, ev) /\ StatusInv(s, b, ev) /\ SelInv(s, b, ev)

(* What the operator does counts as an act. *)
LEMMA ActIsNothingElse ==
  ASSUME BackHas(back), back' = [back EXCEPT !.acts = @ + 1], NEW s, NEW ev,
         ScreenShape(s), LifeInv(s, back, ev), StatusInv(s, back, ev), SelInv(s, back, ev)
  PROVE  InvOf(s, back', ev)
<1>1. /\ back'.tgen = back.tgen /\ back'.state = back.state /\ back'.busy = back.busy /\ back'.sel = back.sel
      /\ back'.rev = back.rev /\ back'.undo = back.undo /\ BackHas(back')
  BY DEF BackHas
<1> QED  BY <1>1, SameBack DEF InvOf

LEMMA ActKeepsInv ==
  ASSUME BackHas(back), NEW s, Did(s), ScreenShape(s), LifeInv(s, back, events), StatusInv(s, back, events), SelInv(s, back, events)
  PROVE  PickerInv'
BY ActIsNothingElse DEF Did, PickerInv, InvOf

(* The screen is shown: everything is read again. *)
LEMMA AfterShowIs ==
  ASSUME NEW s, ScreenShape(s), NEW gen, NEW b, NEW ev, s.gen \in Int, b.tgen \in Int, s.gen <= b.tgen, DraftParts(s, b, ev), TrayRight(s, b)
  PROVE  LET t == AfterShow(s, gen) IN ScreenShape(t) /\ LifeInv(t, b, ev) /\ StatusInv(t, b, ev) /\ SelInv(t, b, ev)
<1> DEFINE q == [s EXCEPT !.visible = TRUE, !.prepare = gen]
<1> DEFINE r == RefreshStatus(q)
<1> DEFINE u == RefreshLifecycle(r)
<1> DEFINE t == ReloadSelection(u, FALSE)
<1>1. /\ ScreenHas(q) /\ q.calls = s.calls /\ q.life = s.life /\ q.gen = s.gen
      /\ q.selected = s.selected /\ q.complete = s.complete /\ q.keysRev = s.keysRev /\ q.sumRev = s.sumRev
      /\ q.total = s.total /\ q.trayRev = s.trayRev /\ q.entries = s.entries
  BY DEF ScreenShape, ScreenHas
<1>2. ScreenShape(q) /\ SameMarks(s, q) /\ q.gen = s.gen
  BY <1>1, StatusFieldsOnly
<1> HIDE DEF q
<1>3. ScreenShape(r) /\ SameMarks(s, r) /\ StatusInv(r, b, ev)
  BY <1>2, RefreshStatusIs, RefreshedStatus, FramesCompose
<1> HIDE DEF r
<1>4. ScreenShape(u) /\ SameMarks(s, u) /\ StatusInv(u, b, ev) /\ LifeInv(u, b, ev)
  BY <1>3, RefreshLifecycleIs, StatusStays, FramesCompose
<1> HIDE DEF u
<1>5. DraftParts(u, b, ev) /\ TrayRight(u, b)
  BY <1>4, MarksStay
<1>6. ScreenShape(t) /\ SameLife(u, t) /\ SameStatus(u, t) /\ SelInv(t, b, ev)
  BY <1>4, <1>5, ReloadSelectionIs
<1> HIDE DEF t
<1>7. LifeInv(t, b, ev) /\ StatusInv(t, b, ev)
  BY <1>4, <1>6, LifeStays, StatusStays
<1>8. AfterShow(s, gen) = t
  BY DEF AfterShow, q, r, u, t
<1> QED  BY <1>6, <1>7, <1>8

LEMMA ShowKeepsInv == ASSUME PickerInv, Show PROVE PickerInv'
<1>1. PICK gen : Did(AfterShow(scr, gen))
  BY DEF Show
<1>2. ScreenShape(scr) /\ BackHas(back) /\ scr.gen \in Int /\ back.tgen \in Int /\ scr.gen <= back.tgen /\ DraftParts(scr, back, events) /\ TrayRight(scr, back)
  BY DEF PickerInv, StatusInv, Past, SelInv
<1> QED  BY <1>1, <1>2, AfterShowIs, ActKeepsInv

LEMMA HideKeepsInv == ASSUME PickerInv, Hide PROVE PickerInv'
<1> DEFINE t == [scr EXCEPT !.visible = FALSE, !.poll = FALSE]
<1>1. Did(t)
  BY DEF Hide
<1>2. ScreenShape(scr) /\ BackHas(back) /\ LifeInv(scr, back, events) /\ StatusInv(scr, back, events) /\ SelInv(scr, back, events)
  BY DEF PickerInv
<1>3. /\ ScreenHas(t) /\ t.calls = scr.calls /\ t.life = scr.life /\ t.gen = scr.gen /\ t.status = scr.status /\ t.failed = scr.failed
      /\ t.selected = scr.selected /\ t.complete = scr.complete /\ t.keysRev = scr.keysRev /\ t.sumRev = scr.sumRev
      /\ t.total = scr.total /\ t.trayRev = scr.trayRev /\ t.entries = scr.entries
  BY <1>2 DEF ScreenShape, ScreenHas
<1> HIDE DEF t
<1>4. ScreenShape(t) /\ SameLife(scr, t) /\ SameMarks(scr, t)
  BY <1>2, <1>3, StatusFieldsOnly
<1>5. SameStatus(scr, t)
  BY <1>3 DEF SameStatus
<1> QED  BY <1>1, <1>2, <1>4, <1>5, LifeStays, StatusStays, MarksStay, ActKeepsInv

(* A status that the operator's act applies. *)
LEMMA AppliedActKeepsInv ==
  ASSUME PickerInv, NEW t, Applied(scr, t, scr.status), Did(t)
  PROVE  PickerInv'
<1>1. BackHas(back) /\ LifeInv(scr, back, events) /\ StatusInv(scr, back, events) /\ SelInv(scr, back, events)
  BY DEF PickerInv
<1>2. StatusInv(t, back, events)
  BY <1>1, StatusIsTaken DEF StatusInv
<1> QED  BY <1>1, <1>2, LifeStays, MarksStay, ActKeepsInv DEF Applied

LEMMA PrepareKeepsInv == ASSUME PickerInv, Prepare PROVE PickerInv'
<1>1. PICK force \in BOOLEAN : Did(StartPreparation(scr, force, TRUE))
  BY DEF Prepare
<1>2. ScreenShape(scr)
  BY DEF PickerInv
<1> QED  BY <1>1, <1>2, StartPreparationIs, AppliedActKeepsInv

LEMMA CancelPreparationKeepsInv == ASSUME PickerInv, CancelPreparation PROVE PickerInv'
<1> DEFINE q == [scr EXCEPT !.attempted = @ \cup {scr.gen}, !.cancelled = @ \cup {scr.gen}]
<1> DEFINE r == ApplyStatus(q, scr.status)
<1> DEFINE t == [r EXCEPT !.calls = @ \cup {Call("cancel", scr.gen)}]
<1>1. Did(t)
  BY DEF CancelPreparation
<1>2. ScreenShape(scr)
  BY DEF PickerInv
<1>3. /\ ScreenHas(q) /\ q.calls = scr.calls /\ q.life = scr.life /\ q.gen = scr.gen /\ q.status = scr.status /\ q.failed = scr.failed
      /\ q.selected = scr.selected /\ q.complete = scr.complete /\ q.keysRev = scr.keysRev /\ q.sumRev = scr.sumRev
      /\ q.total = scr.total /\ q.trayRev = scr.trayRev /\ q.entries = scr.entries
  BY <1>2 DEF ScreenShape, ScreenHas
<1> HIDE DEF q
<1>4. Applied(scr, q, scr.status)
  BY <1>2, <1>3, StatusFieldsOnly DEF Applied
<1>5. Applied(q, r, scr.status)
  BY <1>4, ApplyStatusIs DEF Applied
<1>6. Applied(scr, r, scr.status)
  BY <1>4, <1>5, AppliedTwice
<1> HIDE DEF r
<1>7. PICK k : k = Call("cancel", scr.gen)
  OBVIOUS
<1>8. k = [op |-> "cancel", arg |-> scr.gen, reply |-> NoReply, also |-> NoReply]
  BY <1>7, NewCall
<1>9. BackHas(back) /\ LifeInv(scr, back, events) /\ StatusInv(scr, back, events) /\ SelInv(scr, back, events)
  BY DEF PickerInv
<1>10. ScreenShape(r) /\ LifeInv(r, back, events) /\ StatusInv(r, back, events) /\ SelInv(r, back, events)
  BY <1>6, <1>9, StatusIsTaken, LifeStays, MarksStay DEF Applied, StatusInv
<1>11. /\ t.calls = r.calls \cup {k} /\ ScreenHas(t) /\ t.life = r.life /\ t.gen = r.gen /\ t.status = r.status /\ t.failed = r.failed
       /\ t.selected = r.selected /\ t.complete = r.complete /\ t.keysRev = r.keysRev /\ t.sumRev = r.sumRev
       /\ t.total = r.total /\ t.trayRev = r.trayRev /\ t.entries = r.entries
  BY <1>7, <1>10 DEF ScreenShape, ScreenHas
<1> HIDE DEF t
<1>12. ScreenShape(t) /\ SameLife(r, t) /\ SameStatus(r, t) /\ SameMarks(r, t)
  BY <1>8, <1>10, <1>11 DEF ScreenShape, Operations, SameLife, SameStatus, SameMarks, Summed
<1> QED  BY <1>1, <1>9, <1>10, <1>12, LifeStays, StatusStays, MarksStay, ActKeepsInv

LEMMA ToggleKeepsInv == ASSUME PickerInv, NEW n \in Names, Toggle(n) PROVE PickerInv'
<1>1. PICK was \in BOOLEAN :
        Did([scr EXCEPT !.toggles = @ \cup {n}, !.selected = IF was THEN @ \ {n} ELSE @ \cup {n},
                       !.calls = @ \cup {Call(IF was THEN "remove" ELSE "add", n)}])
  <2>1. PICK was \in (IF scr.complete THEN {n \in scr.selected} ELSE BOOLEAN) :
          Did([scr EXCEPT !.toggles = @ \cup {n}, !.selected = IF was THEN @ \ {n} ELSE @ \cup {n},
                       !.calls = @ \cup {Call(IF was THEN "remove" ELSE "add", n)}])
    BY DEF Toggle
  <2>2. was \in BOOLEAN
    OBVIOUS
  <2> QED  BY <2>1, <2>2
<1> DEFINE marks == IF was THEN scr.selected \ {n} ELSE scr.selected \cup {n}
<1>2. PICK k : k = Call(IF was THEN "remove" ELSE "add", n)
  OBVIOUS
<1>3. k = [op |-> k.op, arg |-> n, reply |-> NoReply, also |-> NoReply] /\ k.op \in {"add", "remove"} /\ k.arg = n /\ k.reply = NoReply
  BY <1>2, NewCall
<1>4. PICK t : t = [scr EXCEPT !.toggles = @ \cup {n}, !.selected = marks, !.calls = @ \cup {k}]
  OBVIOUS
<1>5. Did(t)
  BY <1>1, <1>2, <1>4
<1>6. ScreenShape(scr) /\ BackHas(back) /\ LifeInv(scr, back, events) /\ StatusInv(scr, back, events) /\ SelInv(scr, back, events)
  BY DEF PickerInv
<1>7. /\ t.calls = scr.calls \cup {k} /\ ScreenHas(t) /\ t.life = scr.life /\ t.gen = scr.gen /\ t.status = scr.status /\ t.failed = scr.failed
      /\ t.selected = marks /\ t.complete = scr.complete /\ t.keysRev = scr.keysRev /\ t.sumRev = scr.sumRev
      /\ t.total = scr.total /\ t.trayRev = scr.trayRev /\ t.entries = scr.entries
  BY <1>4, <1>6 DEF ScreenShape, ScreenHas
<1>8. ScreenShape(t) /\ SameLife(scr, t) /\ SameStatus(scr, t)
  BY <1>3, <1>6, <1>7 DEF ScreenShape, Operations, SameLife, SameStatus
<1>9. SelInv(t, back, events)
  <2>1. Heard(scr, back, events) => Heard(t, back, events)
    BY <1>7 DEF Heard
  <2>2. \A sum : UpToDate(scr, back, events, sum) => UpToDate(t, back, events, sum)
    BY <2>1 DEF UpToDate
  <2>3. SumsOK(t, back, events)
    BY <1>3, <1>6, <1>7, <2>2 DEF SelInv, DraftParts, SumsOK
  <2>4. KeysOK(t, back) /\ PagesOK(t, back, events)
    BY <1>3, <1>6, <1>7, <2>2 DEF SelInv, DraftParts, KeysOK, PagesOK
  <2>5. Numbers(t, back)
    BY <1>6, <1>7 DEF SelInv, DraftParts, Numbers
  <2>6. TrayRight(t, back)
    BY <1>6, <1>7 DEF SelInv, TrayRight
  <2>7. SumComes(t, back, events)
    BY <1>6, <1>7, <2>1 DEF SelInv, SumComes
  <2>8. Open(t, n)
    BY <1>3, <1>7 DEF Open
  <2>9. \A m : Open(scr, m) => Open(t, m)
    BY <1>7 DEF Open
  <2>10. \A m : m # n => (m \in marks <=> m \in scr.selected)
    OBVIOUS
  <2>11. MarksRight(t, back, events)
    <3>1. CASE \E c \in scr.calls : c.op = "keys" /\ (c.reply = NoReply \/ c.reply.rev = back.rev)
      BY <3>1, <1>7 DEF MarksRight
    <3>2. CASE /\ scr.complete /\ scr.keysRev = back.rev /\ scr.selected \subseteq Names
               /\ \A m \in Names : Open(scr, m) \/ (m \in scr.selected <=> m \in back.sel)
      <4>1. marks \subseteq Names
        BY <3>2
      <4>2. ASSUME NEW m \in Names PROVE Open(t, m) \/ (m \in t.selected <=> m \in back.sel)
        BY <3>2, <1>7, <2>8, <2>9, <2>10
      <4> QED  BY <3>2, <1>7, <4>1, <4>2 DEF MarksRight
    <3>3. CASE (\E e \in events : e.name = "selection" /\ e.rev = back.rev) /\ (scr.keysRev # back.rev \/ ~scr.complete)
      BY <3>3, <1>7 DEF MarksRight
    <3> QED  BY <1>6, <3>1, <3>2, <3>3 DEF SelInv, MarksRight
  <2>12. Notices(t, back, events)
    BY <1>6, <2>2 DEF SelInv, DraftParts, Notices
  <2> QED  BY <1>6, <2>3, <2>4, <2>5, <2>6, <2>7, <2>11, <2>12 DEF SelInv, DraftParts
<1> QED  BY <1>5, <1>6, <1>8, <1>9, LifeStays, StatusStays, ActKeepsInv

(* A call of the tray's. *)
LEMMA TrayMutateKeepsInv == ASSUME PickerInv, NEW op \in {"clear", "undo"}, NEW arg, TrayMutate(op, arg) PROVE PickerInv'
<1>1. PICK k : k = Call(op, arg)
  OBVIOUS
<1>2. k = [op |-> op, arg |-> arg, reply |-> NoReply, also |-> NoReply] /\ k.op = op /\ k.reply = NoReply
  BY <1>1, NewCall
<1>3. PICK t : t = [scr EXCEPT !.opBusy = TRUE, !.calls = @ \cup {k}]
  OBVIOUS
<1>4. Did(t)
  BY <1>1, <1>3 DEF TrayMutate
<1>5. ScreenShape(scr) /\ BackHas(back) /\ LifeInv(scr, back, events) /\ StatusInv(scr, back, events) /\ SelInv(scr, back, events)
  BY DEF PickerInv
<1>6. /\ t.calls = scr.calls \cup {k} /\ ScreenHas(t) /\ t.life = scr.life /\ t.gen = scr.gen /\ t.status = scr.status /\ t.failed = scr.failed
      /\ t.selected = scr.selected /\ t.complete = scr.complete /\ t.keysRev = scr.keysRev /\ t.sumRev = scr.sumRev
      /\ t.total = scr.total /\ t.trayRev = scr.trayRev /\ t.entries = scr.entries
  BY <1>3, <1>5 DEF ScreenShape, ScreenHas
<1>7. ScreenShape(t) /\ SameLife(scr, t) /\ SameStatus(scr, t)
  BY <1>2, <1>5, <1>6 DEF ScreenShape, Operations, SameLife, SameStatus
<1>8. SelInv(t, back, events)
  <2>1. Heard(scr, back, events) => Heard(t, back, events)
    BY <1>6 DEF Heard
  <2>2. \A sum : UpToDate(scr, back, events, sum) => UpToDate(t, back, events, sum)
    BY <2>1 DEF UpToDate
  <2>3. SumsOK(t, back, events)
    BY <1>2, <1>5, <1>6, <2>2 DEF SelInv, DraftParts, SumsOK
  <2>4. KeysOK(t, back) /\ PagesOK(t, back, events)
    BY <1>2, <1>5, <1>6, <2>2 DEF SelInv, DraftParts, KeysOK, PagesOK
  <2>5. Numbers(t, back)
    BY <1>5, <1>6 DEF SelInv, DraftParts, Numbers
  <2>6. TrayRight(t, back)
    BY <1>5, <1>6 DEF SelInv, TrayRight
  <2>7. SumComes(t, back, events)
    BY <1>5, <1>6, <2>1 DEF SelInv, SumComes
  <2>8. \A m : Open(scr, m) => Open(t, m)
    BY <1>6 DEF Open
  <2>9. MarksRight(t, back, events)
    BY <1>5, <1>6, <2>8 DEF SelInv, MarksRight
  <2>10. Notices(t, back, events)
    BY <1>5, <2>2 DEF SelInv, DraftParts, Notices
  <2> QED  BY <1>5, <2>3, <2>4, <2>5, <2>6, <2>7, <2>9, <2>10 DEF SelInv, DraftParts
<1> QED  BY <1>4, <1>5, <1>7, <1>8, LifeStays, StatusStays, ActKeepsInv

LEMMA PollStatusKeepsInv == ASSUME PickerInv, PollStatus PROVE PickerInv'
<1> DEFINE q == [scr EXCEPT !.poll = FALSE]
<1> DEFINE t == RefreshStatus(q)
<1>1. scr' = t /\ UNCHANGED <<back, events>>
  BY DEF PollStatus
<1>2. ScreenShape(scr) /\ BackHas(back) /\ LifeInv(scr, back, events) /\ StatusInv(scr, back, events) /\ SelInv(scr, back, events)
  BY DEF PickerInv
<1>3. /\ ScreenHas(q) /\ q.calls = scr.calls /\ q.life = scr.life /\ q.gen = scr.gen
      /\ q.selected = scr.selected /\ q.complete = scr.complete /\ q.keysRev = scr.keysRev /\ q.sumRev = scr.sumRev
      /\ q.total = scr.total /\ q.trayRev = scr.trayRev /\ q.entries = scr.entries
  BY <1>2 DEF ScreenShape, ScreenHas
<1> HIDE DEF q
<1>4. ScreenShape(q) /\ SameLife(scr, q) /\ SameMarks(scr, q)
  BY <1>2, <1>3, StatusFieldsOnly
<1>5. ScreenShape(t) /\ SameLife(scr, t) /\ SameMarks(scr, t) /\ StatusInv(t, back, events)
  BY <1>2, <1>3, <1>4, RefreshStatusIs, RefreshedStatus, FramesCompose DEF StatusInv, Past
<1> QED  BY <1>1, <1>2, <1>5, LifeStays, MarksStay DEF PickerInv

-----------------------------------------------------------------------------
(* The backend moves, the screen does not.                                 *)

LEMMA StaysToldOf ==
  ASSUME NEW s, NEW b, NEW b2, NEW ev, NEW ev2, ev \subseteq ev2
  PROVE  /\ LifeInv(s, b, ev) /\ b2.busy = b.busy => LifeInv(s, b2, ev2)
         /\ StatusInv(s, b, ev) /\ b2.tgen = b.tgen /\ b2.state = b.state => StatusInv(s, b2, ev2)
         /\ StatusInv(s, b, ev) /\ b2.tgen \in Int /\ b.tgen <= b2.tgen /\ Told(b2, ev2) => StatusInv(s, b2, ev2)
<1>1. LifeInv(s, b, ev) /\ b2.busy = b.busy => LifeInv(s, b2, ev2)
  BY DEF LifeInv
<1>2. StatusInv(s, b, ev) /\ b2.tgen = b.tgen /\ b2.state = b.state => StatusInv(s, b2, ev2)
  BY DEF StatusInv, Past, Told, StatusAnswers, StatusShown
<1>3. StatusInv(s, b, ev) /\ b2.tgen \in Int /\ b.tgen <= b2.tgen /\ Told(b2, ev2) => StatusInv(s, b2, ev2)
  BY DEF StatusInv, Past
<1> QED  BY <1>1, <1>2, <1>3

(* The draft stays, and what is told of it is right. *)
Tells(b, e) ==
  /\ e.name \in {"target", "catalog", "selection", "lifecycle"}
  /\ e.name = "selection" => GoodSum(b, e) /\ e.rev = b.rev

LEMMA DraftStays ==
  ASSUME NEW s, NEW b, NEW b2, NEW ev, NEW ev2, ev \subseteq ev2, SelInv(s, b, ev), b2.sel = b.sel, b2.rev = b.rev, b2.undo.sel \subseteq Names,
         \A e \in ev2 \ ev : Tells(b2, e)
  PROVE  SelInv(s, b2, ev2)
<1>1. Heard(s, b, ev) => Heard(s, b2, ev2)
  BY DEF Heard
<1>2. \A sum : UpToDate(s, b, ev, sum) => UpToDate(s, b2, ev2, sum)
  BY <1>1 DEF UpToDate, GoodSum
<1>3. SumsOK(s, b2, ev2)
  BY <1>2 DEF SelInv, DraftParts, SumsOK
<1>4. PagesOK(s, b2, ev2) /\ KeysOK(s, b2)
  BY <1>2 DEF SelInv, DraftParts, PagesOK, KeysOK
<1>5. Notices(s, b2, ev2)
  BY <1>2 DEF SelInv, DraftParts, Notices, Tells, UpToDate
<1>6. Draft(b2) /\ Numbers(s, b2)
  BY DEF SelInv, DraftParts, Draft, Numbers
<1>7. TrayRight(s, b2) /\ SumComes(s, b2, ev2)
  BY <1>1 DEF SelInv, TrayRight, SumComes
<1>8. MarksRight(s, b2, ev2)
  BY DEF SelInv, MarksRight
<1> QED  BY <1>3, <1>4, <1>5, <1>6, <1>7, <1>8 DEF SelInv, DraftParts

(* The draft moves on, and that is told. *)
LEMMA DraftMoves ==
  ASSUME NEW s, NEW b, NEW b2, NEW ev, NEW ev2, ev \subseteq ev2, SelInv(s, b, ev), Draft(b2), b.rev < b2.rev,
         NEW e0 \in ev2, e0.name = "selection", e0.rev = b2.rev,
         \A e \in ev2 \ ev : Tells(b2, e)
  PROVE  SelInv(s, b2, ev2)
<1>0. Draft(b) /\ b.rev \in Nat /\ b2.rev \in Nat
  BY DEF SelInv, DraftParts, Draft
<1>1. Heard(s, b2, ev2)
  BY DEF Heard
<1>2. \A sum : GoodSum(b, sum) => GoodSum(b2, sum)
  BY <1>0 DEF GoodSum
<1>3. \A sum : UpToDate(s, b, ev, sum) => UpToDate(s, b2, ev2, sum)
  BY <1>1, <1>2 DEF UpToDate
<1>4. SumsOK(s, b2, ev2)
  BY <1>3 DEF SelInv, DraftParts, SumsOK
<1>5. KeysOK(s, b2)
  BY <1>0 DEF SelInv, DraftParts, KeysOK
<1>6. Numbers(s, b2)
  BY <1>0 DEF SelInv, DraftParts, Numbers
<1>7. PagesOK(s, b2, ev2)
  BY <1>0, <1>3 DEF SelInv, DraftParts, PagesOK, Numbers
<1>8. Notices(s, b2, ev2)
  BY <1>3 DEF SelInv, DraftParts, Notices, Tells, UpToDate
<1>9. TrayRight(s, b2)
  BY <1>0 DEF SelInv, DraftParts, Numbers, TrayRight
<1>10. MarksRight(s, b2, ev2)
  <2>1. s.keysRev # b2.rev
    BY <1>0 DEF SelInv, DraftParts, Numbers
  <2> QED  BY <2>1 DEF MarksRight
<1> QED  BY <1>1, <1>4, <1>5, <1>6, <1>7, <1>8, <1>9, <1>10 DEF SelInv, DraftParts, SumComes

LEMMA EventIsGood ==
  ASSUME NEW b, b.rev \in Nat
  PROVE  /\ GoodSum(b, SelectionEvent(b)) /\ SelectionEvent(b).name = "selection" /\ SelectionEvent(b).rev = b.rev
         /\ Tells(b, SelectionEvent(b))
BY DEF GoodSum, SelectionEvent, Tells

LEMMA ChangeTargetKeepsInv == ASSUME PickerInv, ChangeTarget PROVE PickerInv'
<1>1. PICK state : back' = [back EXCEPT !.tgen = @ + 1, !.state = state, !.undo = NothingToUndo, !.acts = @ + 1]
  BY DEF ChangeTarget
<1>2. events' = events \cup {[name |-> "target"], SelectionEvent(back')} /\ scr' = scr
  BY DEF ChangeTarget, Emit
<1>3. ScreenShape(scr) /\ BackHas(back) /\ LifeInv(scr, back, events) /\ StatusInv(scr, back, events) /\ SelInv(scr, back, events)
  BY DEF PickerInv
<1>4. back'.tgen = back.tgen + 1 /\ back'.sel = back.sel /\ back'.rev = back.rev /\ back'.busy = back.busy /\ back'.undo.sel = {} /\ BackHas(back')
  BY <1>1, <1>3 DEF BackHas, NothingToUndo
<1>5. back.tgen \in Int /\ back'.rev \in Nat
  BY <1>3, <1>4 DEF StatusInv, Past, SelInv, DraftParts, Draft
<1>6. events \subseteq events' /\ Told(back', events')
  <2>1. PICK e : e = [name |-> "target"]
    OBVIOUS
  <2>2. e \in events' /\ e.name = "target"
    BY <1>2, <2>1
  <2> QED  BY <1>2, <2>2 DEF Told
<1>7. \A e \in events' \ events : Tells(back', e)
  BY <1>2, <1>5, EventIsGood DEF Tells
<1>8. LifeInv(scr, back', events') /\ StatusInv(scr, back', events')
  BY <1>3, <1>4, <1>5, <1>6, StaysToldOf
<1>9. SelInv(scr, back', events')
  BY <1>3, <1>4, <1>6, <1>7, DraftStays
<1> QED  BY <1>2, <1>3, <1>4, <1>8, <1>9 DEF PickerInv

LEMMA CatalogProgressKeepsInv == ASSUME PickerInv, CatalogProgress PROVE PickerInv'
<1>1. back' = [back EXCEPT !.acts = @ + 1] /\ events' = events \cup {[name |-> "catalog", gen |-> back.tgen, at |-> "progress"]} /\ scr' = scr
  BY DEF CatalogProgress, Emit
<1>2. ScreenShape(scr) /\ BackHas(back) /\ LifeInv(scr, back, events) /\ StatusInv(scr, back, events) /\ SelInv(scr, back, events)
  BY DEF PickerInv
<1>3. /\ back'.tgen = back.tgen /\ back'.state = back.state /\ back'.busy = back.busy /\ back'.sel = back.sel
      /\ back'.rev = back.rev /\ back'.undo = back.undo /\ BackHas(back')
  BY <1>1, <1>2 DEF BackHas
<1>4. events \subseteq events' /\ \A e \in events' \ events : Tells(back', e)
  BY <1>1 DEF Tells
<1>5. back.undo.sel \subseteq Names
  BY <1>2 DEF SelInv, DraftParts, Draft
<1>6. SelInv(scr, back', events')
  BY <1>2, <1>3, <1>4, <1>5, DraftStays
<1>7. LifeInv(scr, back', events') /\ StatusInv(scr, back', events')
  BY <1>2, <1>3, <1>4, StaysToldOf
<1> QED  BY <1>1, <1>2, <1>3, <1>6, <1>7 DEF PickerInv

LEMMA CatalogEndsKeepsInv == ASSUME PickerInv, CatalogEnds PROVE PickerInv'
<1>1. PICK state : back' = [back EXCEPT !.state = state]
  BY DEF CatalogEnds
<1>2. events' = events \cup {[name |-> "catalog", gen |-> back.tgen, at |-> "finished"], SelectionEvent(back)} /\ scr' = scr
  BY DEF CatalogEnds, Emit
<1>3. ScreenShape(scr) /\ BackHas(back) /\ LifeInv(scr, back, events) /\ StatusInv(scr, back, events) /\ SelInv(scr, back, events)
  BY DEF PickerInv
<1>4. back'.tgen = back.tgen /\ back'.sel = back.sel /\ back'.rev = back.rev /\ back'.busy = back.busy /\ back'.undo = back.undo /\ BackHas(back')
  BY <1>1, <1>3 DEF BackHas
<1>5. back.tgen \in Int /\ back.rev \in Nat /\ back.undo.sel \subseteq Names
  BY <1>3 DEF StatusInv, Past, SelInv, DraftParts, Draft
<1>6. events \subseteq events' /\ Told(back', events')
  <2>1. PICK e : e = [name |-> "catalog", gen |-> back.tgen, at |-> "finished"]
    OBVIOUS
  <2>2. e \in events' /\ e.name = "catalog" /\ e.gen = back'.tgen
    BY <1>2, <1>4, <2>1
  <2> QED  BY <1>2, <2>2 DEF Told
<1>7. \A e \in events' \ events : Tells(back', e)
  <2>1. Tells(back', SelectionEvent(back))
    BY <1>4, <1>5, EventIsGood DEF GoodSum, Tells
  <2> QED  BY <1>2, <2>1 DEF Tells
<1>8. LifeInv(scr, back', events') /\ StatusInv(scr, back', events')
  BY <1>3, <1>4, <1>5, <1>6, StaysToldOf
<1>9. SelInv(scr, back', events')
  BY <1>3, <1>4, <1>5, <1>6, <1>7, DraftStays
<1> QED  BY <1>2, <1>3, <1>4, <1>8, <1>9 DEF PickerInv

LEMMA JobStartsOrEndsKeepsInv == ASSUME PickerInv, JobStartsOrEnds PROVE PickerInv'
<1>1. back' = [back EXCEPT !.busy = ~@, !.acts = @ + 1] /\ events' = events \cup {[name |-> "lifecycle"]} /\ scr' = scr
  BY DEF JobStartsOrEnds, Emit
<1>2. ScreenShape(scr) /\ BackHas(back) /\ LifeInv(scr, back, events) /\ StatusInv(scr, back, events) /\ SelInv(scr, back, events)
  BY DEF PickerInv
<1>3. /\ back'.tgen = back.tgen /\ back'.state = back.state /\ back'.sel = back.sel
      /\ back'.rev = back.rev /\ back'.undo = back.undo /\ BackHas(back')
  BY <1>1, <1>2 DEF BackHas
<1>4. events \subseteq events' /\ \A e \in events' \ events : Tells(back', e)
  BY <1>1 DEF Tells
<1>5. back.undo.sel \subseteq Names
  BY <1>2 DEF SelInv, DraftParts, Draft
<1>6. SelInv(scr, back', events')
  BY <1>2, <1>3, <1>4, <1>5, DraftStays
<1>7. LifeInv(scr, back', events')
  <2>1. PICK e : e = [name |-> "lifecycle"]
    OBVIOUS
  <2>2. e \in events' /\ e.name = "lifecycle"
    BY <1>1, <2>1
  <2> QED  BY <2>2 DEF LifeInv
<1>8. StatusInv(scr, back', events')
  BY <1>2, <1>3, <1>4, StaysToldOf
<1> QED  BY <1>1, <1>2, <1>3, <1>6, <1>7, <1>8 DEF PickerInv

-----------------------------------------------------------------------------
(* The calls of the screen reach the backend.                                *)

(* The backend answers a call: what it says is so when it says it. *)
AnsweredIs(s, t, c, d) ==
  /\ c \in s.calls /\ t = [s EXCEPT !.calls = (@ \ {c}) \cup {d}]
  /\ d = [op |-> c.op, arg |-> c.arg, reply |-> d.reply, also |-> d.also]
Moved(s, b, ev) == (\E e \in ev : e.name = "selection" /\ e.rev = b.rev) /\ s.keysRev # b.rev
TrueOf(s, b, ev, c, d) ==
  /\ d.op = "lifecycle" => d.reply = c.reply \/ d.reply.busy = b.busy
  /\ d.op = "status" => /\ d.reply = c.reply \/ d.reply.gen = b.tgen
                        /\ d.also = c.also \/ (d.also.gen = b.tgen /\ d.also.state = b.state)
  /\ d.op \in Summed /\ d.reply # NoReply => UpToDate(s, b, ev, d.reply.sum)
  /\ d.op = "keys" => d.reply = NoReply \/ (d.reply.rev = b.rev /\ d.reply.keys = b.sel)
  /\ d.op = "page" => /\ d.reply # NoReply /\ d.arg = b.rev => d.reply.keys = b.sel
                      /\ d.also # NoReply => UpToDate(s, b, ev, d.also.sum) /\ d.arg <= d.also.sum.rev
  /\ d.op \in {"add", "remove"} => d.reply = NoReply \/ ~d.reply.changed \/ Moved(s, b, ev)

LEMMA AnswerKeepsInv ==
  ASSUME NEW s, NEW t, NEW b, NEW ev, NEW c, NEW d, InvOf(s, b, ev), AnsweredIs(s, t, c, d), TrueOf(s, b, ev, c, d)
  PROVE  InvOf(t, b, ev)
<1>1. /\ t.calls = (s.calls \ {c}) \cup {d} /\ ScreenHas(t) /\ t.life = s.life /\ t.gen = s.gen /\ t.status = s.status /\ t.failed = s.failed
      /\ t.selected = s.selected /\ t.complete = s.complete /\ t.keysRev = s.keysRev /\ t.sumRev = s.sumRev
      /\ t.total = s.total /\ t.trayRev = s.trayRev /\ t.entries = s.entries
  BY DEF AnsweredIs, InvOf, ScreenShape, ScreenHas
<1>2. c \in s.calls /\ d.op = c.op /\ d.arg = c.arg /\ d = [op |-> d.op, arg |-> d.arg, reply |-> d.reply, also |-> d.also]
  BY DEF AnsweredIs
<1>3. ScreenShape(t)
  <2>1. d.op = "add" => d.arg \in Names
    BY <1>2 DEF InvOf, ScreenShape
  <2> QED  BY <1>1, <1>2, <2>1 DEF InvOf, ScreenShape
<1>4. LifeInv(t, b, ev)
  <2>1. CASE \E e \in ev : e.name = "lifecycle"
    BY <2>1 DEF LifeInv
  <2>2. CASE ~\E e \in ev : e.name = "lifecycle"
    <3>1. d.op = "lifecycle" => d.reply = NoReply \/ d.reply.busy = b.busy
      BY <2>2, <1>2 DEF InvOf, LifeInv, TrueOf
    <3>2. (\E k \in s.calls : k.op = "lifecycle") => \E k \in t.calls : k.op = "lifecycle"
      BY <1>1, <1>2
    <3> QED  BY <2>2, <3>1, <3>2, <1>1 DEF InvOf, LifeInv
  <2> QED  BY <2>1, <2>2
<1>5. StatusInv(t, b, ev)
  <2>1. Past(t, b)
    BY <1>1, <1>2 DEF InvOf, StatusInv, Past, TrueOf
  <2>2. ASSUME StatusAnswers(s, b) PROVE StatusAnswers(t, b)
    <3>1. d.op = "status" => /\ d.reply = NoReply \/ d.reply.gen = b.tgen
                             /\ d.also = NoReply \/ (d.also.gen = b.tgen /\ d.also.state = b.state)
      BY <2>2, <1>2 DEF StatusAnswers, TrueOf
    <3>2. d.op = "newTarget" => t.gen = b.tgen /\ d.arg = b.state
      BY <2>2, <1>1, <1>2 DEF StatusAnswers
    <3> QED  BY <2>2, <3>1, <3>2, <1>1 DEF StatusAnswers
  <2>3. StatusShown(s, b) => StatusShown(t, b)
    <3>1. (\E k \in s.calls : k.op = "status") => \E k \in t.calls : k.op = "status"
      BY <1>1, <1>2
    <3>2. (\E k \in s.calls : k.op = "prepare" /\ k.arg.gen = s.gen) => \E k \in t.calls : k.op = "prepare" /\ k.arg.gen = t.gen
      BY <1>1, <1>2
    <3>3. (\E k \in s.calls : k.op = "newTarget" /\ k.arg = b.state) => \E k \in t.calls : k.op = "newTarget" /\ k.arg = b.state
      BY <1>1, <1>2
    <3> QED  BY <3>1, <3>2, <3>3, <1>1 DEF StatusShown
  <2> QED  BY <2>1, <2>2, <2>3 DEF InvOf, StatusInv
<1>6. SelInv(t, b, ev)
  <2>1. Heard(s, b, ev) => Heard(t, b, ev)
    BY <1>1 DEF Heard
  <2>2. \A sum : UpToDate(s, b, ev, sum) => UpToDate(t, b, ev, sum)
    BY <2>1 DEF UpToDate
  <2>3. SumsOK(t, b, ev)
    BY <1>1, <2>2 DEF InvOf, SelInv, DraftParts, SumsOK, TrueOf
  <2>4. KeysOK(t, b)
    <3>1. b.rev \in Nat
      BY DEF InvOf, SelInv, DraftParts, Draft
    <3> QED  BY <1>1, <3>1 DEF InvOf, SelInv, DraftParts, KeysOK, TrueOf
  <2>5. PagesOK(t, b, ev)
    BY <1>1, <1>2, <2>2 DEF InvOf, SelInv, DraftParts, PagesOK, TrueOf
  <2>6. Numbers(t, b)
    BY <1>1 DEF InvOf, SelInv, DraftParts, Numbers
  <2>7. TrayRight(t, b)
    BY <1>1, <1>2 DEF InvOf, SelInv, TrayRight
  <2>8. SumComes(t, b, ev)
    BY <1>1, <1>2, <2>1 DEF InvOf, SelInv, SumComes
  <2>9. MarksRight(t, b, ev)
    <3>1. CASE \E k \in s.calls : k.op = "keys" /\ (k.reply = NoReply \/ k.reply.rev = b.rev)
      BY <3>1, <1>1, <1>2 DEF MarksRight, TrueOf
    <3>2. CASE Moved(s, b, ev)
      BY <3>2, <1>1 DEF Moved, MarksRight
    <3>3. CASE /\ s.complete /\ s.keysRev = b.rev /\ s.selected \subseteq Names
               /\ \A m \in Names : Open(s, m) \/ (m \in s.selected <=> m \in b.sel)
      <4>1. \A m : Open(s, m) => Open(t, m)
        BY <3>3, <1>1, <1>2 DEF Open, TrueOf, Moved
      <4> QED  BY <3>3, <4>1, <1>1 DEF MarksRight
    <3>4. CASE (\E e \in ev : e.name = "selection" /\ e.rev = b.rev) /\ (s.keysRev # b.rev \/ ~s.complete)
      BY <3>4, <1>1 DEF MarksRight
    <3> QED  BY <3>1, <3>3, <3>4 DEF InvOf, SelInv, MarksRight
  <2>10. Notices(t, b, ev)
    BY <2>2 DEF InvOf, SelInv, DraftParts, Notices
  <2> QED  BY <2>3, <2>4, <2>5, <2>6, <2>7, <2>8, <2>9, <2>10 DEF InvOf, SelInv, DraftParts
<1> QED  BY <1>3, <1>4, <1>5, <1>6 DEF InvOf

LEMMA PickerInvIs == (PickerInv <=> InvOf(scr, back, events)) /\ (PickerInv' <=> InvOf(scr', back', events'))
BY DEF PickerInv, InvOf

(* A reply, and the call that has it. *)
LEMMA ReplyIs ==
  ASSUME NEW s, ScreenShape(s), NEW c \in s.calls, NEW r
  PROVE  /\ [c EXCEPT !.reply = r] = [op |-> c.op, arg |-> c.arg, reply |-> r, also |-> c.also]
         /\ [c EXCEPT !.also = r] = [op |-> c.op, arg |-> c.arg, reply |-> c.reply, also |-> r]
<1>1. c = [op |-> c.op, arg |-> c.arg, reply |-> c.reply, also |-> c.also]
  BY DEF ScreenShape
<1>2. PICK op, arg, reply, also : c = [op |-> op, arg |-> arg, reply |-> reply, also |-> also]
  BY <1>1
<1> QED  BY <1>2

LEMMA SummaryIsCurrent ==
  ASSUME NEW s, NEW b, NEW ev, b.rev \in Nat, NEW sum, sum.rev = b.rev, sum.total = Cardinality(b.sel)
  PROVE  UpToDate(s, b, ev, sum)
BY DEF UpToDate, GoodSum

LEMMA LookKeepsInv == ASSUME PickerInv, NEW c \in scr.calls, Look(c) PROVE PickerInv'
<1>1. PICK d : d = [c EXCEPT !.reply = Reads(c.op)]
  OBVIOUS
<1>2. /\ c.op \in {"status", "lifecycle", "keys", "selection", "newTarget", "page"}
      /\ scr' = [scr EXCEPT !.calls = (@ \ {c}) \cup {d}] /\ back' = back /\ events' = events
  BY <1>1 DEF Look, Reply
<1>3. InvOf(scr, back, events) /\ ScreenShape(scr) /\ back.rev \in Nat
  BY PickerInvIs DEF InvOf, SelInv, DraftParts, Draft
<1>4. d = [op |-> c.op, arg |-> c.arg, reply |-> Reads(c.op), also |-> c.also]
  BY <1>1, <1>3, ReplyIs
<1>5. AnsweredIs(scr, scr', c, d)
  BY <1>2, <1>4 DEF AnsweredIs
<1>6. d.op = c.op /\ d.arg = c.arg /\ d.reply = Reads(c.op) /\ d.also = c.also
  BY <1>4
<1>7. /\ c.op = "status" => Reads(c.op).gen = back.tgen
      /\ c.op = "lifecycle" => Reads(c.op).busy = back.busy
      /\ c.op = "keys" => Reads(c.op).rev = back.rev /\ Reads(c.op).keys = back.sel
      /\ c.op \in {"selection", "newTarget"} => Reads(c.op).sum.rev = back.rev /\ Reads(c.op).sum.total = Cardinality(back.sel)
      /\ c.op = "page" => Reads(c.op).keys = back.sel
  BY DEF Reads, Summary
<1>8. c.op \in {"selection", "newTarget"} => UpToDate(scr, back, events, d.reply.sum)
  BY <1>3, <1>6, <1>7, SummaryIsCurrent
<1>9. c.op = "page" /\ c.also # NoReply => UpToDate(scr, back, events, c.also.sum) /\ c.arg <= c.also.sum.rev
  BY <1>3 DEF InvOf, SelInv, DraftParts, PagesOK
<1>10. TrueOf(scr, back, events, c, d)
  BY <1>2, <1>6, <1>7, <1>8, <1>9 DEF TrueOf, Summed
<1> QED  BY <1>2, <1>3, <1>5, <1>10, AnswerKeepsInv, PickerInvIs

LEMMA LookAlsoKeepsInv == ASSUME PickerInv, NEW c \in scr.calls, LookAlso(c) PROVE PickerInv'
<1>1. InvOf(scr, back, events) /\ ScreenShape(scr) /\ back.rev \in Nat
  BY PickerInvIs DEF InvOf, SelInv, DraftParts, Draft
<1>2. CASE c.op = "status" /\ scr' = [scr EXCEPT !.calls = (@ \ {c}) \cup {[c EXCEPT !.also = [read |-> TRUE, gen |-> back.tgen, state |-> back.state]]}]
  <2>1. PICK r : r = [read |-> TRUE, gen |-> back.tgen, state |-> back.state]
    OBVIOUS
  <2>2. PICK d : d = [c EXCEPT !.also = r]
    OBVIOUS
  <2>3. d = [op |-> c.op, arg |-> c.arg, reply |-> c.reply, also |-> r]
    BY <2>2, <1>1, ReplyIs
  <2>4. AnsweredIs(scr, scr', c, d)
    BY <1>2, <2>1, <2>2, <2>3 DEF AnsweredIs
  <2>5. TrueOf(scr, back, events, c, d)
    BY <1>2, <2>1, <2>3 DEF TrueOf, Summed
  <2> QED  BY <1>1, <2>4, <2>5, AnswerKeepsInv, PickerInvIs DEF LookAlso
<1>3. CASE c.op = "page" /\ scr' = [scr EXCEPT !.calls = (@ \ {c}) \cup {[c EXCEPT !.also = [read |-> TRUE, sum |-> Summary]]}]
  <2>1. PICK r : r = [read |-> TRUE, sum |-> Summary]
    OBVIOUS
  <2>2. PICK d : d = [c EXCEPT !.also = r]
    OBVIOUS
  <2>3. d = [op |-> c.op, arg |-> c.arg, reply |-> c.reply, also |-> r]
    BY <2>2, <1>1, ReplyIs
  <2>4. AnsweredIs(scr, scr', c, d)
    BY <1>3, <2>1, <2>2, <2>3 DEF AnsweredIs
  <2>5. r.sum.rev = back.rev /\ r.sum.total = Cardinality(back.sel)
    BY <2>1 DEF Summary
  <2>6. UpToDate(scr, back, events, r.sum)
    BY <1>1, <2>5, SummaryIsCurrent
  <2>7. /\ c.arg <= r.sum.rev
        /\ c.reply # NoReply /\ c.arg = back.rev => c.reply.keys = back.sel
    BY <1>1, <1>3, <2>5 DEF InvOf, SelInv, DraftParts, PagesOK, Numbers
  <2>8. TrueOf(scr, back, events, c, d)
    BY <1>3, <2>3, <2>6, <2>7 DEF TrueOf, Summed
  <2> QED  BY <1>1, <2>4, <2>8, AnswerKeepsInv, PickerInvIs DEF LookAlso
<1> QED  BY <1>2, <1>3 DEF LookAlso

LEMMA StopBuildKeepsInv == ASSUME PickerInv, NEW c \in scr.calls, StopBuild(c) PROVE PickerInv'
<1>1. InvOf(scr, back, events) /\ ScreenShape(scr)
  BY PickerInvIs DEF InvOf
<1>2. PICK r : r = [read |-> TRUE]
  OBVIOUS
<1>3. PICK d : d = [c EXCEPT !.reply = r]
  OBVIOUS
<1>4. d = [op |-> c.op, arg |-> c.arg, reply |-> r, also |-> c.also]
  BY <1>3, <1>1, ReplyIs
<1>5. AnsweredIs(scr, scr', c, d)
  BY <1>2, <1>3, <1>4 DEF AnsweredIs, StopBuild, Reply
<1>6. TrueOf(scr, back, events, c, d)
  BY <1>4 DEF TrueOf, Summed, StopBuild
<1> QED  BY <1>1, <1>5, <1>6, AnswerKeepsInv, PickerInvIs DEF StopBuild

LEMMA BuildKeepsInv == ASSUME PickerInv, NEW c \in scr.calls, Build(c) PROVE PickerInv'
<1>1. InvOf(scr, back, events) /\ ScreenShape(scr) /\ BackHas(back) /\ LifeInv(scr, back, events) /\ StatusInv(scr, back, events) /\ SelInv(scr, back, events)
  BY PickerInvIs DEF InvOf
<1>2. PICK r : Reply(c, r) /\ c.op = "prepare"
  BY DEF Build
<1>3. PICK d : d = [c EXCEPT !.reply = r]
  OBVIOUS
<1>4. d = [op |-> c.op, arg |-> c.arg, reply |-> r, also |-> c.also]
  BY <1>3, <1>1, ReplyIs
<1>5. AnsweredIs(scr, scr', c, d)
  BY <1>2, <1>3, <1>4 DEF AnsweredIs, Reply
<1>6. TrueOf(scr, back', events', c, d)
  BY <1>2, <1>4 DEF TrueOf, Summed
<1>7. \/ back' = back /\ events' = events
      \/ back' = back /\ events' = events \cup {[name |-> "catalog", gen |-> back.tgen, at |-> "finished"]}
      \/ back' = [back EXCEPT !.state = "building"] /\ events' = events \cup {[name |-> "catalog", gen |-> back.tgen, at |-> "started"]}
  BY DEF Build, Emit
<1>8. /\ back'.tgen = back.tgen /\ back'.sel = back.sel /\ back'.rev = back.rev /\ back'.busy = back.busy /\ back'.undo = back.undo
      /\ BackHas(back') /\ events \subseteq events'
  BY <1>1, <1>7 DEF BackHas
<1>9. back.tgen \in Int /\ back.undo.sel \subseteq Names
  BY <1>1 DEF StatusInv, Past, SelInv, DraftParts, Draft
<1>10. \A e \in events' \ events : Tells(back', e)
  BY <1>7 DEF Tells
<1>11. back'.state = back.state \/ Told(back', events')
  <2>1. CASE events' = events \cup {[name |-> "catalog", gen |-> back.tgen, at |-> "started"]}
    <3>1. PICK e : e = [name |-> "catalog", gen |-> back.tgen, at |-> "started"]
      OBVIOUS
    <3>2. e \in events' /\ e.name = "catalog" /\ e.gen = back'.tgen
      BY <2>1, <1>8, <3>1
    <3> QED  BY <3>2 DEF Told
  <2> QED  BY <1>7, <2>1
<1>12. LifeInv(scr, back', events') /\ StatusInv(scr, back', events')
  BY <1>1, <1>8, <1>9, <1>11, StaysToldOf
<1>13. SelInv(scr, back', events')
  BY <1>1, <1>8, <1>9, <1>10, DraftStays
<1>14. InvOf(scr, back', events')
  BY <1>1, <1>8, <1>12, <1>13 DEF InvOf
<1> QED  BY <1>5, <1>6, <1>14, AnswerKeepsInv, PickerInvIs

(* A change leaves the draft and its revision, or moves both on. *)
LEMMA MutatedIs ==
  ASSUME NEW c, c.op \in {"add", "remove", "clear", "undo"}, BackHas(back), Draft(back), c.op = "add" => c.arg \in Names
  PROVE  LET b == Mutated(c) IN
         /\ b.tgen = back.tgen /\ b.state = back.state /\ b.busy = back.busy /\ BackHas(b) /\ Draft(b)
         /\ (b.rev = back.rev /\ b.sel = back.sel) \/ back.rev < b.rev
<1> DEFINE gone == [token |-> back.rev + 1, sel |-> back.sel]
<1>0. /\ back.rev \in Nat /\ back.sel \subseteq Names /\ back.undo.sel \subseteq Names /\ gone.sel = back.sel
      /\ NothingToUndo.sel = {} /\ Cardinality(back.undo.sel) \in Nat
  BY DraftIsFinite DEF Draft, NothingToUndo
<1> HIDE DEF gone
<1>1. CASE c.op = "add"
  <2>1. Mutated(c) = [back EXCEPT !.sel = @ \cup {c.arg}, !.rev = IF c.arg \in back.sel THEN @ ELSE @ + 1, !.undo = NothingToUndo]
    BY <1>1 DEF Mutated
  <2>2. PICK b : b = Mutated(c)
    OBVIOUS
  <2>3. /\ b.tgen = back.tgen /\ b.state = back.state /\ b.busy = back.busy /\ BackHas(b) /\ b.sel = back.sel \cup {c.arg}
        /\ b.rev = (IF c.arg \in back.sel THEN back.rev ELSE back.rev + 1) /\ b.undo = NothingToUndo
    BY <2>1, <2>2 DEF BackHas
  <2>4. Draft(b)
    BY <1>0, <1>1, <2>3 DEF Draft
  <2>5. (b.rev = back.rev /\ b.sel = back.sel) \/ back.rev < b.rev
    BY <1>0, <2>3
  <2> QED  BY <2>2, <2>3, <2>4, <2>5
<1>2. CASE c.op = "remove" \/ c.op = "clear"
  <2>1. PICK b : b = Mutated(c)
    OBVIOUS
  <2>2. \/ b = back
        \/ b = [back EXCEPT !.sel = @ \ {c.arg}, !.rev = @ + 1, !.undo = gone]
        \/ b = [back EXCEPT !.sel = {}, !.rev = @ + 1, !.undo = gone]
    BY <1>2, <2>1 DEF Mutated, gone
  <2>3. CASE b = back
    BY <2>1, <2>3
  <2>4. CASE b # back
    <3>1. /\ b.tgen = back.tgen /\ b.state = back.state /\ b.busy = back.busy /\ BackHas(b) /\ b.sel \subseteq back.sel
          /\ b.rev = back.rev + 1 /\ b.undo = gone
      BY <2>2, <2>4 DEF BackHas
    <3>2. Draft(b) /\ back.rev < b.rev
      BY <1>0, <3>1 DEF Draft
    <3> QED  BY <2>1, <3>1, <3>2
  <2> QED  BY <2>3, <2>4
<1>3. CASE c.op = "undo"
  <2>1. PICK b : b = Mutated(c)
    OBVIOUS
  <2>2. b = [back EXCEPT !.sel = back.undo.sel, !.rev = @ + 1 + Cardinality(back.undo.sel), !.undo = NothingToUndo]
    BY <1>3, <2>1 DEF Mutated
  <2>3. /\ b.tgen = back.tgen /\ b.state = back.state /\ b.busy = back.busy /\ BackHas(b) /\ b.sel = back.undo.sel
        /\ b.rev = back.rev + 1 + Cardinality(back.undo.sel) /\ b.undo = NothingToUndo
    BY <2>2 DEF BackHas
  <2>4. Draft(b) /\ back.rev < b.rev
    BY <1>0, <2>3 DEF Draft
  <2> QED  BY <2>1, <2>3, <2>4
<1> QED  BY <1>1, <1>2, <1>3

LEMMA MutateKeepsInv == ASSUME PickerInv, NEW c \in scr.calls, Mutate(c) PROVE PickerInv'
<1>1. /\ InvOf(scr, back, events) /\ ScreenShape(scr) /\ BackHas(back) /\ LifeInv(scr, back, events) /\ StatusInv(scr, back, events)
      /\ SelInv(scr, back, events) /\ Draft(back) /\ back.rev \in Nat /\ (c.op = "add" => c.arg \in Names)
  BY PickerInvIs DEF InvOf, ScreenShape, SelInv, DraftParts, Draft
<1>2. c.op \in {"add", "remove", "clear", "undo"}
  BY DEF Mutate
<1>3. CASE back.busy \/ (c.op = "undo" /\ c.arg # back.undo.token)
  <2>1. PICK r : r = [read |-> TRUE, error |-> TRUE, sum |-> Summary, changed |-> FALSE]
    OBVIOUS
  <2>2. PICK d : d = [c EXCEPT !.reply = r]
    OBVIOUS
  <2>3. d = [op |-> c.op, arg |-> c.arg, reply |-> r, also |-> c.also]
    BY <2>2, <1>1, ReplyIs
  <2>4. scr' = [scr EXCEPT !.calls = (@ \ {c}) \cup {d}] /\ back' = back /\ events' = events
    BY <1>3, <2>1, <2>2 DEF Mutate, Reply
  <2>5. AnsweredIs(scr, scr', c, d)
    BY <2>3, <2>4 DEF AnsweredIs
  <2>6. r.sum.rev = back.rev /\ r.sum.total = Cardinality(back.sel) /\ ~r.changed
    BY <2>1 DEF Summary
  <2>7. UpToDate(scr, back, events, r.sum)
    BY <1>1, <2>6, SummaryIsCurrent
  <2>8. TrueOf(scr, back, events, c, d)
    BY <1>2, <2>3, <2>6, <2>7 DEF TrueOf, Summed
  <2> QED  BY <1>1, <2>4, <2>5, <2>8, AnswerKeepsInv, PickerInvIs
<1>4. CASE ~(back.busy \/ (c.op = "undo" /\ c.arg # back.undo.token))
  <2> DEFINE b == Mutated(c)
  <2>1. PICK r : r = [read |-> TRUE, error |-> FALSE, changed |-> b.sel # back.sel,
                          sum |-> [rev |-> b.rev, total |-> Cardinality(b.sel), token |-> b.undo.token]]
    OBVIOUS
  <2>2. PICK d : d = [c EXCEPT !.reply = r]
    OBVIOUS
  <2>3. d = [op |-> c.op, arg |-> c.arg, reply |-> r, also |-> c.also]
    BY <2>2, <1>1, ReplyIs
  <2>4. back' = b /\ scr' = [scr EXCEPT !.calls = (@ \ {c}) \cup {d}]
    BY <1>4, <2>1, <2>2 DEF Mutate, Reply
  <2>5. (c.op = "remove" /\ b = back /\ events' = events) \/ events' = events \cup {SelectionEvent(b)}
    BY <1>4 DEF Mutate, Emit
  <2>6. r.sum.rev = b.rev /\ r.sum.total = Cardinality(b.sel) /\ r.changed = (b.sel # back.sel)
    BY <2>1
  <2>7. /\ b.tgen = back.tgen /\ b.state = back.state /\ b.busy = back.busy /\ BackHas(b) /\ Draft(b) /\ b.rev \in Nat /\ b.undo.sel \subseteq Names
        /\ (b.rev = back.rev /\ b.sel = back.sel) \/ back.rev < b.rev
    BY <1>1, <1>2, MutatedIs DEF Draft
  <2> HIDE DEF b
  <2>8. events \subseteq events' /\ \A e \in events' \ events : Tells(b, e)
    BY <2>5, <2>7, EventIsGood
  <2>9. LifeInv(scr, b, events') /\ StatusInv(scr, b, events')
    BY <1>1, <2>7, <2>8, StaysToldOf
  <2>10. back.rev < b.rev => SelectionEvent(b) \in events'
    BY <1>1, <2>5
  <2>11. SelInv(scr, b, events')
    <3>1. CASE b.rev = back.rev /\ b.sel = back.sel
      BY <3>1, <1>1, <2>7, <2>8, DraftStays
    <3>2. CASE back.rev < b.rev
      <4>1. SelectionEvent(b) \in events' /\ SelectionEvent(b).name = "selection" /\ SelectionEvent(b).rev = b.rev
        BY <3>2, <2>7, <2>10, EventIsGood
      <4> QED  BY <3>2, <4>1, <1>1, <2>7, <2>8, DraftMoves
    <3> QED  BY <2>7, <3>1, <3>2
  <2>12. InvOf(scr, b, events')
    BY <1>1, <2>7, <2>9, <2>11 DEF InvOf
  <2>13. ~r.changed \/ Moved(scr, b, events')
    <3>1. CASE b.rev = back.rev /\ b.sel = back.sel
      BY <3>1, <2>6
    <3>2. CASE back.rev < b.rev
      <4>1. scr.keysRev # b.rev
        BY <3>2, <1>1, <2>7 DEF SelInv, DraftParts, Numbers
      <4> QED  BY <3>2, <4>1, <2>7, <2>10, EventIsGood DEF Moved
    <3> QED  BY <2>7, <3>1, <3>2
  <2>14. UpToDate(scr, b, events', r.sum)
    BY <2>6, <2>7, SummaryIsCurrent
  <2>15. TrueOf(scr, b, events', c, d)
    BY <1>2, <2>3, <2>13, <2>14 DEF TrueOf, Summed
  <2>16. AnsweredIs(scr, scr', c, d)
    BY <2>3, <2>4 DEF AnsweredIs
  <2> QED  BY <2>4, <2>12, <2>15, <2>16, AnswerKeepsInv, PickerInvIs
<1> QED  BY <1>3, <1>4

-----------------------------------------------------------------------------
(* An answer reaches the screen: its call is over, and its handler runs.    *)
Returned(s, c) == [s EXCEPT !.calls = @ \ {c}]

LEMMA WithoutIs ==
  ASSUME NEW s, NEW b, NEW ev, NEW c \in s.calls, InvOf(s, b, ev), NEW t, t = Returned(s, c)
  PROVE
         /\ ScreenShape(t) /\ t.gen = s.gen /\ t.failed = s.failed /\ t.life = s.life /\ t.calls = s.calls \ {c}
         /\ t.keysRev = s.keysRev /\ t.complete = s.complete /\ t.trayRev = s.trayRev /\ t.sumRev = s.sumRev
         /\ DraftParts(t, b, ev) /\ Past(t, b)
         /\ Told(b, ev) \/ StatusAnswers(t, b)
         /\ c.op # "lifecycle" => LifeInv(t, b, ev)
         /\ c.op \notin {"status", "newTarget", "prepare"} => StatusInv(t, b, ev)
         /\ c.op # "page" => TrayRight(t, b)
         /\ c.op \notin {"selection", "keys"} => SumComes(t, b, ev)
         /\ c.op \notin {"keys", "add", "remove"} => MarksRight(t, b, ev)
         /\ c.op \in {"add", "remove"} /\ c.reply # NoReply /\ c.reply.changed => MarksRight(t, b, ev)
         /\ Heard(s, b, ev) => Heard(t, b, ev)
<1>2. /\ t.calls = s.calls \ {c} /\ ScreenHas(t) /\ t.life = s.life /\ t.gen = s.gen /\ t.status = s.status /\ t.failed = s.failed
      /\ t.selected = s.selected /\ t.complete = s.complete /\ t.keysRev = s.keysRev /\ t.sumRev = s.sumRev
      /\ t.total = s.total /\ t.trayRev = s.trayRev /\ t.entries = s.entries
  BY DEF Returned, InvOf, ScreenShape, ScreenHas
<1>3. ScreenShape(t)
  BY <1>2 DEF InvOf, ScreenShape
<1>4. Heard(s, b, ev) => Heard(t, b, ev)
  BY <1>2 DEF Heard
<1>5. \A sum : UpToDate(s, b, ev, sum) => UpToDate(t, b, ev, sum)
  BY <1>4 DEF UpToDate
<1>6. SumsOK(t, b, ev) /\ KeysOK(t, b) /\ PagesOK(t, b, ev) /\ Numbers(t, b)
  BY <1>2, <1>5 DEF InvOf, SelInv, DraftParts, SumsOK, KeysOK, PagesOK, Numbers
<1>7. DraftParts(t, b, ev)
  <2>1. Notices(t, b, ev)
    BY <1>5 DEF InvOf, SelInv, DraftParts, Notices
  <2> QED  BY <1>6, <2>1 DEF InvOf, SelInv, DraftParts
<1>8. Past(t, b) /\ (StatusAnswers(s, b) => StatusAnswers(t, b))
  BY <1>2 DEF InvOf, StatusInv, Past, StatusAnswers
<1>9. c.op # "lifecycle" => LifeInv(t, b, ev)
  BY <1>2 DEF InvOf, LifeInv
<1>10. c.op \notin {"status", "newTarget", "prepare"} /\ StatusShown(s, b) => StatusShown(t, b)
  BY <1>2 DEF StatusShown
<1>11. c.op # "page" => TrayRight(t, b)
  BY <1>2 DEF InvOf, SelInv, TrayRight
<1>12. c.op \notin {"selection", "keys"} => SumComes(t, b, ev)
  BY <1>2, <1>4 DEF InvOf, SelInv, SumComes
<1>13. ASSUME c.op # "keys", c.op \notin {"add", "remove"} \/ (c.reply # NoReply /\ c.reply.changed) PROVE MarksRight(t, b, ev)
  <2>1. \A m : Open(s, m) => Open(t, m)
    BY <1>2, <1>13 DEF Open
  <2> QED  BY <2>1, <1>2, <1>13 DEF InvOf, SelInv, MarksRight
<1>14. Told(b, ev) \/ (StatusAnswers(s, b) /\ StatusShown(s, b))
  BY DEF InvOf, StatusInv
<1>15. c.op \notin {"status", "newTarget", "prepare"} => StatusInv(t, b, ev)
  BY <1>8, <1>10, <1>14 DEF StatusInv
<1> QED  BY <1>2, <1>3, <1>4, <1>7, <1>8, <1>9, <1>11, <1>12, <1>13, <1>14, <1>15

LEMMA StatusAnswerKeepsInv ==
  ASSUME NEW s, NEW b, NEW ev, NEW c \in s.calls, InvOf(s, b, ev), c.op = "status", c.reply # NoReply, c.also # NoReply
  PROVE  InvOf(StatusAnswer(Returned(s, c), c), b, ev)
<1>1. PICK q : q = Returned(s, c)
  OBVIOUS
<1>2. /\ ScreenShape(q) /\ LifeInv(q, b, ev) /\ SelInv(q, b, ev) /\ Past(q, b) /\ BackHas(b)
      /\ Told(b, ev) \/ StatusAnswers(q, b)
      /\ q.gen = s.gen /\ s.gen \in Int /\ b.tgen \in Int /\ s.gen <= b.tgen
  <2>1. /\ ScreenShape(q) /\ LifeInv(q, b, ev) /\ Past(q, b) /\ (Told(b, ev) \/ StatusAnswers(q, b)) /\ q.gen = s.gen
        /\ DraftParts(q, b, ev) /\ TrayRight(q, b) /\ SumComes(q, b, ev) /\ MarksRight(q, b, ev)
    BY <1>1, WithoutIs
  <2> QED  BY <2>1 DEF SelInv, InvOf, StatusInv, Past
<1>3. Told(b, ev) \/ (c.reply.gen = b.tgen /\ c.also.gen = b.tgen /\ c.also.state = b.state)
  BY DEF InvOf, StatusInv, StatusAnswers
<1>4. c.reply.gen \in Int /\ c.reply.gen <= b.tgen
  BY DEF InvOf, StatusInv, Past
<1>5. CASE c.also.gen # c.reply.gen
  <2>1. PICK t : t = [q EXCEPT !.poll = q.visible]
    OBVIOUS
  <2>2. /\ ScreenHas(t) /\ t.calls = q.calls /\ t.life = q.life /\ t.gen = q.gen
        /\ t.selected = q.selected /\ t.complete = q.complete /\ t.keysRev = q.keysRev /\ t.sumRev = q.sumRev
        /\ t.total = q.total /\ t.trayRev = q.trayRev /\ t.entries = q.entries
    BY <2>1, <1>2 DEF ScreenShape, ScreenHas
  <2>3. ScreenShape(t) /\ SameLife(q, t) /\ SameMarks(q, t)
    BY <1>2, <2>2, StatusFieldsOnly
  <2>4. StatusInv(t, b, ev)
    BY <1>2, <1>3, <1>5, <2>2 DEF StatusInv, Past
  <2>5. t = StatusAnswer(q, c)
    BY <1>5, <2>1 DEF StatusAnswer
  <2> QED  BY <1>1, <1>2, <2>3, <2>4, <2>5, LifeStays, MarksStay DEF InvOf
<1>6. CASE c.also.gen = c.reply.gen /\ c.reply.gen < q.gen
  <2>1. Told(b, ev)
    BY <1>2, <1>3, <1>6
  <2>2. q = StatusAnswer(q, c)
    BY <1>6 DEF StatusAnswer
  <2> QED  BY <1>1, <1>2, <2>1, <2>2 DEF InvOf, StatusInv
<1>7. CASE c.also.gen = c.reply.gen /\ c.reply.gen = q.gen
  <2>1. PICK t : t = ApplyStatus(q, c.also.state)
    OBVIOUS
  <2>2. StatusAnswer(q, c) = t
    BY <1>2, <1>7, <2>1 DEF StatusAnswer
  <2>3. Applied(q, t, c.also.state)
    BY <1>2, <2>1, ApplyStatusIs
  <2>4. StatusInv(t, b, ev)
    BY <1>2, <1>3, <1>7, <2>3, StatusIsTaken
  <2> QED  BY <1>1, <1>2, <2>2, <2>3, <2>4, LifeStays, MarksStay DEF InvOf, Applied
<1>8. CASE c.also.gen = c.reply.gen /\ ~(c.reply.gen < q.gen) /\ c.reply.gen # q.gen
  <2>1. PICK k : k = Call("newTarget", c.also.state)
    OBVIOUS
  <2>2. k = [op |-> "newTarget", arg |-> c.also.state, reply |-> NoReply, also |-> NoReply]
    BY <2>1, NewCall
  <2>3. PICK t : t = [q EXCEPT !.gen = c.reply.gen, !.ready = Unset, !.calls = @ \cup {k}]
    OBVIOUS
  <2>4. /\ ScreenHas(t) /\ t.calls = q.calls \cup {k} /\ t.life = q.life /\ t.gen = c.reply.gen
        /\ t.selected = q.selected /\ t.complete = q.complete /\ t.keysRev = q.keysRev /\ t.sumRev = q.sumRev
        /\ t.total = q.total /\ t.trayRev = q.trayRev /\ t.entries = q.entries
    BY <2>3, <1>2 DEF ScreenShape, ScreenHas
  <2>5. ScreenShape(t) /\ SameLife(q, t) /\ SameMarks(q, t)
    BY <1>2, <2>2, <2>4 DEF ScreenShape, Operations, SameLife, SameMarks, Summed
  <2>6. Past(t, b)
    BY <1>2, <1>4, <2>2, <2>4 DEF Past
  <2>7. ASSUME ~Told(b, ev) PROVE StatusAnswers(t, b) /\ StatusShown(t, b)
    <3>1. StatusAnswers(q, b) /\ q.gen # b.tgen /\ t.gen = b.tgen /\ k.arg = b.state /\ k.op = "newTarget" /\ k \in t.calls
      BY <2>7, <1>2, <1>3, <1>8, <2>2, <2>4
    <3> QED  BY <3>1, <2>4 DEF StatusAnswers, StatusShown
  <2>8. StatusAnswer(q, c) = t
    BY <1>2, <1>8, <2>1, <2>3 DEF StatusAnswer
  <2> QED  BY <1>1, <1>2, <2>5, <2>6, <2>7, <2>8, LifeStays, MarksStay DEF InvOf, StatusInv
<1> QED  BY <1>5, <1>6, <1>7, <1>8

LEMMA SelectionAnswerKeepsInv ==
  ASSUME NEW s, NEW b, NEW ev, NEW c \in s.calls, InvOf(s, b, ev), c.op = "selection", c.reply # NoReply
  PROVE  InvOf(OnSelectionChanged(Returned(s, c), c.reply.sum), b, ev)
<1>1. PICK q : q = Returned(s, c)
  OBVIOUS
<1>2. ScreenShape(q) /\ LifeInv(q, b, ev) /\ StatusInv(q, b, ev) /\ DraftParts(q, b, ev) /\ TrayRight(q, b) /\ MarksRight(q, b, ev) /\ BackHas(b)
  BY <1>1, WithoutIs DEF InvOf
<1>3. UpToDate(q, b, ev, c.reply.sum)
  <2>1. UpToDate(s, b, ev, c.reply.sum)
    BY DEF InvOf, SelInv, DraftParts, SumsOK, Summed
  <2> QED  BY <2>1, <1>1, WithoutIs DEF UpToDate
<1>4. SelInv(OnSelectionChanged(q, c.reply.sum), b, ev)
  BY <1>2, <1>3, SummaryIsTaken
<1> QED  BY <1>1, <1>2, <1>4, OnSelectionChangedIs, LifeStays, StatusStays DEF InvOf

LEMMA NewTargetAnswerKeepsInv ==
  ASSUME NEW s, NEW b, NEW ev, NEW c \in s.calls, InvOf(s, b, ev), c.op = "newTarget", c.reply # NoReply
  PROVE  InvOf(ApplyStatus(OnSelectionChanged(Returned(s, c), c.reply.sum), c.arg), b, ev)
<1>1. PICK q : q = Returned(s, c)
  OBVIOUS
<1>2. /\ ScreenShape(q) /\ LifeInv(q, b, ev) /\ DraftParts(q, b, ev) /\ TrayRight(q, b) /\ MarksRight(q, b, ev) /\ BackHas(b)
      /\ Past(q, b) /\ (Told(b, ev) \/ StatusAnswers(q, b)) /\ q.gen = s.gen
  <2>1. q.gen = s.gen
    BY <1>1 DEF Returned, InvOf, ScreenShape, ScreenHas
  <2>2. ScreenShape(q) /\ DraftParts(q, b, ev)
    BY <1>1, WithoutIs
  <2>3. LifeInv(q, b, ev)
    BY <1>1, WithoutIs
  <2>4. TrayRight(q, b) /\ MarksRight(q, b, ev)
    BY <1>1, WithoutIs
  <2>5. Past(q, b)
    BY <1>1, WithoutIs
  <2>6. Told(b, ev) \/ StatusAnswers(q, b)
    BY <1>1, WithoutIs
  <2> QED  BY <2>1, <2>2, <2>3, <2>4, <2>5, <2>6 DEF InvOf
<1>3. UpToDate(q, b, ev, c.reply.sum)
  <2>1. UpToDate(s, b, ev, c.reply.sum)
    BY DEF InvOf, SelInv, DraftParts, SumsOK, Summed
  <2> QED  BY <2>1, <1>1, WithoutIs DEF UpToDate
<1>4. PICK r : r = OnSelectionChanged(q, c.reply.sum)
  OBVIOUS
<1>5. SelInv(r, b, ev)
  BY <1>2, <1>3, <1>4, SummaryIsTaken
<1>6. ScreenShape(r) /\ SameLife(q, r) /\ SameStatus(q, r)
  BY <1>2, <1>4, OnSelectionChangedIs
<1>7. LifeInv(r, b, ev) /\ Past(r, b) /\ (Told(b, ev) \/ StatusAnswers(r, b))
  BY <1>2, <1>6, LifeStays, StatusStays
<1>8. Told(b, ev) \/ (r.gen = b.tgen /\ c.arg = b.state)
  <2>1. Told(b, ev) \/ (s.gen = b.tgen /\ c.arg = b.state)
    BY DEF InvOf, StatusInv, StatusAnswers
  <2>2. r.gen = s.gen
    BY <1>2, <1>6 DEF SameStatus
  <2> QED  BY <2>1, <2>2
<1>9. PICK t : t = ApplyStatus(r, c.arg)
  OBVIOUS
<1>10. Applied(r, t, c.arg)
  BY <1>6, <1>9, ApplyStatusIs
<1>11. StatusInv(t, b, ev)
  BY <1>7, <1>8, <1>10, StatusIsTaken
<1> QED  BY <1>1, <1>2, <1>4, <1>5, <1>7, <1>9, <1>10, <1>11, LifeStays, MarksStay DEF InvOf, Applied

LEMMA LifecycleAnswerKeepsInv ==
  ASSUME NEW s, NEW b, NEW ev, NEW c \in s.calls, InvOf(s, b, ev), c.op = "lifecycle", c.reply # NoReply
  PROVE  InvOf(LifecycleAnswer(Returned(s, c), c), b, ev)
<1>1. PICK q : q = Returned(s, c)
  OBVIOUS
<1>2. /\ ScreenShape(q) /\ StatusInv(q, b, ev) /\ SelInv(q, b, ev) /\ BackHas(b) /\ q.calls = s.calls \ {c}
  BY <1>1, WithoutIs DEF InvOf, SelInv
<1>3. PICK r : r = [q EXCEPT !.life = IF c.reply.busy THEN "busy" ELSE "free"]
  OBVIOUS
<1>4. /\ ScreenHas(r) /\ r.calls = q.calls /\ r.life = Word(c.reply.busy) /\ r.gen = q.gen /\ r.status = q.status /\ r.failed = q.failed
      /\ r.selected = q.selected /\ r.complete = q.complete /\ r.keysRev = q.keysRev /\ r.sumRev = q.sumRev
      /\ r.total = q.total /\ r.trayRev = q.trayRev /\ r.entries = q.entries
  BY <1>3, <1>2 DEF ScreenShape, ScreenHas, Word
<1>5. ScreenShape(r) /\ SameStatus(q, r) /\ SameMarks(q, r)
  BY <1>2, <1>4 DEF ScreenShape, SameStatus, SameMarks
<1>6. LifeInv(r, b, ev)
  BY <1>2, <1>4 DEF InvOf, LifeInv
<1>7. InvOf(r, b, ev)
  BY <1>2, <1>5, <1>6, StatusStays, MarksStay DEF InvOf
<1>8. LifecycleAnswer(q, c) = r \/ LifecycleAnswer(q, c) = RefreshStatus(r)
  BY <1>3 DEF LifecycleAnswer
<1>9. InvOf(RefreshStatus(r), b, ev)
  BY <1>7, RefreshStatusIs, RefreshedStatus, LifeStays, MarksStay DEF InvOf, StatusInv, Past
<1> QED  BY <1>1, <1>7, <1>8, <1>9

LEMMA KeysAnswerKeepsInv ==
  ASSUME NEW s, NEW b, NEW ev, NEW c \in s.calls, InvOf(s, b, ev), c.op = "keys", c.reply # NoReply
  PROVE  InvOf(KeysAnswer(Returned(s, c), c), b, ev)
<1>1. PICK q : q = Returned(s, c)
  OBVIOUS
<1>2. /\ ScreenShape(q) /\ LifeInv(q, b, ev) /\ StatusInv(q, b, ev) /\ DraftParts(q, b, ev) /\ TrayRight(q, b) /\ BackHas(b)
      /\ q.calls = s.calls \ {c} /\ q.keysRev = s.keysRev /\ q.complete = s.complete
      /\ Heard(s, b, ev) => Heard(q, b, ev)
  <2>1. BackHas(b)
    BY DEF InvOf
  <2>2. /\ LifeInv(q, b, ev) /\ StatusInv(q, b, ev) /\ TrayRight(q, b) /\ ScreenShape(q) /\ DraftParts(q, b, ev)
        /\ q.calls = s.calls \ {c} /\ q.keysRev = s.keysRev /\ q.complete = s.complete /\ q.sumRev = s.sumRev
    <3>1. /\ q.calls = s.calls \ {c} /\ q.keysRev = s.keysRev /\ q.complete = s.complete /\ q.sumRev = s.sumRev
      BY <1>1 DEF Returned, InvOf, ScreenShape, ScreenHas
    <3>2. ScreenShape(q)
      BY <1>1, WithoutIs
    <3>3. DraftParts(q, b, ev)
      BY <1>1, WithoutIs
    <3>4. LifeInv(q, b, ev)
      BY <1>1, WithoutIs
    <3>5. StatusInv(q, b, ev)
      BY <1>1, WithoutIs
    <3>6. TrayRight(q, b)
      BY <1>1, WithoutIs
    <3> QED  BY <3>1, <3>2, <3>3, <3>4, <3>5, <3>6
  <2>3. Heard(s, b, ev) => Heard(q, b, ev)
    BY <2>2 DEF Heard
  <2> QED  BY <2>1, <2>2, <2>3
<1>3. c.reply.rev \in Int /\ c.reply.rev <= b.rev /\ (c.reply.rev = b.rev => c.reply.keys = b.sel)
  BY DEF InvOf, SelInv, DraftParts, KeysOK
<1>4. PICK r : r = (IF c.reply.rev < q.keysRev THEN q
                    ELSE [q EXCEPT !.keysRev = c.reply.rev, !.complete = TRUE, !.selected = c.reply.keys])
  OBVIOUS
<1>5. /\ ScreenHas(r) /\ r.calls = q.calls /\ r.life = q.life /\ r.gen = q.gen /\ r.status = q.status /\ r.failed = q.failed
      /\ r.sumRev = q.sumRev /\ r.total = q.total /\ r.trayRev = q.trayRev /\ r.entries = q.entries
      /\ \/ c.reply.rev < q.keysRev /\ r = q
         \/ ~(c.reply.rev < q.keysRev) /\ r.keysRev = c.reply.rev /\ r.complete = TRUE /\ r.selected = c.reply.keys
  BY <1>4, <1>2 DEF ScreenShape, ScreenHas
<1>6. ScreenShape(r) /\ SameLife(q, r) /\ SameStatus(q, r)
  BY <1>2, <1>5 DEF ScreenShape, SameLife, SameStatus
<1>7. LifeInv(r, b, ev) /\ StatusInv(r, b, ev)
  BY <1>2, <1>6, LifeStays, StatusStays
<1>8. Heard(q, b, ev) => Heard(r, b, ev)
  BY <1>5 DEF Heard
<1>9. DraftParts(r, b, ev) /\ TrayRight(r, b)
  <2>1. \A sum : UpToDate(q, b, ev, sum) => UpToDate(r, b, ev, sum)
    BY <1>8 DEF UpToDate
  <2>2. SumsOK(r, b, ev) /\ KeysOK(r, b) /\ PagesOK(r, b, ev)
    BY <1>2, <1>5, <2>1 DEF DraftParts, SumsOK, KeysOK, PagesOK
  <2>3. Numbers(r, b)
    BY <1>2, <1>3, <1>5 DEF DraftParts, Numbers
  <2>4. TrayRight(r, b)
    BY <1>2, <1>5 DEF TrayRight
  <2>5. Notices(r, b, ev)
    BY <1>2, <2>1 DEF DraftParts, Notices
  <2> QED  BY <1>2, <2>2, <2>3, <2>4, <2>5 DEF DraftParts
<1>10. MarksRight(r, b, ev)
  <2>1. q.keysRev \in Int /\ q.keysRev <= b.rev /\ b.rev \in Nat /\ b.sel \subseteq Names
    BY <1>2 DEF DraftParts, Numbers, Draft
  <2>2. CASE c.reply.rev = b.rev
    <3>1. r.keysRev = b.rev /\ r.complete = TRUE /\ r.selected = b.sel
      BY <2>1, <2>2, <1>3, <1>5
    <3> QED  BY <3>1, <2>1 DEF MarksRight
  <2>3. CASE c.reply.rev # b.rev /\ \E k \in s.calls : k.op = "keys" /\ (k.reply = NoReply \/ k.reply.rev = b.rev)
    BY <2>3, <1>2, <1>5 DEF MarksRight
  <2>4. CASE c.reply.rev # b.rev /\ s.complete /\ s.keysRev = b.rev
    <3>1. r = q /\ q.complete /\ q.keysRev = b.rev
      BY <2>4, <1>2, <1>3, <1>5, <2>1
    <3>2. q.selected = s.selected
      BY <1>1 DEF Returned, InvOf, ScreenShape, ScreenHas
    <3>3. \A m : Open(s, m) => Open(q, m)
      BY <1>2 DEF Open
    <3> QED  BY <2>4, <3>1, <3>2, <3>3, <1>2 DEF InvOf, SelInv, MarksRight
  <2>5. CASE c.reply.rev # b.rev /\ (\E e \in ev : e.name = "selection" /\ e.rev = b.rev) /\ (s.keysRev # b.rev \/ ~s.complete)
    <3>1. r.keysRev # b.rev \/ ~r.complete
      BY <2>5, <1>2, <1>5
    <3> QED  BY <2>5, <3>1 DEF MarksRight
  <2> QED  BY <2>2, <2>3, <2>4, <2>5 DEF InvOf, SelInv, MarksRight
<1>11. CASE c.arg
  <2>1. KeysAnswer(q, c) = r
    BY <1>11, <1>4 DEF KeysAnswer
  <2>2. SumComes(r, b, ev)
    BY <1>11, <1>2, <1>5, <1>8 DEF InvOf, SelInv, SumComes
  <2> QED  BY <1>1, <1>2, <1>6, <1>7, <1>9, <1>10, <2>1, <2>2 DEF InvOf, SelInv
<1>12. CASE ~c.arg
  <2>1. PICK k : k = Call("selection", "reload")
    OBVIOUS
  <2>2. k = [op |-> "selection", arg |-> "reload", reply |-> NoReply, also |-> NoReply]
    BY <2>1, NewCall
  <2>3. PICK t : t = [r EXCEPT !.calls = @ \cup {k}]
    OBVIOUS
  <2>4. KeysAnswer(q, c) = t
    BY <1>12, <1>4, <2>1, <2>3 DEF KeysAnswer
  <2>5. /\ ScreenHas(t) /\ t.calls = r.calls \cup {k} /\ t.life = r.life /\ t.gen = r.gen /\ t.status = r.status /\ t.failed = r.failed
        /\ t.selected = r.selected /\ t.complete = r.complete /\ t.keysRev = r.keysRev /\ t.sumRev = r.sumRev
        /\ t.total = r.total /\ t.trayRev = r.trayRev /\ t.entries = r.entries
    BY <2>3, <1>5 DEF ScreenHas
  <2>6. ScreenShape(t) /\ SameLife(r, t) /\ SameStatus(r, t) /\ SameMarks(r, t)
    BY <1>6, <2>2, <2>5 DEF ScreenShape, Operations, SameLife, SameStatus, SameMarks, Summed
  <2>7. SumComes(t, b, ev)
    BY <2>2, <2>5 DEF SumComes
  <2>8. DraftParts(t, b, ev) /\ TrayRight(t, b) /\ MarksRight(t, b, ev) /\ LifeInv(t, b, ev) /\ StatusInv(t, b, ev)
    BY <1>7, <1>9, <1>10, <2>6, LifeStays, StatusStays, MarksStay
  <2> QED  BY <1>1, <1>2, <2>4, <2>6, <2>7, <2>8 DEF InvOf, SelInv
<1> QED  BY <1>11, <1>12

(* The tray draws itself with a summary: nothing else of the marks changes.  *)
LEMMA RenderKeepsInv ==
  ASSUME NEW s, NEW b, NEW ev, NEW sum, ScreenShape(s), BackHas(b), LifeInv(s, b, ev), StatusInv(s, b, ev), SumComes(s, b, ev), MarksRight(s, b, ev),
         DraftParts(s, b, ev), UpToDate(s, b, ev, sum), TrayRight(s, b) \/ ~(sum.rev < s.trayRev)
  PROVE  InvOf(Render(s, sum), b, ev)
<1> DEFINE t == Render(s, sum)
<1>1. t = Render(s, sum)
  OBVIOUS
<1>2. /\ ScreenShape(t) /\ SameLife(s, t) /\ SameStatus(s, t)
      /\ \A c \in s.calls : c.op # "page" => c \in t.calls
      /\ \A c \in t.calls : c.op # "page" => c \in s.calls
      /\ t.selected = s.selected /\ t.complete = s.complete /\ t.keysRev = s.keysRev /\ t.sumRev = s.sumRev /\ t.total = s.total
  BY RenderIs
<1>3. \/ sum.rev < s.trayRev /\ t = s
      \/ /\ ~(sum.rev < s.trayRev)
         /\ t.trayRev = sum.rev
         /\ \A c \in t.calls : c.op = "page" => c.arg = sum.rev /\ c.reply = NoReply /\ c.also = NoReply
         /\ \/ sum.total = 0 /\ t.entries = {}
            \/ \E c \in t.calls : c.op = "page"
  BY RenderIs
<1> HIDE DEF t
<1>4. CASE sum.rev < s.trayRev /\ t = s
  BY <1>1, <1>4 DEF InvOf, SelInv
<1>5. CASE /\ ~(sum.rev < s.trayRev)
           /\ t.trayRev = sum.rev
           /\ \A c \in t.calls : c.op = "page" => c.arg = sum.rev /\ c.reply = NoReply /\ c.also = NoReply
           /\ \/ sum.total = 0 /\ t.entries = {}
              \/ \E c \in t.calls : c.op = "page"
  <2>1. LifeInv(t, b, ev) /\ StatusInv(t, b, ev)
    BY <1>2, LifeStays, StatusStays
  <2>2. Heard(s, b, ev) => Heard(t, b, ev)
    BY <1>2 DEF Heard
  <2>3. \A x : UpToDate(s, b, ev, x) => UpToDate(t, b, ev, x)
    BY <2>2 DEF UpToDate
  <2>4. SumsOK(t, b, ev) /\ KeysOK(t, b)
    BY <1>2, <2>3 DEF DraftParts, SumsOK, KeysOK, Summed
  <2>5. PagesOK(t, b, ev)
    BY <1>5 DEF PagesOK
  <2>6. GoodSum(b, sum) /\ Draft(b)
    BY DEF UpToDate, DraftParts
  <2>7. Numbers(t, b)
    BY <1>2, <1>5, <2>6 DEF DraftParts, Numbers, GoodSum, Draft
  <2>8. TrayRight(t, b)
    BY <1>5, <2>6, DraftIsFinite DEF TrayRight, GoodSum
  <2>9. SumComes(t, b, ev)
    BY <1>2, <2>2 DEF SumComes
  <2>10. \A m : Open(s, m) => Open(t, m)
    BY <1>2 DEF Open
  <2>11. MarksRight(t, b, ev)
    BY <1>2, <2>10 DEF MarksRight
  <2>12. Notices(t, b, ev)
    BY <2>3 DEF DraftParts, Notices
  <2> QED  BY <1>1, <1>2, <2>1, <2>4, <2>5, <2>7, <2>8, <2>9, <2>11, <2>12 DEF InvOf, SelInv, DraftParts
<1> QED  BY <1>3, <1>4, <1>5

LEMMA PageAnswerKeepsInv ==
  ASSUME NEW s, NEW b, NEW ev, NEW c \in s.calls, InvOf(s, b, ev), c.op = "page", c.reply # NoReply, c.also # NoReply
  PROVE  InvOf(PageAnswer(Returned(s, c), c), b, ev)
<1>1. PICK q : q = Returned(s, c)
  OBVIOUS
<1>2. /\ ScreenShape(q) /\ LifeInv(q, b, ev) /\ StatusInv(q, b, ev) /\ DraftParts(q, b, ev) /\ SumComes(q, b, ev) /\ MarksRight(q, b, ev) /\ BackHas(b)
      /\ q.trayRev = s.trayRev /\ (Heard(s, b, ev) => Heard(q, b, ev))
  <2>1. q.trayRev = s.trayRev /\ q.sumRev = s.sumRev
    BY <1>1 DEF Returned, InvOf, ScreenShape, ScreenHas
  <2>2. Heard(s, b, ev) => Heard(q, b, ev)
    BY <2>1 DEF Heard
  <2>3. ScreenShape(q) /\ DraftParts(q, b, ev)
    BY <1>1, WithoutIs
  <2>4. LifeInv(q, b, ev)
    BY <1>1, WithoutIs
  <2>5. StatusInv(q, b, ev)
    BY <1>1, WithoutIs
  <2>6. SumComes(q, b, ev)
    BY <1>1, WithoutIs
  <2>7. MarksRight(q, b, ev)
    BY <1>1, WithoutIs
  <2> QED  BY <2>1, <2>2, <2>3, <2>4, <2>5, <2>6, <2>7 DEF InvOf
<1>3. /\ c.arg = s.trayRev /\ (c.arg = b.rev => c.reply.keys = b.sel)
      /\ UpToDate(s, b, ev, c.also.sum) /\ c.arg <= c.also.sum.rev
  BY DEF InvOf, SelInv, DraftParts, PagesOK
<1>4. UpToDate(q, b, ev, c.also.sum)
  BY <1>2, <1>3 DEF UpToDate
<1>5. CASE c.also.sum.rev = c.arg
  <2>1. PICK t : t = [q EXCEPT !.entries = c.reply.keys]
    OBVIOUS
  <2>2. PageAnswer(q, c) = t
    BY <1>5, <2>1 DEF PageAnswer
  <2>3. /\ ScreenHas(t) /\ t.calls = q.calls /\ t.life = q.life /\ t.gen = q.gen /\ t.status = q.status /\ t.failed = q.failed
        /\ t.selected = q.selected /\ t.complete = q.complete /\ t.keysRev = q.keysRev /\ t.sumRev = q.sumRev
        /\ t.total = q.total /\ t.trayRev = q.trayRev /\ t.entries = c.reply.keys
    BY <1>2, <2>1 DEF ScreenShape, ScreenHas
  <2>4. ScreenShape(t) /\ SameLife(q, t) /\ SameStatus(q, t)
    BY <1>2, <2>3 DEF ScreenShape, SameLife, SameStatus
  <2>5. LifeInv(t, b, ev) /\ StatusInv(t, b, ev)
    BY <1>2, <2>4, LifeStays, StatusStays
  <2>6. Heard(q, b, ev) => Heard(t, b, ev)
    BY <2>3 DEF Heard
  <2>7. \A x : UpToDate(q, b, ev, x) => UpToDate(t, b, ev, x)
    BY <2>6 DEF UpToDate
  <2>8. SumsOK(t, b, ev) /\ KeysOK(t, b) /\ PagesOK(t, b, ev) /\ Numbers(t, b)
    BY <1>2, <2>3, <2>7 DEF DraftParts, SumsOK, KeysOK, PagesOK, Numbers
  <2>9. TrayRight(t, b)
    BY <1>2, <1>3, <2>3 DEF TrayRight
  <2>10. SumComes(t, b, ev)
    BY <1>2, <2>3, <2>6 DEF SumComes
  <2>11. \A m : Open(q, m) => Open(t, m)
    BY <2>3 DEF Open
  <2>12. MarksRight(t, b, ev)
    BY <1>2, <2>3, <2>11 DEF MarksRight
  <2>13. Notices(t, b, ev)
    BY <1>2, <2>7 DEF DraftParts, Notices
  <2> QED  BY <1>1, <1>2, <2>2, <2>4, <2>5, <2>8, <2>9, <2>10, <2>12, <2>13 DEF InvOf, SelInv, DraftParts
<1>6. CASE c.also.sum.rev # c.arg
  <2>1. PageAnswer(q, c) = Render(q, c.also.sum)
    BY <1>6 DEF PageAnswer
  <2>2. ~(c.also.sum.rev < q.trayRev)
    BY <1>2, <1>3, <1>4 DEF UpToDate, GoodSum, DraftParts, Numbers
  <2> QED  BY <1>1, <1>2, <1>4, <2>1, <2>2, RenderKeepsInv
<1> QED  BY <1>5, <1>6

(* A mark is answered: one that was refused or changed nothing reads the     *)
(* selection again.                                                          *)
LEMMA ToggleAnswerKeepsInv ==
  ASSUME NEW s, NEW b, NEW ev, NEW c \in s.calls, InvOf(s, b, ev), c.op \in {"add", "remove"}, c.reply # NoReply
  PROVE  InvOf(ToggleAnswer(Returned(s, c), c), b, ev)
<1>1. PICK q : q = Returned(s, c)
  OBVIOUS
<1>2. /\ ScreenShape(q) /\ LifeInv(q, b, ev) /\ StatusInv(q, b, ev) /\ DraftParts(q, b, ev) /\ TrayRight(q, b) /\ SumComes(q, b, ev) /\ BackHas(b)
      /\ c.reply.changed => MarksRight(q, b, ev)
      /\ Heard(s, b, ev) => Heard(q, b, ev)
  <2>1. BackHas(b)
    BY DEF InvOf
  <2>2. Heard(s, b, ev) => Heard(q, b, ev)
    BY <1>1, WithoutIs
  <2> QED  BY <2>1, <2>2, <1>1, WithoutIs
<1>3. UpToDate(q, b, ev, c.reply.sum)
  <2>1. UpToDate(s, b, ev, c.reply.sum)
    BY DEF InvOf, SelInv, DraftParts, SumsOK, Summed
  <2> QED  BY <2>1, <1>2 DEF UpToDate
<1>4. PICK t : t = (IF c.reply.error THEN q ELSE OnSelectionChanged(q, c.reply.sum))
  OBVIOUS
<1>5. ScreenShape(t) /\ LifeInv(t, b, ev) /\ StatusInv(t, b, ev) /\ DraftParts(t, b, ev) /\ TrayRight(t, b)
  <2>1. CASE c.reply.error
    BY <2>1, <1>2, <1>4
  <2>2. CASE ~c.reply.error
    <3>1. ScreenShape(t) /\ SameLife(q, t) /\ SameStatus(q, t)
      BY <2>2, <1>2, <1>4, OnSelectionChangedIs
    <3>2. DraftParts(t, b, ev) /\ TrayRight(t, b)
      BY <2>2, <1>2, <1>3, <1>4, SummaryIsDrawn
    <3> QED  BY <3>1, <3>2, <1>2, LifeStays, StatusStays
  <2> QED  BY <2>1, <2>2
<1>6. PICK u : u = [t EXCEPT !.toggles = @ \ {c.arg}]
  OBVIOUS
<1>7. /\ ScreenHas(u) /\ u.calls = t.calls /\ u.life = t.life /\ u.gen = t.gen /\ u.status = t.status /\ u.failed = t.failed
      /\ u.selected = t.selected /\ u.complete = t.complete /\ u.keysRev = t.keysRev /\ u.sumRev = t.sumRev
      /\ u.total = t.total /\ u.trayRev = t.trayRev /\ u.entries = t.entries
  BY <1>5, <1>6 DEF ScreenShape, ScreenHas
<1>8. ScreenShape(u) /\ SameLife(t, u) /\ SameMarks(t, u) /\ SameStatus(t, u)
  BY <1>5, <1>7, StatusFieldsOnly DEF SameStatus
<1>9. CASE c.reply.changed
  <2>1. ToggleAnswer(q, c) = u
    BY <1>9, <1>4, <1>6 DEF ToggleAnswer
  <2>2. SelInv(t, b, ev)
    <3>1. CASE c.reply.error
      BY <3>1, <1>2, <1>4, <1>9 DEF SelInv
    <3>2. CASE ~c.reply.error
      BY <3>2, <1>2, <1>3, <1>4, <1>9, SummaryIsTaken
    <3> QED  BY <3>1, <3>2
  <2> QED  BY <1>1, <1>2, <1>5, <1>8, <2>1, <2>2, LifeStays, StatusStays, MarksStay DEF InvOf
<1>10. CASE ~c.reply.changed
  <2>1. PICK v : v = [u EXCEPT !.selected = IF c.op = "remove" THEN @ \cup {c.arg} ELSE @ \ {c.arg}]
    OBVIOUS
  <2>2. ToggleAnswer(q, c) = ReloadSelection(v, FALSE)
    BY <1>10, <1>4, <1>6, <2>1 DEF ToggleAnswer
  <2>3. /\ ScreenHas(v) /\ v.calls = u.calls /\ v.life = u.life /\ v.gen = u.gen /\ v.status = u.status /\ v.failed = u.failed
        /\ v.complete = u.complete /\ v.keysRev = u.keysRev /\ v.sumRev = u.sumRev
        /\ v.total = u.total /\ v.trayRev = u.trayRev /\ v.entries = u.entries
    BY <1>7, <2>1 DEF ScreenHas
  <2>4. ScreenShape(v) /\ SameLife(t, v) /\ SameStatus(t, v)
    BY <1>5, <1>7, <1>8, <2>3 DEF ScreenShape, SameLife, SameStatus
  <2>5. DraftParts(v, b, ev) /\ TrayRight(v, b)
    <3>1. DraftParts(u, b, ev) /\ TrayRight(u, b)
      BY <1>5, <1>8, MarksStay
    <3>2. Heard(u, b, ev) <=> Heard(v, b, ev)
      BY <2>3 DEF Heard
    <3>3. \A sum : UpToDate(u, b, ev, sum) => UpToDate(v, b, ev, sum)
      BY <3>2 DEF UpToDate
    <3>4. SumsOK(v, b, ev) /\ KeysOK(v, b) /\ PagesOK(v, b, ev) /\ Numbers(v, b)
      BY <2>3, <3>1, <3>3 DEF DraftParts, SumsOK, KeysOK, PagesOK, Numbers
    <3>5. TrayRight(v, b)
      BY <2>3, <3>1 DEF TrayRight
    <3>6. Notices(v, b, ev)
      BY <3>1, <3>3 DEF DraftParts, Notices
    <3> QED  BY <3>1, <3>4, <3>5, <3>6 DEF DraftParts
  <2>6. PICK w : w = ReloadSelection(v, FALSE)
    OBVIOUS
  <2>7. ScreenShape(w) /\ SameLife(v, w) /\ SameStatus(v, w) /\ SelInv(w, b, ev)
    BY <2>4, <2>5, <2>6, ReloadSelectionIs
  <2>8. LifeInv(w, b, ev) /\ StatusInv(w, b, ev)
    BY <1>5, <2>4, <2>7, LifeStays, StatusStays
  <2> QED  BY <1>1, <1>2, <2>2, <2>6, <2>7, <2>8 DEF InvOf
<1> QED  BY <1>9, <1>10

(* The tray's acceptMutation. *)
LEMMA TrayAnswerKeepsInv ==
  ASSUME NEW s, NEW b, NEW ev, NEW c \in s.calls, InvOf(s, b, ev), c.op \in {"clear", "undo"}, c.reply # NoReply
  PROVE  InvOf(TrayAnswer(Returned(s, c), c), b, ev)
<1>1. PICK q : q = Returned(s, c)
  OBVIOUS
<1>2. /\ ScreenShape(q) /\ LifeInv(q, b, ev) /\ StatusInv(q, b, ev) /\ SelInv(q, b, ev) /\ BackHas(b)
      /\ Heard(s, b, ev) => Heard(q, b, ev)
  <2>1. BackHas(b)
    BY DEF InvOf
  <2>2. DraftParts(q, b, ev) /\ TrayRight(q, b) /\ SumComes(q, b, ev) /\ MarksRight(q, b, ev)
    BY <1>1, WithoutIs
  <2> QED  BY <2>1, <2>2, <1>1, WithoutIs DEF SelInv
<1>3. PICK t : t = [q EXCEPT !.opBusy = FALSE]
  OBVIOUS
<1>4. /\ ScreenHas(t) /\ t.calls = q.calls /\ t.life = q.life /\ t.gen = q.gen /\ t.status = q.status /\ t.failed = q.failed
      /\ t.selected = q.selected /\ t.complete = q.complete /\ t.keysRev = q.keysRev /\ t.sumRev = q.sumRev
      /\ t.total = q.total /\ t.trayRev = q.trayRev /\ t.entries = q.entries
  BY <1>2, <1>3 DEF ScreenShape, ScreenHas
<1>5. ScreenShape(t) /\ SameLife(q, t) /\ SameMarks(q, t) /\ SameStatus(q, t)
  BY <1>2, <1>4, StatusFieldsOnly DEF SameStatus
<1>6. InvOf(t, b, ev)
  BY <1>2, <1>5, LifeStays, StatusStays, MarksStay DEF InvOf
<1>7. UpToDate(t, b, ev, c.reply.sum)
  <2>1. UpToDate(s, b, ev, c.reply.sum)
    BY DEF InvOf, SelInv, DraftParts, SumsOK, Summed
  <2>2. Heard(q, b, ev) => Heard(t, b, ev)
    BY <1>4 DEF Heard
  <2> QED  BY <2>1, <2>2, <1>2 DEF UpToDate
<1>8. PICK u : u = (IF c.reply.error THEN Render(t, c.reply.sum) ELSE OnSelectionChanged(t, c.reply.sum))
  OBVIOUS
<1>9. InvOf(u, b, ev)
  <2>1. CASE c.reply.error
    BY <2>1, <1>6, <1>7, <1>8, RenderKeepsInv DEF InvOf, SelInv
  <2>2. CASE ~c.reply.error
    <3>1. ScreenShape(u) /\ SameLife(t, u) /\ SameStatus(t, u)
      BY <2>2, <1>5, <1>8, OnSelectionChangedIs
    <3>2. SelInv(u, b, ev)
      BY <2>2, <1>6, <1>7, <1>8, SummaryIsTaken DEF InvOf, SelInv
    <3> QED  BY <1>6, <3>1, <3>2, LifeStays, StatusStays DEF InvOf
  <2> QED  BY <2>1, <2>2
<1>10. TrayAnswer(q, c) = (IF c.op = "undo" THEN ReloadSelection(u, FALSE) ELSE u)
  BY <1>3, <1>8 DEF TrayAnswer
<1>11. PICK w : w = ReloadSelection(u, FALSE)
  OBVIOUS
<1>12. ScreenShape(w) /\ SameLife(u, w) /\ SameStatus(u, w) /\ SelInv(w, b, ev)
  BY <1>9, <1>11, ReloadSelectionIs DEF InvOf, SelInv
<1>13. InvOf(w, b, ev)
  BY <1>9, <1>12, LifeStays, StatusStays DEF InvOf
<1> QED  BY <1>1, <1>9, <1>10, <1>11, <1>13

LEMMA RefreshKeepsInv ==
  ASSUME NEW s, NEW b, NEW ev, ScreenShape(s), BackHas(b), LifeInv(s, b, ev), Past(s, b), SelInv(s, b, ev)
  PROVE  InvOf(RefreshStatus(s), b, ev)
<1>1. s.gen \in Int /\ b.tgen \in Int /\ s.gen <= b.tgen
  BY DEF Past
<1>2. PICK t : t = RefreshStatus(s)
  OBVIOUS
<1>3. ScreenShape(t) /\ SameLife(s, t) /\ SameMarks(s, t) /\ StatusInv(t, b, ev)
  BY <1>1, <1>2, RefreshStatusIs, RefreshedStatus
<1> QED  BY <1>2, <1>3, LifeStays, MarksStay DEF InvOf

LEMMA CancelAnswerKeepsInv ==
  ASSUME NEW s, NEW b, NEW ev, NEW c \in s.calls, InvOf(s, b, ev), c.op = "cancel", c.reply # NoReply
  PROVE  InvOf(CancelAnswer(Returned(s, c), c), b, ev)
<1>1. PICK q : q = Returned(s, c)
  OBVIOUS
<1>2. InvOf(q, b, ev) /\ Past(q, b)
  <2>1. BackHas(b)
    BY DEF InvOf
  <2>2. DraftParts(q, b, ev) /\ TrayRight(q, b) /\ SumComes(q, b, ev) /\ MarksRight(q, b, ev) /\ ScreenShape(q) /\ LifeInv(q, b, ev) /\ StatusInv(q, b, ev)
    BY <1>1, WithoutIs
  <2> QED  BY <2>1, <2>2 DEF SelInv, InvOf, StatusInv
<1>3. InvOf(RefreshStatus(q), b, ev)
  BY <1>2, RefreshKeepsInv DEF InvOf
<1> QED  BY <1>1, <1>2, <1>3 DEF CancelAnswer

LEMMA PrepareAnswerKeepsInv ==
  ASSUME NEW s, NEW b, NEW ev, NEW c \in s.calls, InvOf(s, b, ev), c.op = "prepare", c.reply # NoReply
  PROVE  InvOf(PrepareAnswer(Returned(s, c), c), b, ev)
<1>1. PICK q : q = Returned(s, c)
  OBVIOUS
<1>2. /\ ScreenShape(q) /\ BackHas(b) /\ LifeInv(q, b, ev) /\ Past(q, b) /\ (Told(b, ev) \/ StatusAnswers(q, b)) /\ SelInv(q, b, ev)
      /\ q.gen = s.gen /\ q.calls = s.calls \ {c} /\ q.failed = s.failed
  <2>1. BackHas(b)
    BY DEF InvOf
  <2>2. DraftParts(q, b, ev) /\ TrayRight(q, b) /\ SumComes(q, b, ev) /\ MarksRight(q, b, ev)
    BY <1>1, WithoutIs
  <2> QED  BY <2>1, <2>2, <1>1, WithoutIs DEF SelInv
<1>3. Told(b, ev) \/ StatusShown(s, b)
  BY DEF InvOf, StatusInv
<1>4. q.status = s.status
  BY <1>1 DEF Returned, InvOf, ScreenShape, ScreenHas
<1>5. PICK t : t = [q EXCEPT !.pending = @ \ {c.arg.gen}]
  OBVIOUS
<1>6. /\ ScreenHas(t) /\ t.calls = q.calls /\ t.life = q.life /\ t.gen = q.gen /\ t.status = q.status /\ t.failed = q.failed
      /\ t.selected = q.selected /\ t.complete = q.complete /\ t.keysRev = q.keysRev /\ t.sumRev = q.sumRev
      /\ t.total = q.total /\ t.trayRev = q.trayRev /\ t.entries = q.entries
  BY <1>2, <1>5 DEF ScreenShape, ScreenHas
<1>7. ScreenShape(t) /\ SameLife(q, t) /\ SameMarks(q, t) /\ SameStatus(q, t)
  BY <1>2, <1>6, StatusFieldsOnly DEF SameStatus
<1>8. LifeInv(t, b, ev) /\ SelInv(t, b, ev) /\ Past(t, b) /\ (Told(b, ev) \/ StatusAnswers(t, b))
  BY <1>2, <1>7, LifeStays, StatusStays, MarksStay
<1>9. CASE c.arg.gen # q.gen
  <2>1. PrepareAnswer(q, c) = t
    BY <1>9, <1>5 DEF PrepareAnswer
  <2>2. StatusShown(s, b) => StatusShown(t, b)
    BY <1>2, <1>4, <1>6, <1>9 DEF StatusShown
  <2> QED  BY <1>1, <1>2, <1>3, <1>7, <1>8, <2>1, <2>2 DEF InvOf, StatusInv
<1>10. CASE c.arg.gen = q.gen /\ ~c.reply.error
  <2>1. PrepareAnswer(q, c) = RefreshStatus(t)
    BY <1>10, <1>5 DEF PrepareAnswer
  <2> QED  BY <1>1, <1>2, <1>7, <1>8, <2>1, RefreshKeepsInv
<1>11. CASE c.arg.gen = q.gen /\ c.reply.error
  <2>1. PICK u : u = [t EXCEPT !.failed = @ \cup {q.gen}]
    OBVIOUS
  <2>2. PICK v : v = ApplyStatus(u, "failed")
    OBVIOUS
  <2>3. PrepareAnswer(q, c) = v
    BY <1>11, <1>5, <2>1, <2>2 DEF PrepareAnswer
  <2>4. /\ ScreenHas(u) /\ u.calls = t.calls /\ u.life = t.life /\ u.gen = t.gen /\ u.status = t.status /\ u.failed = t.failed \cup {q.gen}
        /\ u.selected = t.selected /\ u.complete = t.complete /\ u.keysRev = t.keysRev /\ u.sumRev = t.sumRev
        /\ u.total = t.total /\ u.trayRev = t.trayRev /\ u.entries = t.entries
    BY <1>6, <2>1 DEF ScreenHas
  <2>5. ScreenShape(u) /\ SameLife(t, u) /\ SameMarks(t, u)
    BY <1>7, <2>4, StatusFieldsOnly
  <2>6. Past(u, b) /\ (Told(b, ev) \/ StatusAnswers(u, b)) /\ u.gen \in u.failed
    BY <1>6, <1>8, <2>4 DEF Past, StatusAnswers
  <2>7. Told(b, ev) \/ (\E k \in u.calls : k.op = "status") \/ u.gen = b.tgen
    BY <1>2, <1>3, <1>6, <2>4 DEF StatusShown
  <2>8. Applied(u, v, "failed")
    BY <2>2, <2>5, ApplyStatusIs
  <2>9. StatusInv(v, b, ev)
    BY <2>6, <2>7, <2>8, StatusIsTaken
  <2>10. LifeInv(u, b, ev) /\ SelInv(u, b, ev)
    BY <1>8, <2>5, LifeStays, MarksStay
  <2> QED  BY <1>1, <1>2, <2>3, <2>8, <2>9, <2>10, LifeStays, MarksStay DEF InvOf, Applied
<1> QED  BY <1>9, <1>10, <1>11

LEMMA DeliverReplyKeepsInv == ASSUME PickerInv, NEW c \in scr.calls, DeliverReply(c) PROVE PickerInv'
<1>1. InvOf(scr, back, events)
  BY PickerInvIs
<1>2. c.reply # NoReply /\ (c.op \in {"status", "page"} => c.also # NoReply) /\ back' = back /\ events' = events
  BY DEF DeliverReply
<1>3. PICK s : s = Returned(scr, c)
  OBVIOUS
<1>4. scr' = CASE c.op = "status" -> StatusAnswer(s, c)
                 [] c.op = "newTarget" -> ApplyStatus(OnSelectionChanged(s, c.reply.sum), c.arg)
                 [] c.op = "selection" -> OnSelectionChanged(s, c.reply.sum)
                 [] c.op = "lifecycle" -> LifecycleAnswer(s, c)
                 [] c.op = "keys" -> KeysAnswer(s, c)
                 [] c.op = "page" -> PageAnswer(s, c)
                 [] c.op \in {"add", "remove"} -> ToggleAnswer(s, c)
                 [] c.op \in {"clear", "undo"} -> TrayAnswer(s, c)
                 [] c.op = "prepare" -> PrepareAnswer(s, c)
                 [] c.op = "cancel" -> CancelAnswer(s, c)
  BY <1>3 DEF DeliverReply, Returned
<1>5. CASE c.op = "status"
  BY <1>1, <1>2, <1>3, <1>4, <1>5, StatusAnswerKeepsInv, PickerInvIs
<1>6. CASE c.op = "newTarget"
  BY <1>1, <1>2, <1>3, <1>4, <1>6, NewTargetAnswerKeepsInv, PickerInvIs
<1>7. CASE c.op = "selection"
  BY <1>1, <1>2, <1>3, <1>4, <1>7, SelectionAnswerKeepsInv, PickerInvIs
<1>8. CASE c.op = "lifecycle"
  BY <1>1, <1>2, <1>3, <1>4, <1>8, LifecycleAnswerKeepsInv, PickerInvIs
<1>9. CASE c.op = "keys"
  BY <1>1, <1>2, <1>3, <1>4, <1>9, KeysAnswerKeepsInv, PickerInvIs
<1>10. CASE c.op = "page"
  BY <1>1, <1>2, <1>3, <1>4, <1>10, PageAnswerKeepsInv, PickerInvIs
<1>11. CASE c.op \in {"add", "remove"}
  BY <1>1, <1>2, <1>3, <1>4, <1>11, ToggleAnswerKeepsInv, PickerInvIs
<1>12. CASE c.op \in {"clear", "undo"}
  BY <1>1, <1>2, <1>3, <1>4, <1>12, TrayAnswerKeepsInv, PickerInvIs
<1>13. CASE c.op = "prepare"
  BY <1>1, <1>2, <1>3, <1>4, <1>13, PrepareAnswerKeepsInv, PickerInvIs
<1>14. CASE c.op = "cancel"
  BY <1>1, <1>2, <1>3, <1>4, <1>14, CancelAnswerKeepsInv, PickerInvIs
<1>15. c.op \in {"status", "newTarget", "selection", "lifecycle", "keys", "page", "add", "remove", "clear", "undo", "prepare", "cancel"}
  BY <1>1 DEF InvOf, ScreenShape, Operations
<1> QED  BY <1>5, <1>6, <1>7, <1>8, <1>9, <1>10, <1>11, <1>12, <1>13, <1>14, <1>15

LEMMA NoticeKeepsInv == ASSUME PickerInv, NEW e \in events, Notice(e) PROVE PickerInv'
<1>1. InvOf(scr, back, events) /\ ScreenShape(scr) /\ BackHas(back)
  BY PickerInvIs DEF InvOf
<1>2. PICK ev : ev = events \ {e}
  OBVIOUS
<1>3. events' = ev /\ back' = back /\ ev \subseteq events
  BY <1>2 DEF Notice
<1>4. /\ scr.gen \in Int /\ back.tgen \in Int /\ scr.gen <= back.tgen /\ Past(scr, back)
      /\ DraftParts(scr, back, events) /\ TrayRight(scr, back) /\ SumComes(scr, back, events) /\ MarksRight(scr, back, events)
  BY <1>1 DEF InvOf, StatusInv, Past, SelInv
<1>5. e.name # "lifecycle" => LifeInv(scr, back, ev)
  BY <1>1, <1>2 DEF InvOf, LifeInv
<1>6. e.name # "target" /\ (e.name = "catalog" => e.gen < scr.gen) => StatusInv(scr, back, ev)
  BY <1>1, <1>2, <1>4 DEF InvOf, StatusInv, Told
<1>7. e.name # "selection" => SelInv(scr, back, ev)
  <2>1. SUFFICES ASSUME e.name # "selection" PROVE SelInv(scr, back, ev)
    OBVIOUS
  <2>2. \A x \in events : x.name = "selection" => x \in ev
    BY <1>2, <2>1
  <2>3. Heard(scr, back, events) => Heard(scr, back, ev)
    BY <2>2 DEF Heard
  <2>4. SumsOK(scr, back, ev) /\ PagesOK(scr, back, ev)
    BY <1>4, <2>3 DEF DraftParts, SumsOK, PagesOK, UpToDate
  <2>5. Notices(scr, back, ev)
    BY <1>3, <1>4, <2>3 DEF DraftParts, Notices, UpToDate
  <2>6. SumComes(scr, back, ev)
    BY <1>4, <2>3 DEF SumComes
  <2>7. MarksRight(scr, back, ev)
    BY <1>4, <2>2 DEF MarksRight
  <2> QED  BY <1>4, <2>4, <2>5, <2>6, <2>7 DEF SelInv, DraftParts
<1>8. CASE e.name = "target"
  <2>1. PICK q : q = RefreshStatus(scr)
    OBVIOUS
  <2>2. InvOf(q, back, ev)
    BY <1>1, <1>4, <1>5, <1>7, <1>8, <2>1, RefreshKeepsInv
  <2>3. PICK t : t = ReloadSelection(q, FALSE)
    OBVIOUS
  <2>4. ScreenShape(t) /\ SameLife(q, t) /\ SameStatus(q, t) /\ SelInv(t, back, ev)
    BY <2>2, <2>3, ReloadSelectionIs DEF InvOf, SelInv
  <2>5. InvOf(t, back, ev)
    BY <2>2, <2>4, LifeStays, StatusStays DEF InvOf
  <2>6. scr' = t
    BY <1>8, <2>1, <2>3 DEF Notice
  <2> QED  BY <1>3, <2>5, <2>6, PickerInvIs
<1>9. CASE e.name = "catalog" /\ e.gen < scr.gen
  <2>1. scr' = scr
    BY <1>9 DEF Notice
  <2> QED  BY <1>1, <1>3, <1>5, <1>6, <1>7, <1>9, <2>1, PickerInvIs DEF InvOf
<1>10. CASE e.name = "catalog" /\ ~(e.gen < scr.gen)
  <2>1. scr' = RefreshStatus(scr)
    BY <1>10 DEF Notice
  <2> QED  BY <1>1, <1>3, <1>4, <1>5, <1>7, <1>10, <2>1, RefreshKeepsInv, PickerInvIs
<1>11. CASE e.name = "selection"
  <2>1. PICK sum : sum = [rev |-> e.rev, total |-> e.total, token |-> e.token]
    OBVIOUS
  <2>2. PICK t : t = OnSelectionChanged(scr, sum)
    OBVIOUS
  <2>3. scr' = t
    BY <1>11, <2>1, <2>2 DEF Notice
  <2>4. sum.rev = e.rev /\ sum.total = e.total
    BY <2>1
  <2>5. UpToDate(scr, back, events, sum)
    BY <1>4, <1>11, <2>4 DEF DraftParts, Notices, UpToDate, GoodSum
  <2>6. SelInv(t, back, ev)
    BY <1>1, <1>2, <1>3, <1>4, <2>2, <2>4, <2>5, SummaryIsTaken
  <2>7. ScreenShape(t) /\ SameLife(scr, t) /\ SameStatus(scr, t)
    BY <1>1, <2>2, OnSelectionChangedIs
  <2> QED  BY <1>1, <1>3, <1>5, <1>6, <1>11, <2>3, <2>6, <2>7, LifeStays, StatusStays, PickerInvIs DEF InvOf
<1>12. CASE e.name = "lifecycle"
  <2>1. scr' = RefreshLifecycle(scr)
    BY <1>12 DEF Notice
  <2>2. ScreenShape(scr') /\ SameStatus(scr, scr') /\ SameMarks(scr, scr') /\ LifeInv(scr', back, ev)
    BY <1>1, <2>1, RefreshLifecycleIs
  <2> QED  BY <1>1, <1>3, <1>6, <1>7, <1>12, <2>2, StatusStays, MarksStay, PickerInvIs DEF InvOf
<1>13. e.name \in {"target", "catalog", "selection", "lifecycle"}
  BY <1>4 DEF DraftParts, Notices
<1> QED  BY <1>8, <1>9, <1>10, <1>11, <1>12, <1>13

LEMMA PickerInit_Inv == PickerInit => PickerInv
<1> SUFFICES ASSUME PickerInit PROVE PickerInv
  OBVIOUS
<1>1. PICK state \in {"none", "not-built", "ready"}, drafted \in SUBSET Names :
        back = [tgen |-> IF state = "none" THEN 0 ELSE 1, state |-> state, busy |-> FALSE, sel |-> drafted, rev |-> 1 + Cardinality(drafted),
                undo |-> [token |-> NoToken, sel |-> {}], acts |-> 0]
  BY DEF PickerInit
<1>2. events = {} /\ scr = AfterShow(Mounted, back.tgen)
  BY DEF PickerInit
<1>3. Cardinality(drafted) \in Nat
  BY PickerAssumption, FS_Subset, FS_CardinalityType
<1>4. /\ BackHas(back) /\ back.tgen \in Int /\ 0 <= back.tgen /\ back.sel = drafted /\ back.rev = 1 + Cardinality(drafted)
      /\ back.undo.sel = {}
  BY <1>1 DEF BackHas
<1>5. Draft(back)
  BY <1>3, <1>4 DEF Draft
<1>6. PICK m : m = Mounted
  OBVIOUS
<1>7. /\ ScreenHas(m) /\ m.calls = {} /\ m.gen = -1 /\ m.keysRev = -1 /\ m.sumRev = -1 /\ m.trayRev = 0 /\ m.entries = {}
  BY <1>6 DEF Mounted, ScreenHas, Unset
<1>8. ScreenShape(m)
  BY <1>7 DEF ScreenShape
<1>9. DraftParts(m, back, events)
  BY <1>2, <1>3, <1>4, <1>5, <1>7 DEF DraftParts, Numbers, SumsOK, KeysOK, PagesOK, Notices
<1>10. TrayRight(m, back)
  BY <1>3, <1>4, <1>7 DEF TrayRight
<1> QED  BY <1>2, <1>4, <1>6, <1>7, <1>8, <1>9, <1>10, AfterShowIs DEF PickerInv

LEMMA PickerStep == PickerInv /\ [PickerNext]_pvars => PickerInv'
<1> SUFFICES ASSUME PickerInv, [PickerNext]_pvars PROVE PickerInv'
  OBVIOUS
<1>1. CASE Operator
  <2>1. CASE Clear
    BY <2>1, TrayMutateKeepsInv DEF Clear
  <2>2. CASE Undo
    BY <2>2, TrayMutateKeepsInv DEF Undo
  <2> QED  BY <1>1, <2>1, <2>2, ShowKeepsInv, HideKeepsInv, PrepareKeepsInv, CancelPreparationKeepsInv, ToggleKeepsInv DEF Operator
<1>2. CASE \E c \in scr.calls : Look(c) \/ LookAlso(c) \/ Mutate(c) \/ Build(c) \/ StopBuild(c) \/ DeliverReply(c)
  BY <1>2, LookKeepsInv, LookAlsoKeepsInv, MutateKeepsInv, BuildKeepsInv, StopBuildKeepsInv, DeliverReplyKeepsInv
<1>3. CASE \E e \in events : Notice(e)
  BY <1>3, NoticeKeepsInv
<1>4. CASE PollStatus \/ ChangeTarget \/ CatalogProgress \/ CatalogEnds \/ JobStartsOrEnds
  BY <1>4, PollStatusKeepsInv, ChangeTargetKeepsInv, CatalogProgressKeepsInv, CatalogEndsKeepsInv, JobStartsOrEndsKeepsInv
<1>5. CASE UNCHANGED pvars
  BY <1>5 DEF pvars, PickerInv
<1> QED  BY <1>1, <1>2, <1>3, <1>4, <1>5 DEF PickerNext

LEMMA QuietByInv == PickerInv => QuietScreenIsTrue
<1> SUFFICES ASSUME PickerInv, Settled PROVE
      /\ scr.selected = back.sel /\ scr.entries = back.sel /\ scr.total = Cardinality(back.sel)
      /\ scr.gen = back.tgen /\ (scr.gen \notin scr.failed => scr.status = back.state)
      /\ scr.life = IF back.busy THEN "busy" ELSE "free"
  BY DEF QuietScreenIsTrue
<1>1. events = {} /\ scr.calls = {}
  BY DEF Settled
<1>2. scr.life = IF back.busy THEN "busy" ELSE "free"
  BY <1>1 DEF PickerInv, LifeInv, Word
<1>3. scr.gen = back.tgen /\ (scr.gen \notin scr.failed => scr.status = back.state)
  BY <1>1 DEF PickerInv, StatusInv, Told, StatusShown
<1>4. Heard(scr, back, events)
  BY <1>1 DEF PickerInv, SelInv, SumComes
<1>5. scr.sumRev = back.rev
  BY <1>1, <1>4 DEF Heard
<1>6. scr.total = Cardinality(back.sel) /\ scr.trayRev = back.rev
  BY <1>5 DEF PickerInv, SelInv, DraftParts, Numbers, Draft
<1>7. scr.entries = back.sel
  BY <1>1, <1>6 DEF PickerInv, SelInv, TrayRight
<1>8. scr.selected \subseteq Names /\ \A m \in Names : m \in scr.selected <=> m \in back.sel
  BY <1>1 DEF PickerInv, SelInv, MarksRight, Open
<1>9. back.sel \subseteq Names
  BY DEF PickerInv, SelInv, DraftParts, Draft
<1> QED  BY <1>2, <1>3, <1>6, <1>7, <1>8, <1>9

(* However calls, answers and events overlap, are overtaken or come late:     *)
(* once nothing is under way, the picker shows the draft, the target, the     *)
(* catalogue's status and the edit lock that the application has              *)
(* (picker-list.js, picker-tray.js).                                          *)
THEOREM QuietPickerIsTrue == PickerSpec => []QuietScreenIsTrue
<1>1. PickerSpec => []PickerInv
  BY PickerInit_Inv, PickerStep, PTL DEF PickerSpec
<1> QED  BY <1>1, QuietByInv, PTL
=============================================================================
