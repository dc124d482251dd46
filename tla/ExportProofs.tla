---------------------------- MODULE ExportProofs ----------------------------
(* What Export promises, proved for every bundle, drive and course of events; *)
(* the drives it offers, for any mount table; the system check and its screen, *)
(* for any machines and hosts; and the events of a build, for any lines and    *)
(* reads.                                                                     *)
EXTENDS Export, Readiness, Volumes, EventTailer, FiniteSetTheorems, WellFoundedInduction, TLAPS

\* What the absence of the marker vouches for.
Whole(m) ==
    /\ m = "never" => disk = Empty
    /\ m = "verified" => disk = vouched
    /\ m = "skipped" => \A n \in Names : disk[n] = None <=> vouched[n] = None

\* The marker as it is seen, and as it would be if the drive were pulled out.
\* Both are there while files change.
MarkInv ==
    /\ Whole(marker)
    /\ Whole(durable)
    /\ pc \in {"copy", "clear", "verify"} => marker = "present" /\ durable = "present"
    /\ pc = "sync" => marker = "present"
    /\ current # None => pc = "copy"
    /\ marker = "replacing" => pc \in {"idle", "planned", "marker"}
    /\ marker = "replacing" \/ durable = "replacing" =>
          pc \in {"idle", "planned", "marker", "sync"} /\ answer \in {"none", "error"}

\* How far the loops of Run and Verify have come.
ProgressInv ==
    /\ pc # "idle" => answer = "none"
    /\ pc = "idle" => todo = {} /\ \A n \in Names : sums[n] = None
    /\ \A n \in Names : plan[n] = None => sums[n] = None
    /\ \A n \in todo : plan[n] # None
    /\ current # None => current \in todo
    /\ pc \in {"marker", "sync", "copy", "clear", "verify", "removed"} =>
          \A n \in Names : plan[n] = None => disk[n] = None
    /\ pc \in {"copy", "clear"} =>
          \A n \in Listed \ todo : sums[n] # None /\ disk[n] # None
    /\ pc = "clear" => todo = {}
    /\ pc = "verify" =>
          \A n \in Listed \ todo : n \in bad \/ (sums[n] # None /\ disk[n] = sums[n])
    /\ pc = "removed" =>
          /\ disk = sums
          /\ \A n \in Listed : sums[n] # None

\* What was read is what the bundle holds, unless it was rebuilt since Plan.
SourceInv ==
    pc # "idle" /\ ~touched =>
        \A n \in Names :
            /\ plan[n] = None <=> src[n] = None
            /\ sums[n] # None => sums[n] = src[n]

IInv == TypeOK /\ MarkInv /\ ProgressInv /\ SourceInv
-----------------------------------------------------------------------------
LEMMA InitIInv == Init => IInv
<1> SUFFICES ASSUME Init PROVE IInv
  OBVIOUS
<1> USE ConstantsAssumption DEF Init
<1>1. TypeOK
  <2>1. /\ disk \in [Names -> Contents \cup {Torn, None}]
        /\ vouched \in [Names -> Contents \cup {None}]
        /\ plan \in [Names -> Nat \cup {None}]
        /\ sums \in [Names -> Contents \cup {None}]
    BY DEF Empty
  <2>2. touched \in BOOLEAN /\ skip \in BOOLEAN
    OBVIOUS
  <2> QED BY <2>1, <2>2 DEF TypeOK, Markers
<1> USE DEF Empty
<1>2. MarkInv
  BY DEF MarkInv, Whole
<1>3. ProgressInv
  BY DEF ProgressInv, Listed
<1>4. SourceInv
  BY DEF SourceInv
<1> QED BY <1>1, <1>2, <1>3, <1>4 DEF IInv

\* Export returns: its call is over, whatever the outcome.
LEMMA ReturnType ==
    ASSUME TypeOK, NEW result \in {"none", "complete", "skipped", "error"}, Return(result)
    PROVE  /\ plan' \in [Names -> Nat \cup {None}]
           /\ skip' \in BOOLEAN
           /\ todo' \subseteq Names
           /\ current' \in Names \cup {None}
           /\ sums' \in [Names -> Contents \cup {None}]
           /\ bad' \subseteq Names
           /\ pc' = "idle"
           /\ answer' \in {"none", "complete", "skipped", "error"}
  BY DEF Return, Empty

\* Every step keeps the types.
LEMMA NextTypeOK == TypeOK /\ [Next]_vars => TypeOK'
<1> SUFFICES ASSUME TypeOK, [Next]_vars PROVE TypeOK'
  OBVIOUS
<1> USE ConstantsAssumption DEF TypeOK, Goto, bundle, drive, call, Markers
<1>1. ASSUME NEW s \in BOOLEAN, Plan(s) PROVE TypeOK'
  <2>1. plan' \in [Names -> Nat \cup {None}]
    BY <1>1 DEF Plan, Bundles
  <2> QED BY <1>1, <2>1 DEF Plan
<1>2. ASSUME RemoveMarker PROVE TypeOK'
  BY <1>2 DEF RemoveMarker
<1>3. ASSUME CreateMarker PROVE TypeOK'
  BY <1>3 DEF CreateMarker
<1>4. ASSUME SyncMarker PROVE TypeOK'
  BY <1>4 DEF SyncMarker, Listed
<1>5. ASSUME NEW n \in Names, OpenFile(n) PROVE TypeOK'
  BY <1>5 DEF OpenFile
<1>6. ASSUME CopyFile PROVE TypeOK'
  <2>1. src[current] \in Contents
    BY <1>6 DEF CopyFile, Bundles
  <2>2. disk' \in [Names -> Contents \cup {Torn, None}]
    BY <1>6, <2>1 DEF CopyFile
  <2>3. sums' \in [Names -> Contents \cup {None}]
    BY <1>6, <2>1 DEF CopyFile
  <2> QED BY <1>6, <2>2, <2>3 DEF CopyFile
<1>7. ASSUME Flush PROVE TypeOK'
  BY <1>7 DEF Flush, Listed
<1>8. ASSUME ClearUnverified PROVE TypeOK'
  BY <1>8, ReturnType DEF ClearUnverified
<1>9. ASSUME NEW n \in Names, VerifyOne(n) PROVE TypeOK'
  BY <1>9 DEF VerifyOne
<1>10. ASSUME ClearVerified PROVE TypeOK'
  BY <1>10 DEF ClearVerified
<1>11. ASSUME Complete PROVE TypeOK'
  BY <1>11, ReturnType DEF Complete
<1>12. ASSUME Fails PROVE TypeOK'
  <2>1. disk' \in [Names -> Contents \cup {Torn, None}]
    BY <1>12 DEF Fails
  <2> QED BY <1>12, <2>1, ReturnType DEF Fails
<1>13. ASSUME Killed PROVE TypeOK'
  BY <1>13, ReturnType DEF Killed
<1>14. ASSUME PulledOut PROVE TypeOK'
  <2>1. disk' \in [Names -> Contents \cup {Torn, None}]
    BY <1>14 DEF PulledOut
  <2>2. (IF pc = "idle" THEN answer ELSE "error") \in {"none", "complete", "skipped", "error"}
    OBVIOUS
  <2> QED BY <1>14, <2>1, <2>2, ReturnType DEF PulledOut
<1>15. ASSUME Wipe PROVE TypeOK'
  BY <1>15 DEF Wipe, Empty
<1>16. ASSUME NEW b \in Bundles, Rebuild(b) PROVE TypeOK'
  BY <1>16 DEF Rebuild
<1>17. CASE UNCHANGED vars
  BY <1>17 DEF vars, Bundles
<1> QED
  BY <1>1, <1>2, <1>3, <1>4, <1>5, <1>6, <1>7, <1>8, <1>9, <1>10, <1>11, <1>12, <1>13,
     <1>14, <1>15, <1>16, <1>17 DEF Next, Run, Verify

\* The absence of the marker, seen or durable, goes on vouching for the files.
LEMMA NextMarkInv == IInv /\ [Next]_vars => MarkInv'
<1> SUFFICES ASSUME IInv, [Next]_vars PROVE MarkInv'
  OBVIOUS
<1> USE ConstantsAssumption DEF IInv, TypeOK, MarkInv, Whole, Goto, bundle, drive, call
<1>1. ASSUME NEW s \in BOOLEAN, Plan(s) PROVE MarkInv'
  BY <1>1 DEF Plan
<1>2. ASSUME RemoveMarker PROVE MarkInv'
  BY <1>2 DEF RemoveMarker, ProgressInv
<1>3. ASSUME CreateMarker PROVE MarkInv'
  BY <1>3 DEF CreateMarker
<1>4. ASSUME SyncMarker PROVE MarkInv'
  BY <1>4 DEF SyncMarker
<1>5. ASSUME NEW n \in Names, OpenFile(n) PROVE MarkInv'
  BY <1>5 DEF OpenFile
<1>6. ASSUME CopyFile PROVE MarkInv'
  BY <1>6 DEF CopyFile
<1>7. ASSUME Flush PROVE MarkInv'
  <2>1. pc = "copy" /\ current' = current /\ pc' \in {"clear", "verify"}
    BY <1>7 DEF Flush
  <2>2. current = None
    BY <1>7, <2>1 DEF Flush, ProgressInv
  <2> QED BY <1>7, <2>1, <2>2 DEF Flush
<1>8. ASSUME ClearUnverified PROVE MarkInv'
  <2>1. \A n \in Names : disk[n] = None <=> sums[n] = None
    BY <1>8 DEF ClearUnverified, ProgressInv, Listed
  <2> QED BY <1>8, <2>1 DEF ClearUnverified, Return
<1>9. ASSUME NEW n \in Names, VerifyOne(n) PROVE MarkInv'
  BY <1>9 DEF VerifyOne
<1>10. ASSUME ClearVerified PROVE MarkInv'
  <2>1. \A n \in Names : disk[n] = sums[n]
    BY <1>10 DEF ClearVerified, ProgressInv, Listed
  <2>2. disk = sums
    BY <2>1
  <2> QED BY <1>10, <2>2 DEF ClearVerified
<1>11. ASSUME Complete PROVE MarkInv'
  BY <1>11 DEF Complete, Return
<1>12. ASSUME Fails PROVE MarkInv'
  <2>1. disk' # disk => marker = "present" /\ durable = "present"
    BY <1>12 DEF Fails
  <2> QED BY <1>12, <2>1 DEF Fails, Return
<1>13. ASSUME Killed PROVE MarkInv'
  BY <1>13 DEF Killed, Return
<1>14. ASSUME PulledOut PROVE MarkInv'
  <2>1. disk' # disk => marker = "present" /\ durable = "present"
    BY <1>14 DEF PulledOut
  <2> QED BY <1>14, <2>1 DEF PulledOut, Return
<1>15. ASSUME Wipe PROVE MarkInv'
  BY <1>15 DEF Wipe
<1>16. ASSUME NEW b \in Bundles, Rebuild(b) PROVE MarkInv'
  BY <1>16 DEF Rebuild
<1>17. CASE UNCHANGED vars
  BY <1>17 DEF vars
<1> QED
  BY <1>1, <1>2, <1>3, <1>4, <1>5, <1>6, <1>7, <1>8, <1>9, <1>10, <1>11, <1>12, <1>13,
     <1>14, <1>15, <1>16, <1>17 DEF Next, Run, Verify

\* The loops advance file by file.
LEMMA NextProgressInv == IInv /\ [Next]_vars => ProgressInv'
<1> SUFFICES ASSUME IInv, [Next]_vars PROVE ProgressInv'
  OBVIOUS
<1> USE ConstantsAssumption DEF IInv, TypeOK, MarkInv, ProgressInv, Listed, Goto, bundle, drive, call
<1>1. ASSUME NEW s \in BOOLEAN, Plan(s) PROVE ProgressInv'
  BY <1>1 DEF Plan
<1>2. ASSUME RemoveMarker PROVE ProgressInv'
  BY <1>2 DEF RemoveMarker, EntriesAllowed
<1>3. ASSUME CreateMarker PROVE ProgressInv'
  BY <1>3 DEF CreateMarker
<1>4. ASSUME SyncMarker PROVE ProgressInv'
  BY <1>4 DEF SyncMarker
<1>5. ASSUME NEW n \in Names, OpenFile(n) PROVE ProgressInv'
  BY <1>5 DEF OpenFile
<1>6. ASSUME CopyFile PROVE ProgressInv'
  BY <1>6 DEF CopyFile
<1>7. ASSUME Flush PROVE ProgressInv'
  BY <1>7 DEF Flush
<1>8. ASSUME ClearUnverified PROVE ProgressInv'
  BY <1>8 DEF ClearUnverified, Return, Empty
<1>9. ASSUME NEW n \in Names, VerifyOne(n) PROVE ProgressInv'
  BY <1>9 DEF VerifyOne, Matches
<1>10. ASSUME ClearVerified PROVE ProgressInv'
  BY <1>10 DEF ClearVerified
<1>11. ASSUME Complete PROVE ProgressInv'
  BY <1>11 DEF Complete, Return, Empty
<1>12. ASSUME Fails PROVE ProgressInv'
  BY <1>12 DEF Fails, Return, Empty
<1>13. ASSUME Killed PROVE ProgressInv'
  BY <1>13 DEF Killed, Return, Empty
<1>14. ASSUME PulledOut PROVE ProgressInv'
  BY <1>14 DEF PulledOut, Return, Empty
<1>15. ASSUME Wipe PROVE ProgressInv'
  BY <1>15 DEF Wipe
<1>16. ASSUME NEW b \in Bundles, Rebuild(b) PROVE ProgressInv'
  BY <1>16 DEF Rebuild
<1>17. CASE UNCHANGED vars
  BY <1>17 DEF vars
<1> QED
  BY <1>1, <1>2, <1>3, <1>4, <1>5, <1>6, <1>7, <1>8, <1>9, <1>10, <1>11, <1>12, <1>13,
     <1>14, <1>15, <1>16, <1>17 DEF Next, Run, Verify

\* What was read stays what the bundle holds until it is rebuilt.
LEMMA NextSourceInv == IInv /\ [Next]_vars => SourceInv'
<1> SUFFICES ASSUME IInv, [Next]_vars PROVE SourceInv'
  OBVIOUS
<1> USE ConstantsAssumption DEF IInv, TypeOK, SourceInv, Goto, bundle, drive, call
<1>1. ASSUME NEW s \in BOOLEAN, Plan(s) PROVE SourceInv'
  <2>1. \A n \in Names : sums'[n] = None
    BY <1>1 DEF Plan, ProgressInv
  <2>2. \A n \in Names : src'[n] = src[n] /\ (plan'[n] = None <=> src[n] = None)
    BY <1>1 DEF Plan, Bundles
  <2> QED BY <2>1, <2>2
<1>2. ASSUME RemoveMarker PROVE SourceInv'
  BY <1>2 DEF RemoveMarker
<1>3. ASSUME CreateMarker PROVE SourceInv'
  BY <1>3 DEF CreateMarker
<1>4. ASSUME SyncMarker PROVE SourceInv'
  BY <1>4 DEF SyncMarker
<1>5. ASSUME NEW n \in Names, OpenFile(n) PROVE SourceInv'
  BY <1>5 DEF OpenFile
<1>6. ASSUME CopyFile PROVE SourceInv'
  BY <1>6 DEF CopyFile
<1>7. ASSUME Flush PROVE SourceInv'
  BY <1>7 DEF Flush
<1>8. ASSUME ClearUnverified PROVE SourceInv'
  BY <1>8 DEF ClearUnverified, Return
<1>9. ASSUME NEW n \in Names, VerifyOne(n) PROVE SourceInv'
  BY <1>9 DEF VerifyOne
<1>10. ASSUME ClearVerified PROVE SourceInv'
  BY <1>10 DEF ClearVerified
<1>11. ASSUME Complete PROVE SourceInv'
  BY <1>11 DEF Complete, Return
<1>12. ASSUME Fails PROVE SourceInv'
  BY <1>12 DEF Fails, Return
<1>13. ASSUME Killed PROVE SourceInv'
  BY <1>13 DEF Killed, Return
<1>14. ASSUME PulledOut PROVE SourceInv'
  BY <1>14 DEF PulledOut, Return
<1>15. ASSUME Wipe PROVE SourceInv'
  BY <1>15 DEF Wipe
<1>16. ASSUME NEW b \in Bundles, Rebuild(b) PROVE SourceInv'
  BY <1>16 DEF Rebuild
<1>17. CASE UNCHANGED vars
  BY <1>17 DEF vars
<1> QED
  BY <1>1, <1>2, <1>3, <1>4, <1>5, <1>6, <1>7, <1>8, <1>9, <1>10, <1>11, <1>12, <1>13,
     <1>14, <1>15, <1>16, <1>17 DEF Next, Run, Verify
-----------------------------------------------------------------------------
(* The theorems. *)

\* The inductive invariant: it holds of every state that exports, failures and
\* pulled drives reach.
THEOREM Invariance == Spec => []IInv
<1>1. IInv /\ [Next]_vars => IInv'
  BY NextTypeOK, NextMarkInv, NextProgressInv, NextSourceInv DEF IInv
<1> QED BY InitIInv, <1>1, PTL DEF Spec

\* Type correctness of an export and its destination.
THEOREM TypeCorrect == Spec => []TypeOK
<1>1. IInv => TypeOK
  BY DEF IInv
<1> QED BY Invariance, <1>1, PTL

\* Every way in which a destination can be without the marker: it was never
\* exported to, or it holds what Run read of the bundle, exactly if Verify removed
\* the marker, or Run was about to write the marker anew and no file has changed
\* since it was there.
THEOREM UnmarkedWhole == Spec => []UnmarkedIsWhole
<1>1. IInv => UnmarkedIsWhole
  BY DEF IInv, TypeOK, Markers, MarkInv, Whole, UnmarkedIsWhole
<1> QED BY Invariance, <1>1, PTL

\* Run, its failures and a pulled drive change files only under a marker that is
\* on the medium.
THEOREM MarkedWhileChanging == Spec => FilesChangeUnderMarker
<1>1. IInv /\ [Next]_vars =>
        [disk' # disk /\ ~Wipe => marker = "present" /\ durable = "present"]_vars
  <2> SUFFICES ASSUME IInv, [Next]_vars, disk' # disk, ~Wipe
               PROVE  marker = "present" /\ durable = "present"
    OBVIOUS
  <2>1. pc = "copy" \/ current # None
    BY DEF Next, Run, Verify, Plan, RemoveMarker, CreateMarker, SyncMarker, OpenFile, CopyFile,
       Flush, ClearUnverified, VerifyOne, ClearVerified, Complete, Fails, Killed, PulledOut,
       Rebuild, drive, vars
  <2> QED BY <2>1 DEF IInv, MarkInv
<1> QED BY Invariance, <1>1, PTL DEF Spec, FilesChangeUnderMarker

\* Export answers complete only of an exact copy of the bundle it was asked to
\* export, whatever was at the destination before.
THEOREM CompleteIsExact == Spec => CompleteIsTheBundle
<1>1. IInv /\ [Next]_vars =>
        [pc # "idle" /\ answer' = "complete" /\ ~touched => disk' = src]_vars
  <2> SUFFICES ASSUME IInv, [Next]_vars, pc # "idle", answer' = "complete", ~touched
               PROVE  disk' = src
    OBVIOUS
  <2>1. answer = "none"
    BY DEF IInv, ProgressInv
  <2>2. Complete
    BY <2>1 DEF Next, Run, Verify, Plan, RemoveMarker, CreateMarker, SyncMarker, OpenFile,
       CopyFile, Flush, ClearUnverified, VerifyOne, ClearVerified, Fails, Killed, PulledOut,
       Wipe, Rebuild, Goto, Return, vars
  <2>3. disk' = disk /\ disk = sums /\ \A n \in Names : plan[n] # None => sums[n] # None
    BY <2>2 DEF Complete, IInv, ProgressInv, Listed
  <2>4. \A n \in Names : sums[n] = src[n]
    BY <2>3 DEF IInv, ProgressInv, SourceInv
  <2>5. sums \in [Names -> Contents \cup {None}] /\ src \in [Names -> Contents \cup {None}]
    BY DEF IInv, TypeOK, Bundles
  <2> QED BY <2>3, <2>4, <2>5
<1> QED BY Invariance, <1>1, PTL DEF Spec, CompleteIsTheBundle

-----------------------------------------------------------------------------

(***************************************************************************)
(* The system check                                                        *)
(***************************************************************************)
ChecksOf(h) == {"debark", "container", "signing-key", "disk-space"} \cup Platform(h)
CheckRow == [is : {"ok", "skipped", "info", "degraded", "blocking"}, runs : BOOLEAN]

\* Rows of a host: none, or one of every check with the verdict derived from them.
FullReport(h) == {rows \in [ChecksOf(h) \cup {Environment} -> CheckRow] : rows[Environment] = DeriveBuildEnvironment(rows)}
ReportOf(h) == FullReport(h) \cup {NoRows}

CheckEvent(h) ==
  {e \in [name : {"started", "progress", "done", "finished"}, id : ChecksOf(h) \cup {NoCheck},
          rows : ReportOf(h), cancelled : BOOLEAN] :
     /\ e.name \in {"progress", "done"} => e.rows = NoRows /\ e.id # NoCheck
     /\ e.name = "finished" => e.rows # NoRows}

MachineFields == {"bin", "apt", "docker", "podman", "named", "config", "siblings", "program", "key", "disk", "wsl"}
MachineOK(m) == DOMAIN m = MachineFields /\ Len(m.siblings) \in Nat /\ DOMAIN m.siblings = 1..Len(m.siblings)

\* A job: a pass asks every check, a re-check and a remedy ask of rows there are.
CheckJobOK(h, r) ==
  \/ r.job = NoJobRun
  \/ /\ DOMAIN r.job = {"op", "ids", "answers", "acted", "cancelled"}
     /\ r.job.op \in {"pass", "recheck", "act"} /\ r.job.cancelled \in BOOLEAN
     /\ r.job.op = "pass" => r.job.ids = ChecksOf(h)
     /\ r.job.op # "pass" => r.rows # NoRows /\ \E id \in ChecksOf(h) : r.job.ids = {id}
     /\ r.job.answers \in [DOMAIN r.job.answers -> CheckRow] /\ DOMAIN r.job.answers \subseteq r.job.ids

CheckedOK(h, r) ==
  /\ DOMAIN r = {"rows", "checking", "running", "job"}
  /\ r.rows \in ReportOf(h) /\ r.checking \in BOOLEAN /\ r.running \in ChecksOf(h) \cup {NoCheck}
  /\ CheckJobOK(h, r)

\* What was told of rows is told of rows the application has, or had.
ToldOK(h, r, es) ==
  /\ es \in Seq(CheckEvent(h))
  /\ \A i \in 1..Len(es) : es[i].rows # NoRows \/ es[i].name \in {"progress", "done"} => r.rows # NoRows

ReadGot(h, r, got) ==
  /\ DOMAIN got = {"is", "rows", "checking", "running"} /\ got.is = "report"
  /\ got.rows \in ReportOf(h) /\ (got.rows # NoRows => r.rows # NoRows)
  /\ got.checking \in BOOLEAN /\ got.running \in ChecksOf(h) \cup {NoCheck}

CheckCallOK(h, r, c) ==
  /\ DOMAIN c = {"op", "id", "got"}
  /\ c.op \in {"boot", "read", "start", "startIfEmpty", "recheck", "act", "cancel"}
  /\ c.op \in {"recheck", "act"} => c.id \in ChecksOf(h) /\ r.rows # NoRows
  /\ c.op = "read" => c.got = Nothing \/ ReadGot(h, r, c.got)
  /\ c.op # "read" => c.got \in {Nothing, Accepted, Refused}

CheckScreenOK(h, r, s) ==
  /\ DOMAIN s = {"mounted", "visible", "rows", "checking", "running", "starting", "started", "cancelled", "consent", "calls"}
  /\ s.mounted \in BOOLEAN /\ s.visible \in BOOLEAN /\ s.checking \in BOOLEAN /\ s.starting \in BOOLEAN
  /\ s.started \in BOOLEAN /\ s.cancelled \in BOOLEAN
  /\ s.rows \in ReportOf(h) /\ (s.rows # NoRows => r.rows # NoRows)
  /\ s.running \in ChecksOf(h) \cup {NoCheck}
  /\ s.consent # NoCheck => s.consent \in ChecksOf(h) /\ r.rows # NoRows
  /\ \A c \in s.calls : CheckCallOK(h, r, c)

RowsInv ==
  /\ host \in Hosts /\ MachineOK(mach) /\ CheckedOK(host, rd)
  /\ ToldOK(host, rd, late) /\ ToldOK(host, rd, told) /\ CheckScreenOK(host, rd, rs)

-----------------------------------------------------------------------------
\* What the screen shows once nothing is under way.
Ends(es, i) == es[i].name = "finished"
SomeEnd(es) == \E i \in 1..Len(es) : Ends(es, i)
SomeRows(es) == \E i \in 1..Len(es) : es[i].rows # NoRows

\* The end of the last job that is still to be told.
LateIs(r, l) ==
  \/ l = <<>>
  \/ /\ Len(l) \in 1..2 /\ l[Len(l)].name = "finished" /\ l[Len(l)].rows = r.rows
     /\ Len(l) = 2 => l[1].name = "done"

ToldIs(r, l, t) ==
  /\ l = <<>> => \A i \in 1..Len(t) :
       t[i].rows # NoRows /\ (\A j \in 1..Len(t) : i < j => t[j].rows = NoRows) => t[i].rows = r.rows
  /\ l = <<>> => \A i \in 1..Len(t) :
       /\ t[i].name = "started" /\ t[i].rows = NoRows => r.rows = NoRows \/ \E j \in 1..Len(t) : i < j /\ Ends(t, j)
       /\ t[i].name = "done" => \E j \in 1..Len(t) : i < j /\ Ends(t, j)
       /\ t[i].name \in {"started", "progress"} => r.job # NoJobRun \/ \E j \in 1..Len(t) : i < j /\ Ends(t, j)

\* A first read of an application with nothing to tell is on its way.
FirstRead(t, s) ==
  /\ t = <<>> /\ s.rows = NoRows /\ s.consent = NoCheck
  /\ \E c \in s.calls : c.op = "read"
  /\ \A c \in s.calls : c.op \notin {"recheck", "act"}

\* The end of a job is still to come to the screen.
EndComes(r, l, t) == r.job # NoJobRun \/ l # <<>> \/ SomeEnd(t)

Unmounted(r, l, t, s) ==
  /\ ~s.visible /\ s.rows = NoRows /\ ~InUse(s) /\ s.consent = NoCheck /\ ~s.cancelled
  /\ \A c \in s.calls : c.op \notin {"read", "recheck", "act"}
  /\ \A i \in 1..Len(t) : t[i].name \in {"started", "finished"}
  /\ Len(l) <= 1
  /\ r.job = NoJobRun \/ r.job.op = "pass"

\* Rows are still to come to the screen.
RowsCome(l, t) == l # <<>> \/ SomeRows(t)

ShowsRows(r, l, t, s) == s.mounted => RowsCome(l, t) \/ s.rows = r.rows \/ FirstRead(t, s)

\* A call whose answer ends what the screen waits for, or starts a job that does.
Settles(c) ==
  \/ c.op = "read"
  \/ (c.op = "startIfEmpty" /\ c.got = Nothing)
  \/ (c.op \in {"start", "recheck", "act"} /\ c.got \in {Nothing, Refused})
UseEnds(r, l, t, s) == InUse(s) => EndComes(r, l, t) \/ \E c \in s.calls : Settles(c)

\* An answer to a read, as long as it may be heard.
ReadIs(r, l, t, s, c) ==
  /\ RowsCome(l, t) \/ c.got.rows = r.rows
  /\ c.got.checking \/ c.got.running # NoCheck => EndComes(r, l, t)
  /\ s.cancelled => c.got.rows # NoRows
ReadsAre(r, l, t, s) == \A c \in s.calls : c.op = "read" /\ c.got # Nothing => ReadIs(r, l, t, s, c)

ShownIs(r, l, t, s) ==
  /\ ~s.mounted => Unmounted(r, l, t, s)
  /\ ShowsRows(r, l, t, s) /\ UseEnds(r, l, t, s) /\ ReadsAre(r, l, t, s)
  /\ s.cancelled => r.rows # NoRows
  /\ r.checking => r.job # NoJobRun /\ r.job.op = "pass"
  /\ r.running # NoCheck => r.job # NoJobRun

QuietInv == RowsInv /\ LateIs(rd, late) /\ ToldIs(rd, late, told) /\ ShownIs(rd, late, told, rs)

-----------------------------------------------------------------------------
LEMMA NatLess == IsWellFoundedOn({p \in Nat \X Nat : p[1] < p[2]}, Nat)
<1>1. OpToRel(<, Nat) = {p \in Nat \X Nat : p[1] < p[2]} BY Zenon DEF OpToRel
<1> QED BY <1>1, NatLessThanWellFounded

LEMMA HasLeast ==
  ASSUME NEW S, S \subseteq Nat, S # {}
  PROVE  \E x \in S : \A y \in S : x <= y
<1>1. PICK R : R = {p \in Nat \X Nat : p[1] < p[2]} OBVIOUS
<1>2. PICK x \in S : \A y \in S : <<y, x>> \notin R BY <1>1, NatLess, WFMin
<1>3. ASSUME NEW y \in S PROVE x <= y
  <2>1. x \in Nat /\ y \in Nat /\ <<y, x>> \in Nat \X Nat OBVIOUS
  <2>2. ~(y < x) BY <1>1, <1>2, <2>1
  <2> QED BY <2>1, <2>2
<1> QED BY <1>3

(***************************************************************************)
(* The rows                                                                *)
(***************************************************************************)
LEMMA ChecksAre ==
  ASSUME NEW h \in Hosts
  PROVE  /\ Environment \notin ChecksOf(h) /\ NoCheck \notin ChecksOf(h) /\ NoCheck # Environment
         /\ "debark" \in ChecksOf(h) /\ "container" \in ChecksOf(h)
         /\ "apt" \in ChecksOf(h) <=> h = "linux"
         /\ "self-binary" \in ChecksOf(h) <=> h # "linux"
         /\ \A id \in ChecksOf(h) : id \in {"debark", "container", "signing-key", "disk-space", "apt", "wsl", "self-binary"}
<1>1. h \in {"linux", "windows", "other"} BY ReadinessAssumption
<1>2. CASE h = "linux" BY <1>2, ReadinessAssumption DEF ChecksOf, Platform, Environment
<1>3. CASE h = "windows" BY <1>3, ReadinessAssumption DEF ChecksOf, Platform, Environment
<1>4. CASE h = "other" BY <1>4, ReadinessAssumption DEF ChecksOf, Platform, Environment
<1> QED BY <1>1, <1>2, <1>3, <1>4

LEMMA RowsAreRows ==
  /\ RowOk \in CheckRow /\ RowSkipped \in CheckRow
  /\ \A v \in {"ok", "skipped", "info", "degraded", "blocking"}, b \in BOOLEAN : Problem(v, b) \in CheckRow
BY DEF RowOk, RowSkipped, Problem, CheckRow

LEMMA RowSays ==
  /\ RowOk.is = "ok" /\ RowSkipped.is = "skipped" /\ Problem("degraded", FALSE).is = "degraded"
  /\ Problem("degraded", TRUE).is = "degraded" /\ Problem("blocking", FALSE).is = "blocking"
BY DEF RowOk, RowSkipped, Problem

LEMMA DecideIsRow ==
  ASSUME NEW id, NEW m, NEW killed
  PROVE  Decide(id, m, killed) \in CheckRow
<1>1. DecideBinary(m, killed) \in CheckRow BY RowsAreRows DEF DecideBinary
<1>2. DecideContainer(m, killed) \in CheckRow BY RowsAreRows DEF DecideContainer
<1>3. DecideAPT(m, killed) \in CheckRow /\ DecideWSL(m, killed) \in CheckRow BY RowsAreRows DEF DecideAPT, DecideWSL
<1>4. DecideSelfBinary(m) \in CheckRow BY RowsAreRows DEF DecideSelfBinary
<1>5. DecideSigningKey(m) \in CheckRow /\ DecideDisk(m) \in CheckRow BY RowsAreRows DEF DecideSigningKey, DecideDisk
<1> QED BY <1>1, <1>2, <1>3, <1>4, <1>5 DEF Decide

LEMMA VerdictIsRow ==
  ASSUME NEW rows
  PROVE  DeriveBuildEnvironment(rows) \in {RowOk, RowSkipped, Problem("blocking", FALSE)}
BY DEF DeriveBuildEnvironment

LEMMA DerivedIsFull ==
  ASSUME NEW h \in Hosts, NEW f, ChecksOf(h) \subseteq DOMAIN f, DOMAIN f \subseteq ChecksOf(h) \cup {Environment},
         \A id \in ChecksOf(h) : f[id] \in CheckRow
  PROVE  Derived(f) \in FullReport(h) /\ Derived(f) # NoRows
<1>1. PICK g : g = Derived(f) OBVIOUS
<1>2. DOMAIN g = ChecksOf(h) \cup {Environment} BY <1>1 DEF Derived
<1>3. g = [id \in ChecksOf(h) \cup {Environment} |-> g[id]] BY <1>1, <1>2 DEF Derived
<1>4. g[Environment] = DeriveBuildEnvironment(f) /\ \A id \in ChecksOf(h) : g[id] = f[id]
  BY <1>1, ChecksAre DEF Derived
<1>5. g \in [ChecksOf(h) \cup {Environment} -> CheckRow]
  <2>1. g[Environment] \in CheckRow BY <1>4, VerdictIsRow, RowsAreRows
  <2>2. \A id \in ChecksOf(h) \cup {Environment} : g[id] \in CheckRow BY <1>4, <2>1
  <2> QED BY <1>3, <2>2
<1>6. DeriveBuildEnvironment(f) = DeriveBuildEnvironment(g)
  <2>1. Environment \notin {"apt", "container", "self-binary"} BY DEF Environment
  <2>2. ASSUME NEW id \in {"apt", "container", "self-binary"}
        PROVE  (id \in DOMAIN f <=> id \in DOMAIN g) /\ (id \in DOMAIN f => f[id] = g[id])
    BY <1>2, <1>4, <2>1
  <2>3. DOMAIN f \cap {"apt", "container"} = DOMAIN g \cap {"apt", "container"} BY <2>2
  <2>4. \A id \in {"apt", "container", "self-binary"} : (IsOk(f, id) <=> IsOk(g, id)) /\ (IsProblem(f, id) <=> IsProblem(g, id))
    BY <2>2 DEF IsOk, IsProblem
  <2> QED BY <2>3, <2>4 DEF DeriveBuildEnvironment
<1>7. g # NoRows BY <1>2 DEF NoRows
<1> QED BY <1>1, <1>4, <1>5, <1>6, <1>7 DEF FullReport

LEMMA PassIsFull ==
  ASSUME NEW h \in Hosts, NEW a \in [ChecksOf(h) -> CheckRow]
  PROVE  Derived(a) \in FullReport(h) /\ Derived(a) # NoRows
BY DerivedIsFull

LEMMA OneRowIsFull ==
  ASSUME NEW h \in Hosts, NEW rows \in FullReport(h), NEW id, NEW row \in CheckRow
  PROVE  ReportWith(rows, id, row) \in FullReport(h) /\ ReportWith(rows, id, row) # NoRows
<1>1. rows \in [ChecksOf(h) \cup {Environment} -> CheckRow] BY DEF FullReport
<1>2. PICK f : f = [rows EXCEPT ![id] = row] OBVIOUS
<1>3. DOMAIN f = ChecksOf(h) \cup {Environment} /\ \A x \in ChecksOf(h) : f[x] \in CheckRow BY <1>1, <1>2
<1> QED BY <1>2, <1>3, DerivedIsFull DEF ReportWith

LEMMA FullIsNotEmpty ==
  ASSUME NEW h, NEW rows \in FullReport(h)
  PROVE  rows # NoRows /\ DOMAIN rows = ChecksOf(h) \cup {Environment}
BY DEF FullReport, NoRows

\* Of the verdict's row there is nothing to run.
LEMMA RunsOfAReport ==
  ASSUME NEW h \in Hosts, NEW rows \in ReportOf(h), NEW id \in DOMAIN rows
  PROVE  /\ rows # NoRows /\ id \in ChecksOf(h) \cup {Environment}
         /\ rows[id].runs => id \in ChecksOf(h)
<1>1. rows \in FullReport(h) BY DEF ReportOf, NoRows
<1>2. rows[Environment] \in {RowOk, RowSkipped, Problem("blocking", FALSE)} BY <1>1, VerdictIsRow DEF FullReport
<1>3. RowOk.runs = FALSE /\ RowSkipped.runs = FALSE /\ Problem("blocking", FALSE).runs = FALSE
  BY Zenon DEF RowOk, RowSkipped, Problem
<1>4. rows[Environment].runs = FALSE BY Zenon, <1>2, <1>3
<1>5. rows # NoRows /\ id \in ChecksOf(h) \cup {Environment} BY <1>1, FullIsNotEmpty
<1>6. ASSUME rows[id].runs, id = Environment PROVE FALSE BY Zenon, <1>4, <1>6
<1> QED BY <1>5, <1>6

(***************************************************************************)
(* The verdict                                                             *)
(***************************************************************************)
\* The first file that is present decides.
LEMMA SelfBinaryOfTheMachine ==
  ASSUME NEW m, MachineOK(m), m.bin # "absent"
  PROVE  LET f == SelfCandidates(m)
         IN DecideSelfBinary(m) = RowOk <=> \E i \in DOMAIN f : f[i] = "ok" /\ \A j \in 1..(i - 1) : f[j] = "absent"
<1>1. PICK f : f = SelfCandidates(m) OBVIOUS
<1>2. Len(f) \in Nat /\ DOMAIN f = 1..Len(f)
  <2>1. CASE m.named # "none"
    <3>1. f = <<m.named>> BY <1>1, <2>1 DEF SelfCandidates
    <3> QED BY <3>1
  <2>2. CASE m.named = "none"
    <3>1. f = m.siblings BY <1>1, <2>2 DEF SelfCandidates
    <3> QED BY <3>1 DEF MachineOK
  <2> QED BY <2>1, <2>2
<1>3. PICK P : P = {i \in DOMAIN f : f[i] # "absent"} OBVIOUS
<1>4. PICK x : x = CHOOSE i \in P : \A j \in P : i <= j OBVIOUS
<1>5. DecideSelfBinary(m) = RowOk <=> P # {} /\ f[x] = "ok"
  <2>1. DecideSelfBinary(m) = IF P # {} /\ f[x] = "ok" THEN RowOk ELSE Problem("degraded", TRUE)
    BY <1>1, <1>3, <1>4 DEF DecideSelfBinary
  <2>2. RowOk # Problem("degraded", TRUE) BY DEF RowOk, Problem
  <2> QED BY <2>1, <2>2
<1>6. P \subseteq Nat BY <1>2, <1>3
<1>7. ASSUME P # {} PROVE x \in P /\ \A j \in P : x <= j
  <2>1. \E i \in P : \A j \in P : i <= j BY <1>6, <1>7, HasLeast
  <2> QED BY <1>4, <2>1
<1>8. ASSUME P # {}, f[x] = "ok" PROVE \E i \in DOMAIN f : f[i] = "ok" /\ \A j \in 1..(i - 1) : f[j] = "absent"
  <2>1. x \in DOMAIN f /\ x \in 1..Len(f) BY <1>2, <1>3, <1>7, <1>8
  <2>2. ASSUME NEW j \in 1..(x - 1) PROVE f[j] = "absent"
    <3>1. j \in DOMAIN f /\ ~(x <= j) BY <1>2, <2>1
    <3> QED BY <1>3, <1>7, <1>8, <3>1
  <2> QED BY <1>8, <2>1, <2>2
<1>9. ASSUME NEW i \in DOMAIN f, f[i] = "ok", \A j \in 1..(i - 1) : f[j] = "absent" PROVE P # {} /\ f[x] = "ok"
  <2>1. i \in P BY <1>3, <1>9
  <2>2. x \in P /\ x <= i BY <1>7, <2>1
  <2>3. x \in 1..Len(f) /\ i \in 1..Len(f) /\ f[x] # "absent" BY <1>2, <1>3, <2>2
  <2>4. ~(x \in 1..(i - 1)) BY <1>9, <2>3
  <2>5. x = i BY <2>2, <2>3, <2>4
  <2> QED BY <1>9, <2>1, <2>5
<1> QED BY <1>1, <1>5, <1>8, <1>9

\* The check agrees with the engine of the file, but for one the config key names.
LEMMA SelfBinaryIsTheMounted ==
  ASSUME MachineOK(mach), mach.bin # "absent", ~ByConfig(mach), host # "linux"
  PROVE  DecideSelfBinary(mach) = RowOk <=> MountFits(mach)
<1>1. PICK m : m = mach OBVIOUS
<1>2. DecideSelfBinary(m) = RowOk <=>
        \E i \in DOMAIN SelfCandidates(m) :
          SelfCandidates(m)[i] = "ok" /\ \A j \in 1..(i - 1) : SelfCandidates(m)[j] = "absent"
  BY <1>1, SelfBinaryOfTheMachine
<1>3. CASE m.named # "none"
  <2>1. SelfCandidates(m) = <<m.named>> BY <1>3 DEF SelfCandidates
  <2>2. MountFits(m) <=> m.named = "ok" BY <1>3 DEF MountFits
  <2>3. DecideSelfBinary(m) = RowOk <=> m.named = "ok" BY <1>2, <2>1
  <2> QED BY <1>1, <2>2, <2>3
<1>4. CASE m.named = "none"
  <2>1. SelfCandidates(m) = m.siblings BY <1>1, <1>4 DEF SelfCandidates
  <2>2. m.config = "none" BY <1>1, <1>4 DEF ByConfig
  <2>3. MountFits(m) <=> FirstBeside(m, "ok") BY <1>1, <1>4, <2>2 DEF MountFits
  <2>4. DecideSelfBinary(m) = RowOk <=> FirstBeside(m, "ok") BY <1>2, <2>1 DEF FirstBeside
  <2> QED BY <1>1, <2>3, <2>4
<1> QED BY <1>3, <1>4

\* The runtime check finds one of them to answer.
Answers(m) == m.docker = "ok" \/ (m.docker \in {"absent", "off"} /\ m.podman = "ok")

LEMMA SelfBinaryIsRowOrProblem ==
  ASSUME NEW m
  PROVE  DecideSelfBinary(m) = RowOk \/ \E b \in BOOLEAN : DecideSelfBinary(m) = Problem("degraded", b)
BY DEF DecideSelfBinary

\* What current rows say of the machine.
LEMMA CurrentRows ==
  ASSUME NEW h \in Hosts, NEW m, MachineOK(m), NEW rows \in FullReport(h),
         \A id \in ChecksOf(h) : rows[id] = Decide(id, m, FALSE)
  PROVE  /\ rows["debark"].is = "blocking" <=> m.bin = "absent"
         /\ \A id \in ChecksOf(h) : rows[id].is = "blocking" => id = "debark"
         /\ IsOk(rows, "container") <=> Answers(m)
         /\ IsProblem(rows, "container") <=> ~Answers(m)
         /\ IsOk(rows, "apt") <=> h = "linux" /\ m.apt
         /\ h = "linux" => ~IsProblem(rows, "self-binary")
         /\ h # "linux" => (IsProblem(rows, "self-binary") <=> DecideSelfBinary(m) # RowOk)
<1>1. DOMAIN rows = ChecksOf(h) \cup {Environment} BY FullIsNotEmpty
<1>2. rows["debark"] = DecideBinary(m, FALSE) /\ rows["container"] = DecideContainer(m, FALSE) BY ChecksAre DEF Decide
<1>3. rows["debark"].is = "blocking" <=> m.bin = "absent" BY <1>2 DEF DecideBinary, RowOk, Problem
<1>4. ASSUME NEW id \in ChecksOf(h), id # "debark" PROVE rows[id].is # "blocking"
  <2>1. DecideContainer(m, FALSE).is # "blocking" BY DEF DecideContainer, RowOk, Problem
  <2>2. DecideAPT(m, FALSE).is # "blocking" /\ DecideWSL(m, FALSE).is # "blocking" BY DEF DecideAPT, DecideWSL, RowOk, Problem
  <2>3. DecideSelfBinary(m).is # "blocking" BY SelfBinaryIsRowOrProblem DEF RowOk, Problem
  <2>4. DecideSigningKey(m).is # "blocking" /\ DecideDisk(m).is # "blocking"
    BY DEF DecideSigningKey, DecideDisk, RowOk, RowSkipped, Problem
  <2> QED BY <1>4, <2>1, <2>2, <2>3, <2>4 DEF Decide
<1>5. (IsOk(rows, "container") <=> Answers(m)) /\ (IsProblem(rows, "container") <=> ~Answers(m))
  <2>1. "container" \in DOMAIN rows BY <1>1, ChecksAre
  <2>2. CASE Answers(m)
    <3>1. DecideContainer(m, FALSE) = RowOk BY <2>2 DEF DecideContainer, Answers
    <3> QED BY <1>2, <2>1, <2>2, <3>1, RowSays DEF IsOk, IsProblem
  <2>3. CASE ~Answers(m)
    <3>1. DecideContainer(m, FALSE) = Problem("degraded", FALSE) BY <2>3 DEF DecideContainer, Answers
    <3> QED BY <1>2, <2>1, <2>3, <3>1, RowSays DEF IsOk, IsProblem
  <2> QED BY <2>2, <2>3
<1>6. IsOk(rows, "apt") <=> h = "linux" /\ m.apt
  <2>1. CASE h = "linux"
    <3>1. "apt" \in DOMAIN rows /\ rows["apt"] = DecideAPT(m, FALSE) BY <1>1, <2>1, ChecksAre DEF Decide
    <3> QED BY <2>1, <3>1 DEF IsOk, DecideAPT, RowOk, Problem
  <2>2. CASE h # "linux"
    <3>1. "apt" \notin DOMAIN rows BY <1>1, <2>2, ChecksAre DEF Environment
    <3> QED BY <2>2, <3>1 DEF IsOk
  <2> QED BY <2>1, <2>2
<1>7. ASSUME h = "linux" PROVE ~IsProblem(rows, "self-binary")
  BY <1>1, <1>7, ChecksAre DEF IsProblem, Environment
<1>8. ASSUME h # "linux" PROVE IsProblem(rows, "self-binary") <=> DecideSelfBinary(m) # RowOk
  <2>1. "self-binary" \in DOMAIN rows /\ rows["self-binary"] = DecideSelfBinary(m) BY <1>1, <1>8, ChecksAre DEF Decide
  <2> QED BY <2>1, SelfBinaryIsRowOrProblem DEF IsProblem, RowOk, Problem
<1> QED BY <1>3, <1>4, <1>5, <1>6, <1>7, <1>8

LEMMA RowsGiveVerdict ==
  ASSUME RowsInv
  PROVE  VerdictIsOfTheMachine
<1> SUFFICES ASSUME rd.rows # NoRows, \A id \in Checks : rd.rows[id] = Decide(id, mach, FALSE)
             PROVE  IF EngineBuilds(mach)
                    THEN (CanBuild(rd.rows) /\ ~RemoteBuilder(rd.rows)) \/ (host # "linux" /\ ByConfig(mach))
                    ELSE CanBuild(rd.rows) => OtherRuntime(mach) \/ ((host = "linux" \/ ByConfig(mach)) /\ ~MountFits(mach))
  BY DEF VerdictIsOfTheMachine
<1>1. PICK h, m, rows : h = host /\ m = mach /\ rows = rd.rows OBVIOUS
<1>2. h \in Hosts /\ MachineOK(m) /\ rows \in FullReport(h) BY <1>1 DEF RowsInv, CheckedOK, ReportOf
<1>3. \A id \in ChecksOf(h) : rows[id] = Decide(id, m, FALSE) BY <1>1 DEF Checks, ChecksOf
<1>4. DOMAIN rows = ChecksOf(h) \cup {Environment} /\ "container" \in ChecksOf(h) /\ "debark" \in ChecksOf(h)
  BY <1>2, FullIsNotEmpty, ChecksAre
<1>5. /\ rows["debark"].is = "blocking" <=> m.bin = "absent"
      /\ \A id \in ChecksOf(h) : rows[id].is = "blocking" => id = "debark"
      /\ IsOk(rows, "container") <=> Answers(m)
      /\ IsProblem(rows, "container") <=> ~Answers(m)
      /\ IsOk(rows, "apt") <=> h = "linux" /\ m.apt
      /\ h = "linux" => ~IsProblem(rows, "self-binary")
      /\ h # "linux" => (IsProblem(rows, "self-binary") <=> DecideSelfBinary(m) # RowOk)
  BY Zenon, <1>2, <1>3, CurrentRows
<1>6. PICK way \in BOOLEAN :
        way = ((h = "linux" /\ m.apt) \/ (Answers(m) /\ (h = "linux" \/ DecideSelfBinary(m) = RowOk)))
  OBVIOUS
<1>7. rows[Environment] = IF way THEN RowOk ELSE Problem("blocking", FALSE)
  <2>1. rows[Environment] = DeriveBuildEnvironment(rows) BY <1>2 DEF FullReport
  <2>2. DOMAIN rows \cap {"apt", "container"} # {} BY <1>4
  <2>3. way <=> IsOk(rows, "apt") \/ (IsOk(rows, "container") /\ ~IsProblem(rows, "self-binary")) BY <1>5, <1>6
  <2> QED BY <2>1, <2>2, <2>3 DEF DeriveBuildEnvironment
<1>8. rows[Environment].is = "blocking" <=> ~way BY <1>7 DEF RowOk, Problem
<1>9. CanBuild(rd.rows) <=> m.bin # "absent" /\ way
  <2>1. CanBuild(rd.rows) <=> \A id \in DOMAIN rows : rows[id].is # "blocking" BY <1>1 DEF CanBuild
  <2> QED BY <1>4, <1>5, <1>8, <2>1
<1>10. ASSUME RemoteBuilder(rd.rows), way PROVE FALSE
  <2>1. ~IsProblem(rows, Environment) BY <1>7, <1>10 DEF IsProblem, RowOk
  <2>2. h = "windows" /\ (IsProblem(rows, "container") \/ IsProblem(rows, "self-binary"))
    BY <1>1, <1>10, <2>1 DEF RemoteBuilder
  <2> QED BY <1>5, <1>6, <1>10, <2>2
<1>11. Engine(m) = "ok" => Answers(m) BY DEF Engine, Answers
<1>12. Answers(m) /\ Engine(m) # "ok" => OtherRuntime(m) BY DEF Engine, Answers, OtherRuntime
<1>13. ASSUME m.bin # "absent", ~ByConfig(m), h # "linux" PROVE DecideSelfBinary(m) = RowOk <=> MountFits(m)
  BY <1>1, <1>2, <1>13, SelfBinaryIsTheMounted
<1>14. EngineBuilds(mach) <=> m.bin # "absent" /\ ((h = "linux" /\ m.apt) \/ (Engine(m) = "ok" /\ MountFits(m)))
  BY <1>1 DEF EngineBuilds
<1>15. CASE EngineBuilds(mach)
  <2>1. ASSUME h = "linux" \/ ~ByConfig(m) PROVE way BY <1>6, <1>11, <1>13, <1>14, <1>15, <2>1
  <2> QED BY <1>1, <1>9, <1>10, <1>14, <1>15, <2>1
<1>16. CASE ~EngineBuilds(mach)
  <2>1. ASSUME CanBuild(rd.rows), ~OtherRuntime(m) PROVE (h = "linux" \/ ByConfig(m)) /\ ~MountFits(m)
    BY <1>6, <1>9, <1>12, <1>13, <1>14, <1>16, <2>1
  <2> QED BY <1>1, <1>16, <2>1
<1> QED BY <1>15, <1>16

(***************************************************************************)
(* What is kept of rows, events and calls                                  *)
(***************************************************************************)
\* Rows are never lost.
Keeps(r, q) == r.rows # NoRows => q.rows # NoRows

LEMMA KeepsTold ==
  ASSUME NEW h, NEW r, NEW q, Keeps(r, q), NEW es, ToldOK(h, r, es)
  PROVE  ToldOK(h, q, es)
BY DEF Keeps, ToldOK

LEMMA KeepsScreen ==
  ASSUME NEW h, NEW r, NEW q, Keeps(r, q), NEW s, CheckScreenOK(h, r, s)
  PROVE  CheckScreenOK(h, q, s)
<1>1. ASSUME NEW c \in s.calls PROVE CheckCallOK(h, q, c)
  <2>1. CheckCallOK(h, r, c) BY <1>1 DEF CheckScreenOK
  <2> QED BY <2>1 DEF CheckCallOK, ReadGot, Keeps
<1> QED BY <1>1 DEF CheckScreenOK, Keeps

LEMMA EventFields ==
  ASSUME NEW h, NEW e \in CheckEvent(h)
  PROVE  /\ e.name \in {"started", "progress", "done", "finished"} /\ e.id \in ChecksOf(h) \cup {NoCheck}
         /\ e.rows \in ReportOf(h) /\ e.cancelled \in BOOLEAN
         /\ e.name \in {"progress", "done"} => e.rows = NoRows /\ e.id # NoCheck
         /\ e.name = "finished" => e.rows # NoRows
BY DEF CheckEvent

LEMMA EventIs ==
  ASSUME NEW h, NEW name \in {"started", "progress", "done", "finished"}, NEW id \in ChecksOf(h) \cup {NoCheck},
         NEW rows \in ReportOf(h), NEW cancelled \in BOOLEAN,
         name \in {"progress", "done"} => rows = NoRows /\ id # NoCheck, name = "finished" => rows # NoRows
  PROVE  /\ EventOf(name, id, rows, cancelled) \in CheckEvent(h)
         /\ EventOf(name, id, rows, cancelled).name = name /\ EventOf(name, id, rows, cancelled).rows = rows
         /\ EventOf(name, id, rows, cancelled).id = id
BY DEF EventOf, CheckEvent

\* The three events without a cancellation.
LEMMA PlainEventsAre ==
  ASSUME NEW h, NEW id \in ChecksOf(h), id # NoCheck, NEW rows \in ReportOf(h)
  PROVE  /\ EventOf("started", NoCheck, rows, FALSE) \in CheckEvent(h)
         /\ EventOf("started", NoCheck, rows, FALSE).name = "started" /\ EventOf("started", NoCheck, rows, FALSE).rows = rows
         /\ EventOf("progress", id, NoRows, FALSE) \in CheckEvent(h)
         /\ EventOf("progress", id, NoRows, FALSE).name = "progress" /\ EventOf("progress", id, NoRows, FALSE).rows = NoRows
         /\ EventOf("done", id, NoRows, FALSE) \in CheckEvent(h)
         /\ EventOf("done", id, NoRows, FALSE).name = "done" /\ EventOf("done", id, NoRows, FALSE).rows = NoRows
<1>1. NoRows \in ReportOf(h) BY DEF ReportOf
<1>2. PICK no \in BOOLEAN : no = FALSE OBVIOUS
<1>3. EventOf("started", NoCheck, rows, no) \in CheckEvent(h) /\ EventOf("started", NoCheck, rows, no).name = "started"
      /\ EventOf("started", NoCheck, rows, no).rows = rows
  BY EventIs
<1>4. EventOf("progress", id, NoRows, no) \in CheckEvent(h) /\ EventOf("progress", id, NoRows, no).name = "progress"
      /\ EventOf("progress", id, NoRows, no).rows = NoRows
  BY <1>1, EventIs
<1>5. EventOf("done", id, NoRows, no) \in CheckEvent(h) /\ EventOf("done", id, NoRows, no).name = "done"
      /\ EventOf("done", id, NoRows, no).rows = NoRows
  BY <1>1, EventIs
<1> QED BY Zenon, <1>2, <1>3, <1>4, <1>5

LEMMA ToldAppend ==
  ASSUME NEW h, NEW r, NEW es, ToldOK(h, r, es), NEW e \in CheckEvent(h),
         e.rows # NoRows \/ e.name \in {"progress", "done"} => r.rows # NoRows
  PROVE  /\ ToldOK(h, r, Append(es, e)) /\ Len(Append(es, e)) = Len(es) + 1 /\ Len(es) \in Nat
         /\ Append(es, e)[Len(es) + 1] = e /\ \A i \in 1..Len(es) : Append(es, e)[i] = es[i]
<1>1. es \in Seq(CheckEvent(h)) /\ Len(es) \in Nat BY DEF ToldOK
<1>2. PICK f : f = Append(es, e) OBVIOUS
<1>3. f \in Seq(CheckEvent(h)) /\ Len(f) = Len(es) + 1 /\ f[Len(es) + 1] = e /\ \A i \in 1..Len(es) : f[i] = es[i] BY <1>1, <1>2
<1>4. ASSUME NEW i \in 1..Len(f), f[i].rows # NoRows \/ f[i].name \in {"progress", "done"} PROVE r.rows # NoRows
  <2>1. CASE i \in 1..Len(es) BY <1>3, <1>4, <2>1 DEF ToldOK
  <2>2. CASE i = Len(es) + 1 BY <1>3, <1>4, <2>2
  <2> QED BY <1>1, <1>3, <2>1, <2>2
<1> QED BY <1>1, <1>2, <1>3, <1>4 DEF ToldOK

LEMMA ToldTail ==
  ASSUME NEW h, NEW r, NEW es, ToldOK(h, r, es), es # <<>>
  PROVE  /\ ToldOK(h, r, Tail(es)) /\ Len(Tail(es)) = Len(es) - 1 /\ Len(es) \in Nat \ {0}
         /\ \A i \in 1..Len(Tail(es)) : i + 1 \in 1..Len(es) /\ Tail(es)[i] = es[i + 1]
         /\ Head(es) = es[1] /\ Head(es) \in CheckEvent(h)
         /\ Head(es).rows # NoRows \/ Head(es).name \in {"progress", "done"} => r.rows # NoRows
<1>1. es \in Seq(CheckEvent(h)) /\ Len(es) \in Nat \ {0} BY DEF ToldOK
<1>2. PICK f : f = Tail(es) OBVIOUS
<1>3. f \in Seq(CheckEvent(h)) /\ Len(f) = Len(es) - 1 BY <1>1, <1>2
<1>4. \A i \in 1..Len(f) : i + 1 \in 1..Len(es) /\ f[i] = es[i + 1] BY <1>1, <1>2, <1>3
<1>5. Head(es) = es[1] /\ Head(es) \in CheckEvent(h) /\ 1 \in 1..Len(es) BY <1>1
<1>6. ToldOK(h, r, f) BY <1>3, <1>4 DEF ToldOK
<1>7. Head(es).rows # NoRows \/ Head(es).name \in {"progress", "done"} => r.rows # NoRows BY <1>5 DEF ToldOK
<1> QED BY <1>1, <1>2, <1>3, <1>4, <1>5, <1>6, <1>7

LEMMA ToldRest ==
  ASSUME NEW h, NEW r, NEW es, ToldOK(h, r, es), es # <<>>, NEW f, f = Tail(es), NEW e, e = Head(es)
  PROVE  /\ Len(f) = Len(es) - 1 /\ Len(es) \in Nat \ {0} /\ e = es[1] /\ e \in CheckEvent(h)
         /\ \A i \in 1..Len(f) : i + 1 \in 1..Len(es) /\ f[i] = es[i + 1]
         /\ e.rows # NoRows \/ e.name \in {"progress", "done"} => r.rows # NoRows
<1>1. Len(f) = Len(es) - 1 /\ Len(es) \in Nat \ {0} BY ToldTail
<1>2. \A i \in 1..Len(f) : i + 1 \in 1..Len(es) /\ f[i] = es[i + 1] BY ToldTail
<1>3. e = es[1] /\ e \in CheckEvent(h) BY ToldTail
<1>4. e.rows # NoRows \/ e.name \in {"progress", "done"} => r.rows # NoRows BY ToldTail
<1> QED BY <1>1, <1>2, <1>3, <1>4

LEMMA AskedIsOK ==
  ASSUME NEW h, NEW r, NEW s, CheckScreenOK(h, r, s),
         NEW op \in {"boot", "read", "start", "startIfEmpty", "recheck", "act", "cancel"}, NEW id,
         op \in {"recheck", "act"} => id \in ChecksOf(h) /\ r.rows # NoRows
  PROVE  CheckScreenOK(h, r, Ask(s, op, id))
<1>1. PICK c : c = [op |-> op, id |-> id, got |-> Nothing] OBVIOUS
<1>2. CheckCallOK(h, r, c) BY <1>1 DEF CheckCallOK
<1>3. PICK q : q = Ask(s, op, id) OBVIOUS
<1>4. q = [s EXCEPT !.calls = @ \cup {c}] BY <1>1, <1>3 DEF Ask
<1>5. q.calls = s.calls \cup {c} BY <1>4 DEF CheckScreenOK
<1>6. \A d \in q.calls : CheckCallOK(h, r, d) BY <1>2, <1>5 DEF CheckScreenOK
<1> QED BY <1>3, <1>4, <1>6 DEF CheckScreenOK

LEMMA FewerCallsOK ==
  ASSUME NEW h, NEW r, NEW s, CheckScreenOK(h, r, s), NEW C, C \subseteq s.calls
  PROVE  CheckScreenOK(h, r, [s EXCEPT !.calls = C])
<1>1. PICK q : q = [s EXCEPT !.calls = C] OBVIOUS
<1>2. q.calls = C BY <1>1 DEF CheckScreenOK
<1>3. \A d \in q.calls : CheckCallOK(h, r, d) BY <1>2 DEF CheckScreenOK
<1> QED BY <1>1, <1>3 DEF CheckScreenOK

LEMMA WithdrawnIsOK ==
  ASSUME NEW h, NEW r, NEW s, CheckScreenOK(h, r, s)
  PROVE  CheckScreenOK(h, r, Withdraw(s))
<1>1. {c \in s.calls : c.op # "read"} \subseteq s.calls OBVIOUS
<1>2. Withdraw(s) = [s EXCEPT !.calls = {c \in s.calls : c.op # "read"}] BY DEF Withdraw
<1> QED BY <1>1, <1>2, FewerCallsOK

LEMMA RefreshedIsOK ==
  ASSUME NEW h, NEW r, NEW s, CheckScreenOK(h, r, s)
  PROVE  CheckScreenOK(h, r, RefreshFromBackend(s))
<1>1. CheckScreenOK(h, r, Withdraw(s)) BY WithdrawnIsOK
<1> QED BY <1>1, AskedIsOK DEF RefreshFromBackend

LEMMA SetRunningIsOK ==
  ASSUME NEW h, NEW r, NEW s, CheckScreenOK(h, r, s), NEW id \in ChecksOf(h)
  PROVE  CheckScreenOK(h, r, SetRunning(s, id))
BY DEF SetRunning, CheckScreenOK

LEMMA HandledIsOK ==
  ASSUME NEW h, NEW r, NEW s, CheckScreenOK(h, r, s), NEW e \in CheckEvent(h),
         e.rows # NoRows \/ e.name \in {"progress", "done"} => r.rows # NoRows
  PROVE  CheckScreenOK(h, r, Handled(s, e))
<1>1. CASE e.name = "started"
  <2>1. Handled(s, e) = OnStarted(s, e) BY <1>1 DEF Handled
  <2>2. CheckScreenOK(h, r, OnStarted(s, e)) BY EventFields DEF OnStarted, CheckScreenOK
  <2> QED BY <2>1, <2>2
<1>2. CASE e.name = "finished"
  <2>1. Handled(s, e) = OnFinished(s, e) BY <1>2 DEF Handled
  <2>2. CheckScreenOK(h, r, OnFinished(s, e)) BY <1>2, EventFields DEF OnFinished, CheckScreenOK
  <2> QED BY <2>1, <2>2
<1>3. CASE e.name \in {"progress", "done"}
  <2>1. Handled(s, e) = OnRowProgress(s, e) BY <1>3 DEF Handled
  <2>2. CheckScreenOK(h, r, OnRowProgress(s, e)) BY EventFields DEF OnRowProgress, CheckScreenOK
  <2> QED BY <2>1, <2>2
<1> QED BY <1>1, <1>2, <1>3, EventFields

LEMMA ReadIsOK ==
  ASSUME NEW h, NEW r, NEW s, CheckScreenOK(h, r, s), NEW got, ReadGot(h, r, got)
  PROVE  CheckScreenOK(h, r, ReadAnswer(s, got))
<1>1. PICK t : t = [s EXCEPT !.rows = got.rows, !.checking = got.checking, !.running = got.running, !.started = (got.rows # NoRows),
                             !.starting = IF got.rows # NoRows THEN got.checking ELSE @]
  OBVIOUS
<1>2. CheckScreenOK(h, r, t) BY <1>1 DEF CheckScreenOK, ReadGot
<1>3. CheckScreenOK(h, r, [t EXCEPT !.starting = TRUE]) BY <1>2 DEF CheckScreenOK
<1>4. CheckScreenOK(h, r, Ask([t EXCEPT !.starting = TRUE], "startIfEmpty", NoCheck)) BY <1>3, AskedIsOK
<1>5. ReadAnswer(s, got) \in {t, Ask([t EXCEPT !.starting = TRUE], "startIfEmpty", NoCheck)} BY <1>1 DEF ReadAnswer
<1> QED BY <1>2, <1>4, <1>5

LEMMA ServedIsOK ==
  ASSUME NEW h, NEW r, NEW s, CheckScreenOK(h, r, s), NEW c \in s.calls, NEW got,
         c.op = "read" => ReadGot(h, r, got), c.op # "read" => got \in {Nothing, Accepted, Refused}
  PROVE  CheckScreenOK(h, r, [s EXCEPT !.calls = (@ \ {c}) \cup {[c EXCEPT !.got = got]}])
<1>1. PICK d : d = [c EXCEPT !.got = got] OBVIOUS
<1>2. CheckCallOK(h, r, c) BY DEF CheckScreenOK
<1>3. CheckCallOK(h, r, d) BY <1>1, <1>2 DEF CheckCallOK
<1>4. PICK q : q = [s EXCEPT !.calls = (@ \ {c}) \cup {d}] OBVIOUS
<1>5. q.calls = (s.calls \ {c}) \cup {d} BY <1>4 DEF CheckScreenOK
<1>6. \A x \in q.calls : CheckCallOK(h, r, x) BY <1>3, <1>5 DEF CheckScreenOK
<1> QED BY <1>1, <1>4, <1>6 DEF CheckScreenOK

(***************************************************************************)
(* The steps of the system check                                           *)
(***************************************************************************)
LEMMA RowsInit == ReadinessInit => RowsInv
<1> SUFFICES ASSUME ReadinessInit PROVE RowsInv OBVIOUS
<1>1. host \in Hosts /\ MachineOK(mach) BY ReadinessAssumption DEF ReadinessInit, MachineOK, MachineFields
<1>2. CheckedOK(host, rd) BY DEF ReadinessInit, CheckedOK, CheckJobOK, ReportOf
<1>3. ToldOK(host, rd, late) /\ ToldOK(host, rd, told)
  <2>1. <<>> \in Seq(CheckEvent(host)) /\ Len(<<>>) = 0 OBVIOUS
  <2> QED BY <2>1 DEF ReadinessInit, ToldOK
<1>4. PICK c : c = [op |-> "boot", id |-> NoCheck, got |-> Nothing] OBVIOUS
<1>5. CheckCallOK(host, rd, c) BY <1>4 DEF CheckCallOK
<1>6. rs.calls = {c} BY <1>4 DEF ReadinessInit
<1>7. CheckScreenOK(host, rd, rs)
  <2>1. \A d \in rs.calls : CheckCallOK(host, rd, d) BY <1>5, <1>6
  <2> QED BY <2>1 DEF ReadinessInit, CheckScreenOK, ReportOf
<1> QED BY <1>1, <1>2, <1>3, <1>7 DEF RowsInv

LEMMA MachineRows ==
  ASSUME RowsInv, MachineChanges
  PROVE  RowsInv'
<1>1. MachineOK(mach') BY ReadinessAssumption DEF MachineChanges, MachineOK, MachineFields
<1> QED BY <1>1 DEF MachineChanges, RowsInv

\* A step of the job: the rows are kept or replaced.
LEMMA JobRows ==
  ASSUME RowsInv, host' = host, MachineOK(mach'), CheckedOK(host, rd'), Keeps(rd, rd'),
         ToldOK(host, rd', late'), told' = told, rs' = rs
  PROVE  RowsInv'
<1>1. ToldOK(host, rd', told) /\ CheckScreenOK(host, rd', rs) BY KeepsTold, KeepsScreen DEF RowsInv
<1> QED BY <1>1 DEF RowsInv

LEMMA ActionRows ==
  ASSUME RowsInv, RunAction
  PROVE  RowsInv'
<1>1. MachineOK(mach')
  <2>1. mach' = mach \/ mach' = [mach EXCEPT !.key = TRUE] BY DEF RunAction
  <2>2. MachineOK(mach) BY DEF RowsInv
  <2>3. MachineOK([mach EXCEPT !.key = TRUE]) BY <2>2 DEF MachineOK, MachineFields
  <2> QED BY <2>1, <2>2, <2>3
<1>2. CheckedOK(host, rd) /\ rd.job # NoJobRun /\ rd.job.op # "none" BY DEF RowsInv, RunAction, Busy, NoJobRun
<1>3. PICK r, j, k : r = rd /\ j = rd.job /\ k = [j EXCEPT !.acted = TRUE] OBVIOUS
<1>4. rd' = [r EXCEPT !.job = k] BY <1>3 DEF RunAction
<1>5. /\ DOMAIN k = DOMAIN j /\ k.op = j.op /\ k.ids = j.ids /\ k.answers = j.answers /\ k.cancelled = j.cancelled
  BY <1>2, <1>3 DEF CheckedOK, CheckJobOK
<1>6. rd'.rows = r.rows /\ rd'.checking = r.checking /\ rd'.running = r.running /\ rd'.job = k /\ DOMAIN rd' = DOMAIN r
  BY <1>2, <1>3, <1>4 DEF CheckedOK
<1>7. CheckJobOK(host, rd') BY <1>2, <1>3, <1>5, <1>6 DEF CheckedOK, CheckJobOK
<1>8. CheckedOK(host, rd') /\ Keeps(rd, rd') BY <1>2, <1>3, <1>6, <1>7 DEF CheckedOK, Keeps
<1>9. ToldOK(host, rd', late) BY <1>8, KeepsTold DEF RowsInv
<1> QED BY <1>1, <1>8, <1>9, JobRows DEF RunAction

LEMMA ProbeRows ==
  ASSUME RowsInv, NEW id \in Checks, Probe(id)
  PROVE  RowsInv'
<1>1. MachineOK(mach') BY DEF RowsInv, Probe
<1>2. CheckedOK(host, rd) /\ rd.job # NoJobRun /\ id \in rd.job.ids BY DEF RowsInv, Probe, Busy, NoJobRun
<1>3. PICK r, j, a : r = rd /\ j = rd.job /\ a = rd.job.answers OBVIOUS
<1>4. PICK row : row = Decide(id, mach, rd.job.cancelled) OBVIOUS
<1>5. PICK b : b = [i \in DOMAIN a \cup {id} |-> IF i = id THEN row ELSE a[i]] OBVIOUS
<1>6. PICK k : k = [j EXCEPT !.answers = b] OBVIOUS
<1>7. rd' = [r EXCEPT !.job = k] BY <1>3, <1>4, <1>5, <1>6 DEF Probe
<1>8. b \in [DOMAIN b -> CheckRow] /\ DOMAIN b \subseteq j.ids
  <2>1. row \in CheckRow BY <1>4, DecideIsRow
  <2>2. a \in [DOMAIN a -> CheckRow] /\ DOMAIN a \subseteq j.ids BY <1>2, <1>3 DEF CheckedOK, CheckJobOK
  <2>3. DOMAIN b = DOMAIN a \cup {id} /\ \A i \in DOMAIN b : b[i] \in CheckRow BY <1>5, <2>1, <2>2
  <2>4. b = [i \in DOMAIN b |-> b[i]] BY <1>5, <2>3
  <2> QED BY <1>2, <1>3, <2>2, <2>3, <2>4
<1>9. /\ DOMAIN k = DOMAIN j /\ k.op = j.op /\ k.ids = j.ids /\ k.answers = b /\ k.cancelled = j.cancelled
  BY <1>2, <1>3, <1>6 DEF CheckedOK, CheckJobOK
<1>10. rd'.rows = r.rows /\ rd'.checking = r.checking /\ rd'.running = r.running /\ rd'.job = k /\ DOMAIN rd' = DOMAIN r
  BY <1>2, <1>3, <1>7 DEF CheckedOK
<1>11. CheckJobOK(host, rd') BY <1>2, <1>3, <1>8, <1>9, <1>10 DEF CheckedOK, CheckJobOK
<1>12. CheckedOK(host, rd') /\ Keeps(rd, rd') BY <1>2, <1>3, <1>10, <1>11 DEF CheckedOK, Keeps
<1>13. ToldOK(host, rd', late) BY <1>12, KeepsTold DEF RowsInv
<1> QED BY <1>1, <1>12, <1>13, JobRows DEF Probe

\* What the end of a pass leaves and tells.
LEMMA PassEnd ==
  ASSUME RowsInv, FinishPass
  PROVE  /\ host' = host /\ mach' = mach /\ told' = told /\ rs' = rs /\ late = <<>>
         /\ CheckedOK(host, rd') /\ rd'.rows # NoRows /\ ToldOK(host, rd', late') /\ rd'.job = NoJobRun
         /\ rd'.checking = FALSE /\ rd'.running = NoCheck
         /\ Len(late') = 1 /\ late'[1].name = "finished" /\ late'[1].rows = rd'.rows
<1>1. PICK h, r, j, rows : h = host /\ r = rd /\ j = rd.job /\ rows = Derived(rd.job.answers) OBVIOUS
<1>2. h \in Hosts /\ CheckedOK(h, r) /\ j # NoJobRun /\ j.op = "pass" /\ DOMAIN j.answers = j.ids
  BY <1>1 DEF RowsInv, FinishPass, AllAnswered, Busy, NoJobRun
<1>3. j.answers \in [ChecksOf(h) -> CheckRow] /\ j.cancelled \in BOOLEAN BY <1>1, <1>2 DEF CheckedOK, CheckJobOK
<1>4. rows \in FullReport(h) /\ rows # NoRows BY <1>1, <1>2, <1>3, PassIsFull
<1>5. rd' = [r EXCEPT !.rows = rows, !.checking = FALSE, !.running = NoCheck, !.job = NoJobRun] BY <1>1 DEF FinishPass
<1>6. rd'.rows = rows /\ rd'.checking = FALSE /\ rd'.running = NoCheck /\ rd'.job = NoJobRun /\ DOMAIN rd' = DOMAIN r
  BY <1>2, <1>5 DEF CheckedOK
<1>7. CheckedOK(h, rd') BY <1>2, <1>4, <1>6 DEF CheckedOK, CheckJobOK, ReportOf
<1>8. PICK e : e = EventOf("finished", NoCheck, rows, j.cancelled) OBVIOUS
<1>9. e \in CheckEvent(h) /\ e.name = "finished" /\ e.rows = rows BY <1>3, <1>4, <1>8, EventIs DEF ReportOf
<1>10. late' = <<e>> BY <1>1, <1>6, <1>8 DEF FinishPass
<1>11. late' \in Seq(CheckEvent(h)) /\ Len(late') = 1 /\ late'[1] = e BY <1>9, <1>10
<1>12. ToldOK(h, rd', late') BY <1>4, <1>6, <1>11 DEF ToldOK
<1>13. host' = host /\ mach' = mach /\ told' = told /\ rs' = rs /\ late = <<>> BY DEF FinishPass, AllAnswered
<1> QED BY <1>1, <1>4, <1>6, <1>7, <1>9, <1>11, <1>12, <1>13

\* What the end of a re-check or of a remedy leaves and tells.
LEMMA OneEnd ==
  ASSUME RowsInv, FinishOne
  PROVE  /\ host' = host /\ mach' = mach /\ told' = told /\ rs' = rs /\ late = <<>>
         /\ CheckedOK(host, rd') /\ rd'.rows # NoRows /\ ToldOK(host, rd', late') /\ rd'.job = NoJobRun
         /\ rd'.checking = rd.checking /\ rd'.running = NoCheck
         /\ Len(late') = 2 /\ late'[2].name = "finished" /\ late'[2].rows = rd'.rows /\ late'[1].name = "done"
         /\ rd.job # NoJobRun /\ rd.job.op # "pass"
<1>1. PICK h, r, j : h = host /\ r = rd /\ j = rd.job OBVIOUS
<1>2. h \in Hosts /\ CheckedOK(h, r) /\ j # NoJobRun /\ j.op # "pass" /\ DOMAIN j.answers = j.ids
  BY <1>1 DEF RowsInv, FinishOne, AllAnswered, Busy, NoJobRun
<1>3. PICK id \in j.ids :
        /\ rd' = [r EXCEPT !.rows = ReportWith(r.rows, id, j.answers[id]), !.running = NoCheck, !.job = NoJobRun]
        /\ late' = <<EventOf("done", id, NoRows, FALSE), EventOf("finished", id, rd'.rows, j.cancelled)>>
  BY <1>1 DEF FinishOne
<1>4. id \in ChecksOf(h) /\ j.answers[id] \in CheckRow /\ j.cancelled \in BOOLEAN /\ r.rows # NoRows
  BY <1>1, <1>2 DEF CheckedOK, CheckJobOK
<1>5. PICK rows : rows = ReportWith(r.rows, id, j.answers[id]) OBVIOUS
<1>6. rows \in FullReport(h) /\ rows # NoRows
  <2>1. r.rows \in FullReport(h) BY <1>2, <1>4 DEF CheckedOK, ReportOf
  <2> QED BY <1>2, <1>4, <1>5, <2>1, OneRowIsFull
<1>7. rd'.rows = rows /\ rd'.checking = r.checking /\ rd'.running = NoCheck /\ rd'.job = NoJobRun /\ DOMAIN rd' = DOMAIN r
  BY <1>2, <1>3, <1>5 DEF CheckedOK
<1>8. CheckedOK(h, rd') BY <1>2, <1>6, <1>7 DEF CheckedOK, CheckJobOK, ReportOf
<1>9. PICK d, e : d = EventOf("done", id, NoRows, FALSE) /\ e = EventOf("finished", id, rows, j.cancelled) OBVIOUS
<1>10. e \in CheckEvent(h) /\ e.name = "finished" /\ e.rows = rows BY <1>4, <1>6, <1>9, EventIs DEF ReportOf
<1>11. d \in CheckEvent(h) /\ d.name = "done" /\ d.rows = NoRows
  <2>1. id # NoCheck /\ NoRows \in ReportOf(h) BY <1>2, <1>4, ChecksAre DEF ReportOf
  <2>2. EventOf("done", id, NoRows, FALSE) \in CheckEvent(h) /\ EventOf("done", id, NoRows, FALSE).name = "done"
        /\ EventOf("done", id, NoRows, FALSE).rows = NoRows
    BY Zenon, <1>4, <2>1, PlainEventsAre
  <2> QED BY Zenon, <1>9, <2>2
<1>12. late' = <<d, e>> BY <1>3, <1>7, <1>9
<1>13. late' \in Seq(CheckEvent(h)) /\ Len(late') = 2 /\ late'[1] = d /\ late'[2] = e BY <1>10, <1>11, <1>12
<1>14. ToldOK(h, rd', late') BY <1>6, <1>7, <1>13 DEF ToldOK
<1>15. host' = host /\ mach' = mach /\ told' = told /\ rs' = rs /\ late = <<>> BY DEF FinishOne, AllAnswered
<1> QED BY <1>1, <1>2, <1>6, <1>7, <1>8, <1>10, <1>11, <1>13, <1>14, <1>15

LEMMA FinishRows ==
  ASSUME RowsInv, FinishPass \/ FinishOne
  PROVE  RowsInv'
<1>1. /\ host' = host /\ mach' = mach /\ told' = told /\ rs' = rs
      /\ CheckedOK(host, rd') /\ rd'.rows # NoRows /\ ToldOK(host, rd', late')
  BY PassEnd, OneEnd
<1> QED BY <1>1, JobRows DEF RowsInv, Keeps

LEMMA EmitRows ==
  ASSUME RowsInv, EmitLate
  PROVE  RowsInv'
<1>1. PICK e : e = Head(late) OBVIOUS
<1>2. /\ late # <<>> /\ late' = Tail(late) /\ told' = Append(told, e)
      /\ host' = host /\ mach' = mach /\ rd' = rd /\ rs' = rs
  BY <1>1 DEF EmitLate
<1>3. /\ e \in CheckEvent(host) /\ ToldOK(host, rd, Tail(late))
      /\ e.rows # NoRows \/ e.name \in {"progress", "done"} => rd.rows # NoRows
  BY <1>1, <1>2, ToldTail DEF RowsInv
<1>4. ToldOK(host, rd, Append(told, e)) BY <1>3, ToldAppend DEF RowsInv
<1> QED BY <1>2, <1>3, <1>4 DEF RowsInv

\* What a call that was served leaves of the application.
LEMMA ServeRows ==
  ASSUME RowsInv, NEW c \in rs.calls, Serve(c)
  PROVE  RowsInv'
<1>1. /\ host \in Hosts /\ MachineOK(mach) /\ CheckedOK(host, rd) /\ ToldOK(host, rd, late) /\ ToldOK(host, rd, told)
      /\ CheckScreenOK(host, rd, rs)
  BY DEF RowsInv
<1>2. host' = host /\ mach' = mach /\ late' = late /\ c.got = Nothing BY DEF Serve
<1>3. CheckCallOK(host, rd, c) BY <1>1 DEF CheckScreenOK
<1>4. SUFFICES CheckedOK(host, rd') /\ Keeps(rd, rd') /\ ToldOK(host, rd', told') /\ CheckScreenOK(host, rd, rs')
  <2>1. ToldOK(host, rd', late) /\ CheckScreenOK(host, rd', rs') BY <1>1, <1>4, KeepsTold, KeepsScreen
  <2> QED BY <1>1, <1>2, <1>4, <2>1 DEF RowsInv
<1>5. CASE Readiness(c)
  <2>1. PICK got : got = [is |-> "report", rows |-> rd.rows, checking |-> rd.checking, running |-> rd.running] OBVIOUS
  <2>2. ReadGot(host, rd, got) BY <1>1, <2>1 DEF ReadGot, CheckedOK
  <2>3. rs' = [rs EXCEPT !.calls = (@ \ {c}) \cup {[c EXCEPT !.got = got]}] BY <1>5, <2>1 DEF Readiness, Served
  <2>4. CheckScreenOK(host, rd, rs') BY <1>1, <1>5, <2>2, <2>3, ServedIsOK DEF Readiness
  <2> QED BY <1>1, <1>5, <2>4 DEF Readiness, Keeps
<1>6. ASSUME NEW got \in {Accepted, Refused}, Served(c, got), c.op # "read" PROVE CheckScreenOK(host, rd, rs')
  <2>1. rs' = [rs EXCEPT !.calls = (@ \ {c}) \cup {[c EXCEPT !.got = got]}] BY <1>6 DEF Served
  <2> QED BY <1>1, <1>6, <2>1, ServedIsOK
<1>7. CASE StartReadinessCheck(c)
  <2>1. c.op # "read" /\ CheckScreenOK(host, rd, rs') BY <1>6, <1>7 DEF StartReadinessCheck
  <2>2. CASE rd' = rd /\ told' = told BY <1>1, <2>1, <2>2 DEF Keeps
  <2>3. CASE ~(rd' = rd /\ told' = told)
    <3>1. PICK r, j, e : r = rd /\ j = JobOf("pass", ChecksOf(host)) /\ e = EventOf("started", NoCheck, rd.rows, FALSE) OBVIOUS
    <3>2. rd' = [r EXCEPT !.checking = TRUE, !.running = NoCheck, !.job = j] /\ told' = Append(told, e)
      BY <1>7, <2>3, <3>1 DEF StartReadinessCheck, Checks, ChecksOf
    <3>3. DOMAIN rd' = DOMAIN r /\ rd'.rows = r.rows /\ rd'.checking = TRUE /\ rd'.running = NoCheck /\ rd'.job = j
      BY <1>1, <3>1, <3>2 DEF CheckedOK
    <3>4. CheckJobOK(host, rd') BY <3>1, <3>3 DEF CheckJobOK, JobOf, NoRows
    <3>5. CheckedOK(host, rd') /\ Keeps(rd, rd') BY <1>1, <3>1, <3>3, <3>4 DEF CheckedOK, Keeps
    <3>6. e \in CheckEvent(host) /\ e.name = "started" /\ e.rows = rd.rows
      <4>1. PICK id \in ChecksOf(host) : id # NoCheck BY <1>1, ChecksAre
      <4>2. rd.rows \in ReportOf(host) BY <1>1 DEF CheckedOK
      <4>3. EventOf("started", NoCheck, rd.rows, FALSE) \in CheckEvent(host)
            /\ EventOf("started", NoCheck, rd.rows, FALSE).name = "started" /\ EventOf("started", NoCheck, rd.rows, FALSE).rows = rd.rows
        BY Zenon, <4>1, <4>2, PlainEventsAre
      <4> QED BY Zenon, <3>1, <4>3
    <3>7. ToldOK(host, rd, Append(told, e)) BY <1>1, <3>6, ToldAppend
    <3> QED BY <2>1, <3>2, <3>5, <3>7, KeepsTold
  <2> QED BY <2>2, <2>3
<1>8. CASE RunReadiness(c)
  <2>1. c.op # "read" /\ CheckScreenOK(host, rd, rs') BY <1>6, <1>8 DEF RunReadiness
  <2>2. CASE rd' = rd /\ told' = told BY <1>1, <2>1, <2>2 DEF Keeps
  <2>3. CASE ~(rd' = rd /\ told' = told)
    <3>1. c.op \in {"recheck", "act"} /\ c.id \in ChecksOf(host) /\ rd.rows # NoRows BY <1>3, <1>8 DEF RunReadiness, CheckCallOK
    <3>2. PICK r, j, e : r = rd /\ j = JobOf(c.op, {c.id}) /\ e = EventOf("progress", c.id, NoRows, FALSE) OBVIOUS
    <3>3. rd' = [r EXCEPT !.running = c.id, !.job = j] /\ told' = Append(told, e) BY <1>8, <2>3, <3>2 DEF RunReadiness
    <3>4. DOMAIN rd' = DOMAIN r /\ rd'.rows = r.rows /\ rd'.checking = r.checking /\ rd'.running = c.id /\ rd'.job = j
      BY <1>1, <3>2, <3>3 DEF CheckedOK
    <3>5. CheckJobOK(host, rd') BY <3>1, <3>2, <3>4 DEF CheckJobOK, JobOf, NoRows
    <3>6. CheckedOK(host, rd') /\ Keeps(rd, rd') BY <1>1, <3>1, <3>2, <3>4, <3>5 DEF CheckedOK, Keeps
    <3>7. e \in CheckEvent(host) /\ e.name = "progress"
      <4>1. c.id # NoCheck /\ NoRows \in ReportOf(host) BY <1>1, <3>1, ChecksAre DEF ReportOf
      <4>2. EventOf("progress", c.id, NoRows, FALSE) \in CheckEvent(host) /\ EventOf("progress", c.id, NoRows, FALSE).name = "progress"
        BY Zenon, <3>1, <4>1, PlainEventsAre
      <4> QED BY Zenon, <3>2, <4>2
    <3>8. ToldOK(host, rd, Append(told, e)) BY <1>1, <3>1, <3>7, ToldAppend
    <3> QED BY <2>1, <3>3, <3>6, <3>8, KeepsTold
  <2> QED BY <2>2, <2>3
<1>9. CASE CancelReadinessCheck(c)
  <2>1. c.op # "read" /\ CheckScreenOK(host, rd, rs') /\ told' = told BY <1>6, <1>9 DEF CancelReadinessCheck
  <2>2. CASE rd' = rd BY <1>1, <2>1, <2>2 DEF Keeps
  <2>3. CASE rd' # rd
    <3>1. PICK r, j, k : r = rd /\ j = rd.job /\ k = [j EXCEPT !.cancelled = TRUE] OBVIOUS
    <3>2. rd' = [r EXCEPT !.job = k] /\ j # NoJobRun BY <1>9, <2>3, <3>1 DEF CancelReadinessCheck, Busy, NoJobRun
    <3>3. /\ DOMAIN k = DOMAIN j /\ k.op = j.op /\ k.ids = j.ids /\ k.answers = j.answers /\ k.cancelled = TRUE
      BY <1>1, <3>1, <3>2 DEF CheckedOK, CheckJobOK
    <3>4. rd'.rows = r.rows /\ rd'.checking = r.checking /\ rd'.running = r.running /\ rd'.job = k /\ DOMAIN rd' = DOMAIN r
      BY <1>1, <3>1, <3>2 DEF CheckedOK
    <3>5. CheckJobOK(host, rd') BY <1>1, <3>1, <3>2, <3>3, <3>4 DEF CheckedOK, CheckJobOK
    <3>6. CheckedOK(host, rd') /\ Keeps(rd, rd') BY <1>1, <3>1, <3>4, <3>5 DEF CheckedOK, Keeps
    <3> QED BY <1>1, <2>1, <3>6, KeepsTold
  <2> QED BY <2>2, <2>3
<1> QED BY <1>5, <1>7, <1>8, <1>9 DEF Serve

\* A step of the screen alone.
LEMMA ScreenRows ==
  ASSUME RowsInv, host' = host, mach' = mach, rd' = rd, late' = late, told' = told, CheckScreenOK(host, rd, rs')
  PROVE  RowsInv'
BY DEF RowsInv

LEMMA PressRows ==
  ASSUME RowsInv, NEW s, CheckScreenOK(host, rd, s), Press(s)
  PROVE  RowsInv'
BY ScreenRows DEF Press

LEMMA ShowRows ==
  ASSUME RowsInv, ShowScreen
  PROVE  RowsInv'
<1>1. PICK s : s = [rs EXCEPT !.mounted = TRUE, !.visible = TRUE, !.starting = @ \/ (~rs.started /\ rs.rows = NoRows)] OBVIOUS
<1>2. CheckScreenOK(host, rd, rs) BY DEF RowsInv
<1>3. CheckScreenOK(host, rd, s)
  <2>1. PICK b : b = (rs.starting \/ (~rs.started /\ rs.rows = NoRows)) OBVIOUS
  <2>2. b \in BOOLEAN BY <2>1
  <2>3. s = [rs EXCEPT !.mounted = TRUE, !.visible = TRUE, !.starting = b] BY Zenon, <1>1, <2>1
  <2> QED BY <1>2, <2>2, <2>3 DEF CheckScreenOK
<1>4. CheckScreenOK(host, rd, RefreshFromBackend(s)) BY <1>3, RefreshedIsOK
<1>5. Press(RefreshFromBackend(s)) BY <1>1 DEF ShowScreen
<1> QED BY <1>4, <1>5, PressRows

LEMMA HideRows ==
  ASSUME RowsInv, HideScreen \/ CloseConsent
  PROVE  RowsInv'
<1>1. CheckScreenOK(host, rd, rs) BY DEF RowsInv
<1>2. CheckScreenOK(host, rd, [rs EXCEPT !.visible = FALSE, !.consent = NoCheck]) BY <1>1 DEF CheckScreenOK
<1>3. CheckScreenOK(host, rd, [rs EXCEPT !.consent = NoCheck]) BY <1>1 DEF CheckScreenOK
<1> QED BY <1>2, <1>3, PressRows DEF HideScreen, CloseConsent

LEMMA RecheckRows ==
  ASSUME RowsInv, NEW id \in DOMAIN rs.rows, OnRecheck(id) \/ OnRun(id)
  PROVE  RowsInv'
<1>1. CheckScreenOK(host, rd, rs) /\ host \in Hosts BY DEF RowsInv
<1>2. /\ rs.rows # NoRows /\ id \in ChecksOf(host) \cup {Environment} /\ (rs.rows[id].runs => id \in ChecksOf(host))
      /\ rd.rows # NoRows
  BY <1>1, RunsOfAReport DEF CheckScreenOK
<1>3. CASE OnRecheck(id)
  <2>1. id \in ChecksOf(host) BY <1>2, <1>3 DEF OnRecheck
  <2>2. CheckScreenOK(host, rd, SetRunning(rs, id)) BY <1>1, <2>1, SetRunningIsOK
  <2>3. CheckScreenOK(host, rd, Ask(SetRunning(rs, id), "recheck", id)) BY <1>2, <2>1, <2>2, AskedIsOK
  <2> QED BY <1>3, <2>3, PressRows DEF OnRecheck
<1>4. CASE OnRun(id)
  <2>1. id \in ChecksOf(host) BY <1>2, <1>4 DEF OnRun
  <2>2. CheckScreenOK(host, rd, [rs EXCEPT !.consent = id]) BY <1>1, <1>2, <2>1 DEF CheckScreenOK
  <2> QED BY <1>4, <2>2, PressRows DEF OnRun
<1> QED BY <1>3, <1>4

LEMMA ConsentRows ==
  ASSUME RowsInv, RunConsented
  PROVE  RowsInv'
<1>1. CheckScreenOK(host, rd, rs) BY DEF RowsInv
<1>2. rs.consent \in ChecksOf(host) /\ rd.rows # NoRows BY <1>1 DEF CheckScreenOK, RunConsented
<1>3. CheckScreenOK(host, rd, SetRunning(rs, rs.consent)) BY <1>1, <1>2, SetRunningIsOK
<1>4. CheckScreenOK(host, rd, Ask(SetRunning(rs, rs.consent), "act", rs.consent)) BY <1>2, <1>3, AskedIsOK
<1> QED BY <1>4, PressRows DEF RunConsented

LEMMA CancelRows ==
  ASSUME RowsInv, OnCancel \/ OnRecheckAll
  PROVE  RowsInv'
<1>1. CheckScreenOK(host, rd, rs) BY DEF RowsInv
<1>2. CheckScreenOK(host, rd, Ask(rs, "cancel", NoCheck)) BY <1>1, AskedIsOK
<1>3. CheckScreenOK(host, rd, [rs EXCEPT !.cancelled = FALSE, !.starting = TRUE, !.checking = TRUE])
  BY <1>1 DEF CheckScreenOK
<1>4. CheckScreenOK(host, rd, Ask([rs EXCEPT !.cancelled = FALSE, !.starting = TRUE, !.checking = TRUE], "start", NoCheck))
  BY <1>3, AskedIsOK
<1> QED BY <1>2, <1>4, PressRows DEF OnCancel, OnRecheckAll

LEMMA HearRows ==
  ASSUME RowsInv, HearEvent
  PROVE  RowsInv'
<1>1. PICK e : e = Head(told) OBVIOUS
<1>2. /\ CheckScreenOK(host, rd, rs) /\ ToldOK(host, rd, told) /\ told # <<>> /\ told' = Tail(told)
      /\ host' = host /\ mach' = mach /\ rd' = rd /\ late' = late
  BY DEF RowsInv, HearEvent
<1>3. /\ e \in CheckEvent(host) /\ ToldOK(host, rd, told')
      /\ e.rows # NoRows \/ e.name \in {"progress", "done"} => rd.rows # NoRows
  BY <1>1, <1>2, ToldTail
<1>4. CheckScreenOK(host, rd, rs')
  <2>1. CheckScreenOK(host, rd, Handled(rs, e)) BY <1>2, <1>3, HandledIsOK
  <2>2. CheckScreenOK(host, rd, Heard(rs, e)) BY <2>1, WithdrawnIsOK DEF Heard
  <2> QED BY <1>1, <1>2, <2>2 DEF HearEvent
<1> QED BY <1>2, <1>3, <1>4 DEF RowsInv

LEMMA AnswerRows ==
  ASSUME RowsInv, NEW c \in rs.calls, HearAnswer(c)
  PROVE  RowsInv'
<1>1. CheckScreenOK(host, rd, rs) BY DEF RowsInv
<1>2. PICK s : s = [rs EXCEPT !.calls = @ \ {c}] OBVIOUS
<1>3. CheckScreenOK(host, rd, s)
  <2>1. rs.calls \ {c} \subseteq rs.calls OBVIOUS
  <2>2. s = [rs EXCEPT !.calls = rs.calls \ {c}] BY <1>2
  <2> QED BY <1>1, <2>1, <2>2, FewerCallsOK
<1>4. CheckScreenOK(host, rd, FailedStart(s)) BY <1>3 DEF FailedStart, CheckScreenOK
<1>5. ASSUME c.op = "read" PROVE CheckScreenOK(host, rd, ReadAnswer(s, c.got))
  <2>1. ReadGot(host, rd, c.got) BY <1>1, <1>5 DEF CheckScreenOK, CheckCallOK, HearAnswer
  <2> QED BY <1>3, <2>1, ReadIsOK
<1>6. CheckScreenOK(host, rd, rs')
  <2>1. \/ c.op = "read" /\ rs' = ReadAnswer(s, c.got)
        \/ rs' = FailedStart(s)
        \/ rs' = s
    BY <1>2 DEF HearAnswer
  <2> QED BY <1>3, <1>4, <1>5, <2>1
<1> QED BY <1>6, ScreenRows DEF HearAnswer

LEMMA RowsStep == RowsInv /\ [ReadinessNext]_rvars => RowsInv'
<1> SUFFICES ASSUME RowsInv, [ReadinessNext]_rvars PROVE RowsInv' OBVIOUS
<1>1. CASE MachineChanges BY <1>1, MachineRows
<1>2. CASE RunAction BY <1>2, ActionRows
<1>3. CASE FinishPass \/ FinishOne BY <1>3, FinishRows
<1>4. CASE EmitLate BY <1>4, EmitRows
<1>5. CASE \E id \in Checks : Probe(id) BY <1>5, ProbeRows
<1>6. CASE ShowScreen BY <1>6, ShowRows
<1>7. CASE HideScreen \/ CloseConsent BY <1>7, HideRows
<1>8. CASE RunConsented BY <1>8, ConsentRows
<1>9. CASE OnCancel \/ OnRecheckAll BY <1>9, CancelRows
<1>10. CASE \E id \in DOMAIN rs.rows : OnRecheck(id) \/ OnRun(id) BY <1>10, RecheckRows
<1>11. CASE HearEvent BY <1>11, HearRows
<1>12. CASE \E c \in rs.calls : Serve(c) \/ HearAnswer(c) BY <1>12, ServeRows, AnswerRows
<1>13. CASE UNCHANGED rvars BY <1>13 DEF rvars, RowsInv
<1> QED BY <1>1, <1>2, <1>3, <1>4, <1>5, <1>6, <1>7, <1>8, <1>9, <1>10, <1>11, <1>12, <1>13 DEF ReadinessNext

(* Once every row says what its check would find, a build may be attempted   *)
(* exactly when the engine has a way to run it (checks.go Decide*, report.go  *)
(* DeriveBuildEnvironment and With; bindings.go finishReadiness).             *)
THEOREM VerdictFollowsTheMachine == ReadinessSpec => []VerdictIsOfTheMachine
<1>1. RowsInv => VerdictIsOfTheMachine BY RowsGiveVerdict
<1> QED BY <1>1, RowsInit, RowsStep, PTL DEF ReadinessSpec

(***************************************************************************)
(* What comes to the screen                                                *)
(***************************************************************************)
LEMMA JobIsBusy ==
  ASSUME RowsInv
  PROVE  Busy <=> rd.job # NoJobRun
BY DEF RowsInv, CheckedOK, CheckJobOK, Busy, NoJobRun

LEMMA CallGot ==
  ASSUME NEW h, NEW r, NEW c, CheckCallOK(h, r, c), NEW got
  PROVE  /\ DOMAIN [c EXCEPT !.got = got] = {"op", "id", "got"} /\ [c EXCEPT !.got = got].op = c.op
         /\ [c EXCEPT !.got = got].id = c.id /\ [c EXCEPT !.got = got].got = got
BY DEF CheckCallOK

LEMMA QuietOfInv == QuietInv => QuietReadinessIsTrue
<1> SUFFICES ASSUME QuietInv, rs.mounted, rs.calls = {}, told = <<>>, late = <<>>, ~Busy
             PROVE  rs.rows = rd.rows /\ ~InUse(rs)
  BY DEF QuietReadinessIsTrue
<1>1. rd.job = NoJobRun BY JobIsBusy DEF QuietInv
<1>2. Len(told) = 0 BY DEF QuietInv
<1>3. ~SomeRows(told) /\ ~SomeEnd(told) BY <1>2 DEF SomeRows, SomeEnd
<1>4. ~RowsCome(late, told) /\ ~EndComes(rd, late, told) BY <1>1, <1>3 DEF RowsCome, EndComes
<1> QED BY <1>4 DEF QuietInv, ShownIs, ShowsRows, UseEnds, FirstRead

LEMMA QuietInit == ReadinessInit => QuietInv
<1> SUFFICES ASSUME ReadinessInit PROVE QuietInv OBVIOUS
<1>1. RowsInv BY RowsInit
<1>2. late = <<>> /\ told = <<>> /\ Len(told) = 0 /\ Len(late) = 0 BY DEF ReadinessInit
<1>3. rd.rows = NoRows /\ rd.checking = FALSE /\ rd.running = NoCheck /\ rd.job = NoJobRun BY DEF ReadinessInit
<1>4. /\ rs.mounted = FALSE /\ rs.visible = FALSE /\ rs.rows = NoRows /\ ~InUse(rs) /\ rs.consent = NoCheck /\ rs.cancelled = FALSE
  BY DEF ReadinessInit, InUse
<1>5. \A c \in rs.calls : c.op = "boot" BY DEF ReadinessInit
<1>6. LateIs(rd, late) /\ ToldIs(rd, late, told) BY <1>2 DEF LateIs, ToldIs
<1>7. Unmounted(rd, late, told, rs) BY <1>2, <1>3, <1>4, <1>5 DEF Unmounted
<1>8. ShownIs(rd, late, told, rs) BY <1>3, <1>4, <1>5, <1>7 DEF ShownIs, ShowsRows, UseEnds, ReadsAre
<1> QED BY <1>1, <1>6, <1>8 DEF QuietInv

\* A step of the job that says nothing yet.
LEMMA JobGoesOn ==
  ASSUME NEW r, NEW q, NEW l, NEW t, NEW s, LateIs(r, l), ToldIs(r, l, t), ShownIs(r, l, t, s),
         q.rows = r.rows, q.checking = r.checking, q.running = r.running,
         q.job = NoJobRun <=> r.job = NoJobRun, r.job.op = "pass" => q.job.op = "pass"
  PROVE  LateIs(q, l) /\ ToldIs(q, l, t) /\ ShownIs(q, l, t, s)
<1>1. LateIs(q, l) BY DEF LateIs
<1>2. ToldIs(q, l, t) BY DEF ToldIs
<1>3. EndComes(q, l, t) <=> EndComes(r, l, t) BY DEF EndComes
<1>4. Unmounted(r, l, t, s) => Unmounted(q, l, t, s) BY DEF Unmounted
<1>5. ShowsRows(q, l, t, s) /\ UseEnds(q, l, t, s) BY <1>3 DEF ShownIs, ShowsRows, UseEnds
<1>6. ReadsAre(q, l, t, s) BY <1>3 DEF ShownIs, ReadsAre, ReadIs
<1> QED BY <1>1, <1>2, <1>4, <1>5, <1>6 DEF ShownIs

LEMMA MachineQuiet ==
  ASSUME QuietInv, MachineChanges
  PROVE  QuietInv'
<1>1. RowsInv' BY MachineRows DEF QuietInv
<1> QED BY <1>1 DEF QuietInv, MachineChanges

LEMMA ActionQuiet ==
  ASSUME QuietInv, RunAction
  PROVE  QuietInv'
<1>1. RowsInv' BY ActionRows DEF QuietInv
<1>2. CheckedOK(host, rd) /\ rd.job # NoJobRun BY DEF QuietInv, RowsInv, RunAction, Busy, NoJobRun
<1>3. PICK j, k : j = rd.job /\ k = [j EXCEPT !.acted = TRUE] OBVIOUS
<1>4. rd' = [rd EXCEPT !.job = k] /\ late' = late /\ told' = told /\ rs' = rs BY <1>3 DEF RunAction
<1>5. k.op = j.op /\ k.ids = j.ids /\ k # NoJobRun
  <2>1. DOMAIN k = {"op", "ids", "answers", "acted", "cancelled"} /\ k.op = j.op /\ k.ids = j.ids
    BY <1>2, <1>3 DEF CheckedOK, CheckJobOK
  <2> QED BY <1>2, <1>3, <2>1 DEF CheckedOK, CheckJobOK, NoJobRun
<1>6. rd'.rows = rd.rows /\ rd'.checking = rd.checking /\ rd'.running = rd.running /\ rd'.job = k
  BY <1>2, <1>4 DEF CheckedOK
<1>7. LateIs(rd', late) /\ ToldIs(rd', late, told) /\ ShownIs(rd', late, told, rs)
  BY <1>2, <1>3, <1>5, <1>6, JobGoesOn DEF QuietInv
<1> QED BY <1>1, <1>4, <1>7 DEF QuietInv

LEMMA ProbeQuiet ==
  ASSUME QuietInv, NEW id \in Checks, Probe(id)
  PROVE  QuietInv'
<1>1. RowsInv' BY ProbeRows DEF QuietInv
<1>2. CheckedOK(host, rd) /\ rd.job # NoJobRun BY DEF QuietInv, RowsInv, Probe, Busy, NoJobRun
<1>3. PICK j : j = rd.job OBVIOUS
<1>4. PICK k, b : k = [j EXCEPT !.answers = b] /\ rd' = [rd EXCEPT !.job = k] BY <1>3 DEF Probe
<1>5. k.op = j.op /\ k # NoJobRun
  <2>1. DOMAIN k = {"op", "ids", "answers", "acted", "cancelled"} /\ k.op = j.op BY <1>2, <1>3, <1>4 DEF CheckedOK, CheckJobOK
  <2> QED BY <1>2, <1>3, <2>1 DEF CheckedOK, CheckJobOK, NoJobRun
<1>6. rd'.rows = rd.rows /\ rd'.checking = rd.checking /\ rd'.running = rd.running /\ rd'.job = k
  BY <1>2, <1>4 DEF CheckedOK
<1>7. LateIs(rd', late) /\ ToldIs(rd', late, told) /\ ShownIs(rd', late, told, rs)
  BY <1>2, <1>3, <1>5, <1>6, JobGoesOn DEF QuietInv
<1> QED BY <1>1, <1>7 DEF QuietInv, Probe

LEMMA FinishQuiet ==
  ASSUME QuietInv, FinishPass \/ FinishOne
  PROVE  QuietInv'
<1>1. RowsInv' BY FinishRows DEF QuietInv
<1>2. /\ told' = told /\ rs' = rs /\ rd'.rows # NoRows /\ rd'.job = NoJobRun /\ rd'.running = NoCheck
      /\ Len(late') \in 1..2 /\ late'[Len(late')].name = "finished" /\ late'[Len(late')].rows = rd'.rows
      /\ Len(late') = 2 => late'[1].name = "done"
      /\ late' \in Seq(CheckEvent(host))
  <2>1. CASE FinishPass
    <3>1. /\ told' = told /\ rs' = rs /\ rd'.rows # NoRows /\ rd'.job = NoJobRun /\ rd'.running = NoCheck
          /\ Len(late') = 1 /\ late'[1].name = "finished" /\ late'[1].rows = rd'.rows /\ ToldOK(host, rd', late')
      BY Zenon, <2>1, PassEnd DEF QuietInv
    <3> QED BY <3>1 DEF ToldOK
  <2>2. CASE FinishOne
    <3>1. /\ told' = told /\ rs' = rs /\ rd'.rows # NoRows /\ rd'.job = NoJobRun /\ rd'.running = NoCheck
          /\ Len(late') = 2 /\ late'[2].name = "finished" /\ late'[2].rows = rd'.rows /\ late'[1].name = "done"
          /\ ToldOK(host, rd', late')
      BY Zenon, <2>2, OneEnd DEF QuietInv
    <3> QED BY <3>1 DEF ToldOK
  <2> QED BY <2>1, <2>2
<1>3. late' # <<>>
  <2>1. Len(<<>>) = 0 OBVIOUS
  <2>2. Len(late') \in 1..2 BY <1>2
  <2> QED BY <2>1, <2>2
<1>4. LateIs(rd', late') /\ ToldIs(rd', late', told') BY <1>2, <1>3 DEF LateIs, ToldIs
<1>5. EndComes(rd', late', told') /\ RowsCome(late', told') BY <1>3 DEF EndComes, RowsCome
<1>6. ~rs.mounted => Unmounted(rd', late', told', rs')
  <2>1. ASSUME ~rs.mounted, FinishOne PROVE FALSE
    <3>1. rd.job # NoJobRun /\ rd.job.op # "pass" BY <2>1, OneEnd DEF QuietInv
    <3> QED BY <2>1, <3>1 DEF QuietInv, ShownIs, Unmounted
  <2>2. FinishPass => Len(late') = 1 BY PassEnd DEF QuietInv
  <2> QED BY <1>2, <2>1, <2>2 DEF QuietInv, ShownIs, Unmounted
<1>7. ~rd'.checking
  <2>1. CASE FinishPass
    <3>1. rd'.checking = FALSE BY <2>1, PassEnd DEF QuietInv
    <3> QED BY Zenon, <3>1
  <2>2. CASE FinishOne
    <3>1. rd'.checking = rd.checking /\ rd.job.op # "pass" BY <2>2, OneEnd DEF QuietInv
    <3> QED BY <3>1 DEF QuietInv, ShownIs
  <2> QED BY <2>1, <2>2
<1>8. ShownIs(rd', late', told', rs')
  <2>1. ReadsAre(rd', late', told', rs') BY <1>2, <1>5 DEF QuietInv, ShownIs, ReadsAre, ReadIs
  <2> QED BY <1>2, <1>5, <1>6, <1>7, <2>1 DEF ShownIs, ShowsRows, UseEnds
<1> QED BY <1>1, <1>4, <1>8 DEF QuietInv

LEMMA EmitQuiet ==
  ASSUME QuietInv, EmitLate
  PROVE  QuietInv'
<1>1. RowsInv' BY EmitRows DEF QuietInv
<1>2. PICK r, l, t, s, e : r = rd /\ l = late /\ t = told /\ s = rs /\ e = Head(late) OBVIOUS
<1>3. PICK m, u : m = Tail(l) /\ u = Append(t, e) OBVIOUS
<1>4. l # <<>> /\ late' = m /\ told' = u /\ rd' = r /\ rs' = s BY <1>2, <1>3 DEF EmitLate
<1>5. LateIs(r, l) /\ ToldIs(r, l, t) /\ ShownIs(r, l, t, s) BY <1>2 DEF QuietInv
<1>6. /\ Len(m) = Len(l) - 1 /\ e = l[1] /\ e \in CheckEvent(host) /\ m \in Seq(CheckEvent(host))
      /\ \A i \in 1..Len(m) : m[i] = l[i + 1]
      /\ e.rows # NoRows \/ e.name \in {"progress", "done"} => r.rows # NoRows
  BY <1>2, <1>3, <1>4, ToldTail DEF QuietInv, RowsInv, ToldOK
<1>7. /\ u \in Seq(CheckEvent(host)) /\ Len(u) = Len(t) + 1 /\ Len(t) \in Nat
      /\ u[Len(t) + 1] = e /\ \A i \in 1..Len(t) : u[i] = t[i]
  BY <1>2, <1>3, <1>6, ToldAppend DEF QuietInv, RowsInv, ToldOK
<1>8. Len(l) \in 1..2 /\ l[Len(l)].name = "finished" /\ l[Len(l)].rows = r.rows /\ (Len(l) = 2 => l[1].name = "done")
  BY <1>4, <1>5 DEF LateIs
<1>9. LateIs(r, m) /\ ToldIs(r, m, u) /\ RowsCome(m, u) /\ EndComes(r, m, u)
  <2>1. CASE Len(l) = 2
    <3>1. Len(m) = 1 /\ m[1] = l[2] BY <1>6, <2>1
    <3>2. m # <<>>
      <4>1. Len(<<>>) = 0 OBVIOUS
      <4> QED BY <3>1, <4>1
    <3>3. LateIs(r, m) BY <1>8, <2>1, <3>1 DEF LateIs
    <3> QED BY <3>2, <3>3 DEF ToldIs, RowsCome, EndComes
  <2>2. CASE Len(l) = 1
    <3>1. e.name = "finished" /\ e.rows = r.rows /\ e.rows # NoRows BY <1>6, <1>8, <2>2, EventFields
    <3>2. m = <<>> BY <1>6, <2>2
    <3>3. Len(t) + 1 \in 1..Len(u) BY <1>7
    <3>4. SomeRows(u) /\ SomeEnd(u) BY <1>7, <3>1, <3>3 DEF SomeRows, SomeEnd, Ends
    <3>5. ASSUME NEW i \in 1..Len(u), u[i].rows # NoRows, \A j \in 1..Len(u) : i < j => u[j].rows = NoRows
          PROVE  u[i].rows = r.rows
      <4>1. i = Len(t) + 1 BY <1>7, <3>1, <3>3, <3>5
      <4> QED BY <1>7, <3>1, <4>1
    <3>6. ASSUME NEW i \in 1..Len(u), u[i].name # "finished" PROVE \E j \in 1..Len(u) : i < j /\ Ends(u, j)
      <4>1. i # Len(t) + 1 BY <1>7, <3>1, <3>6
      <4>2. i < Len(t) + 1 BY <1>7, <4>1
      <4> QED BY <1>7, <3>1, <3>3, <4>2 DEF Ends
    <3>7. ToldIs(r, m, u) BY <3>5, <3>6 DEF ToldIs
    <3> QED BY <3>2, <3>4, <3>7 DEF LateIs, RowsCome, EndComes
  <2> QED BY <1>8, <2>1, <2>2
<1>10. ASSUME ~s.mounted PROVE Unmounted(r, m, u, s)
  <2>1. Unmounted(r, l, t, s) BY <1>5, <1>10 DEF ShownIs
  <2>2. Len(l) = 1 BY <1>8, <2>1 DEF Unmounted
  <2>3. e.name = "finished" /\ Len(m) <= 1 BY <1>6, <1>8, <2>2
  <2>4. \A i \in 1..Len(u) : u[i].name \in {"started", "finished"}
    <3>1. \A i \in 1..Len(u) : i \in 1..Len(t) \/ i = Len(t) + 1 BY <1>7
    <3> QED BY <1>7, <2>1, <2>3, <3>1 DEF Unmounted
  <2> QED BY <2>1, <2>3, <2>4 DEF Unmounted
<1>11. ShownIs(r, m, u, s)
  <2>1. ReadsAre(r, m, u, s) BY <1>5, <1>9 DEF ShownIs, ReadsAre, ReadIs
  <2> QED BY <1>5, <1>9, <1>10, <2>1 DEF ShownIs, ShowsRows, UseEnds
<1> QED BY <1>1, <1>4, <1>9, <1>11 DEF QuietInv

\* A call of the screen that has been served.
LEMMA ServedShown ==
  ASSUME NEW h, NEW r, NEW l, NEW t, NEW s, CheckScreenOK(h, r, s), ShownIs(r, l, t, s),
         NEW c \in s.calls, NEW got, NEW d, d = [c EXCEPT !.got = got],
         Settles(c) => EndComes(r, l, t) \/ Settles(d), c.op = "read" => ReadIs(r, l, t, s, d)
  PROVE  ShownIs(r, l, t, [s EXCEPT !.calls = (@ \ {c}) \cup {d}])
<1>1. d.op = c.op /\ d.got = got
  <2>1. CheckCallOK(h, r, c) BY DEF CheckScreenOK
  <2> QED BY <2>1, CallGot
<1>2. PICK q : q = [s EXCEPT !.calls = (@ \ {c}) \cup {d}] OBVIOUS
<1>3. /\ q.mounted = s.mounted /\ q.visible = s.visible /\ q.rows = s.rows /\ q.checking = s.checking /\ q.running = s.running
      /\ q.starting = s.starting /\ q.cancelled = s.cancelled /\ q.consent = s.consent
      /\ q.calls = (s.calls \ {c}) \cup {d}
  BY <1>2 DEF CheckScreenOK
<1>4. InUse(q) <=> InUse(s) BY <1>3 DEF InUse
<1>5. Unmounted(r, l, t, s) => Unmounted(r, l, t, q) BY <1>1, <1>3, <1>4 DEF Unmounted
<1>6. FirstRead(t, s) => FirstRead(t, q) BY <1>1, <1>3 DEF FirstRead
<1>7. UseEnds(r, l, t, q)
  <2>1. ASSUME InUse(q), ~EndComes(r, l, t) PROVE \E x \in q.calls : Settles(x)
    <3>1. PICK x \in s.calls : Settles(x) BY <1>4, <2>1 DEF ShownIs, UseEnds
    <3>2. CASE x = c BY <1>3, <2>1, <3>1, <3>2
    <3>3. CASE x # c BY <1>3, <3>1, <3>3
    <3> QED BY <3>2, <3>3
  <2> QED BY <2>1 DEF UseEnds
<1>8. ReadsAre(r, l, t, q)
  <2>1. ASSUME NEW x \in q.calls, x.op = "read", x.got # Nothing PROVE ReadIs(r, l, t, q, x)
    <3>1. ReadIs(r, l, t, s, x)
      <4>1. CASE x = d BY <1>1, <2>1, <4>1
      <4>2. CASE x # d BY <1>3, <2>1, <4>2 DEF ShownIs, ReadsAre
      <4> QED BY <4>1, <4>2
    <3> QED BY <1>3, <3>1 DEF ReadIs
  <2> QED BY <2>1 DEF ReadsAre
<1> QED BY <1>2, <1>3, <1>5, <1>6, <1>7, <1>8 DEF ShownIs, ShowsRows

\* A job starts and says so.
LEMMA StartIsTold ==
  ASSUME NEW h, NEW r, NEW q, NEW l, NEW t, NEW s, LateIs(r, l), ToldIs(r, l, t), ShownIs(r, l, t, s), ToldOK(h, r, t),
         q.rows = r.rows, q.job # NoJobRun, q.checking => q.job.op = "pass", NEW e \in CheckEvent(h), NEW u, u = Append(t, e),
         \/ e.name = "started" /\ e.rows = r.rows /\ q.job.op = "pass"
         \/ e.name = "progress" /\ r.rows # NoRows /\ s.mounted /\ ~FirstRead(t, s)
  PROVE  LateIs(q, l) /\ ToldIs(q, l, u) /\ ShownIs(q, l, u, s) /\ EndComes(q, l, u)
<1>1. /\ Len(u) = Len(t) + 1 /\ Len(t) \in Nat /\ u[Len(t) + 1] = e /\ \A i \in 1..Len(t) : u[i] = t[i]
      /\ e.name = "progress" => e.rows = NoRows
  <2>1. e.rows # NoRows \/ e.name \in {"progress", "done"} => r.rows # NoRows BY EventFields
  <2>2. e.name = "progress" => e.rows = NoRows BY EventFields
  <2> QED BY <2>1, <2>2, ToldAppend
<1>2. Len(t) + 1 \in 1..Len(u) /\ \A i \in 1..Len(u) : i \in 1..Len(t) \/ i = Len(t) + 1 BY <1>1
<1>3. \A i \in 1..Len(t) : i \in 1..Len(u) /\ i < Len(t) + 1 BY <1>1
<1>4. LateIs(q, l) BY DEF LateIs
<1>5. EndComes(q, l, u) BY DEF EndComes
<1>6. RowsCome(l, t) => RowsCome(l, u)
  <2>1. SomeRows(t) => SomeRows(u) BY <1>1, <1>3 DEF SomeRows
  <2> QED BY <2>1 DEF RowsCome
<1>7. ToldIs(q, l, u)
  <2> SUFFICES ASSUME l = <<>>
               PROVE  /\ \A i \in 1..Len(u) :
                           u[i].rows # NoRows /\ (\A j \in 1..Len(u) : i < j => u[j].rows = NoRows) => u[i].rows = q.rows
                      /\ \A i \in 1..Len(u) :
                           /\ u[i].name = "started" /\ u[i].rows = NoRows => q.rows = NoRows \/ \E j \in 1..Len(u) : i < j /\ Ends(u, j)
                           /\ u[i].name = "done" => \E j \in 1..Len(u) : i < j /\ Ends(u, j)
    BY DEF ToldIs
  <2>1. ASSUME NEW i \in 1..Len(u), u[i].rows # NoRows, \A j \in 1..Len(u) : i < j => u[j].rows = NoRows
        PROVE  u[i].rows = q.rows
    <3>1. CASE i \in 1..Len(t)
      <4>1. e.rows = NoRows BY <1>1, <1>2, <1>3, <2>1, <3>1
      <4>2. r.rows # NoRows BY <1>1, <2>1, <3>1 DEF ToldOK
      <4>3. \A j \in 1..Len(t) : i < j => t[j].rows = NoRows BY <1>1, <1>3, <2>1
      <4>4. t[i].rows = r.rows BY <1>1, <2>1, <3>1, <4>3 DEF ToldIs
      <4> QED BY <1>1, <3>1, <4>4
    <3>2. CASE i = Len(t) + 1 BY <1>1, <2>1, <3>2
    <3> QED BY <1>2, <3>1, <3>2
  <2>2. ASSUME NEW i \in 1..Len(t), \E j \in 1..Len(t) : i < j /\ Ends(t, j)
        PROVE  \E j \in 1..Len(u) : i < j /\ Ends(u, j)
    BY <1>1, <1>3, <2>2 DEF Ends
  <2>3. ASSUME NEW i \in 1..Len(u), u[i].name = "started", u[i].rows = NoRows
        PROVE  q.rows = NoRows \/ \E j \in 1..Len(u) : i < j /\ Ends(u, j)
    <3>1. CASE i \in 1..Len(t)
      <4>1. r.rows = NoRows \/ \E j \in 1..Len(t) : i < j /\ Ends(t, j) BY <1>1, <2>3, <3>1 DEF ToldIs
      <4> QED BY <2>2, <3>1, <4>1
    <3>2. CASE i = Len(t) + 1 BY <1>1, <2>3, <3>2
    <3> QED BY <1>2, <3>1, <3>2
  <2>4. ASSUME NEW i \in 1..Len(u), u[i].name = "done" PROVE \E j \in 1..Len(u) : i < j /\ Ends(u, j)
    <3>1. i \in 1..Len(t) BY <1>1, <1>2, <2>4
    <3>2. \E j \in 1..Len(t) : i < j /\ Ends(t, j) BY <1>1, <2>4, <3>1 DEF ToldIs
    <3> QED BY <2>2, <3>1, <3>2
  <2> QED BY <2>1, <2>3, <2>4
<1>8. ASSUME ~s.mounted PROVE Unmounted(q, l, u, s)
  <2>1. Unmounted(r, l, t, s) BY <1>8 DEF ShownIs
  <2>2. \A i \in 1..Len(u) : u[i].name \in {"started", "finished"} BY <1>1, <1>2, <1>8, <2>1 DEF Unmounted
  <2> QED BY <1>8, <2>1, <2>2 DEF Unmounted
<1>9. ShowsRows(q, l, u, s)
  <2>1. ASSUME FirstRead(t, s) PROVE RowsCome(l, u) \/ s.rows = q.rows
    <3>1. e.rows = r.rows /\ s.rows = NoRows BY <2>1 DEF FirstRead
    <3> QED BY <1>1, <1>2, <3>1 DEF RowsCome, SomeRows
  <2> QED BY <1>6, <2>1 DEF ShownIs, ShowsRows
<1>10. ReadsAre(q, l, u, s) BY <1>5, <1>6 DEF ShownIs, ReadsAre, ReadIs
<1>11. ShownIs(q, l, u, s) BY <1>5, <1>8, <1>9, <1>10 DEF ShownIs, UseEnds
<1> QED BY <1>4, <1>5, <1>7, <1>11

LEMMA ServeQuiet ==
  ASSUME QuietInv, NEW c \in rs.calls, Serve(c)
  PROVE  QuietInv'
<1>1. RowsInv' BY ServeRows DEF QuietInv
<1>2. PICK h, r, l, t, s : h = host /\ r = rd /\ l = late /\ t = told /\ s = rs OBVIOUS
<1>3. /\ CheckedOK(h, r) /\ ToldOK(h, r, t) /\ CheckScreenOK(h, r, s) /\ h \in Hosts
      /\ LateIs(r, l) /\ ToldIs(r, l, t) /\ ShownIs(r, l, t, s)
  BY <1>2 DEF QuietInv, RowsInv
<1>4. c \in s.calls /\ CheckCallOK(h, r, c) /\ c.got = Nothing /\ late' = l BY <1>2, <1>3 DEF CheckScreenOK, Serve
<1>5. Busy <=> r.job # NoJobRun BY <1>2, JobIsBusy DEF QuietInv
<1>6. SUFFICES LateIs(rd', l) /\ ToldIs(rd', l, told') /\ ShownIs(rd', l, told', rs') BY <1>1, <1>4 DEF QuietInv
<1>7. CASE Readiness(c)
  <2>1. PICK got : got = [is |-> "report", rows |-> rd.rows, checking |-> rd.checking, running |-> rd.running] OBVIOUS
  <2>2. PICK d : d = [c EXCEPT !.got = got] OBVIOUS
  <2>3. rs' = [s EXCEPT !.calls = (@ \ {c}) \cup {d}] /\ rd' = r /\ told' = t
    BY <1>2, <1>7, <2>1, <2>2 DEF Readiness, Served
  <2>4. d.op = "read" /\ d.got = got /\ c.op = "read" BY <1>4, <1>7, <2>2, CallGot DEF Readiness
  <2>5. got.rows = r.rows /\ got.checking = r.checking /\ got.running = r.running BY <1>2, <2>1
  <2>6. ReadIs(r, l, t, s, d)
    <3>1. d.got.checking \/ d.got.running # NoCheck => EndComes(r, l, t) BY <1>3, <2>4, <2>5 DEF ShownIs, EndComes
    <3> QED BY <1>3, <2>4, <2>5, <3>1 DEF ReadIs, ShownIs
  <2>7. Settles(d) BY <2>4 DEF Settles
  <2>8. ShownIs(r, l, t, rs') BY <1>3, <1>4, <2>2, <2>3, <2>6, <2>7, ServedShown
  <2> QED BY <1>3, <2>3, <2>8
<1>8. ASSUME NEW q, CheckScreenOK(h, q, s), NEW u, NEW got \in {Accepted, Refused}, Served(c, got), c.op # "read",
             LateIs(q, l), ToldIs(q, l, u), ShownIs(q, l, u, s), rd' = q, told' = u,
             EndComes(q, l, u) \/ c.op \in {"boot", "cancel"} \/ (got = Refused /\ c.op \in {"recheck", "act"})
      PROVE  LateIs(rd', l) /\ ToldIs(rd', l, told') /\ ShownIs(rd', l, told', rs')
  <2>1. PICK d : d = [c EXCEPT !.got = got] OBVIOUS
  <2>2. rs' = [s EXCEPT !.calls = (@ \ {c}) \cup {d}] BY <1>2, <1>8, <2>1 DEF Served
  <2>3. d.op = c.op /\ d.got = got BY <1>4, <2>1, CallGot
  <2>4. Settles(c) => EndComes(q, l, u) \/ Settles(d) BY <1>8, <2>3 DEF Settles
  <2>5. ShownIs(q, l, u, rs') BY <1>4, <1>8, <2>1, <2>2, <2>4, ServedShown
  <2> QED BY <1>8, <2>5
<1>9. CASE StartReadinessCheck(c)
  <2>1. CASE Busy /\ Served(c, Refused) /\ UNCHANGED <<rd, told>>
    <3>1. EndComes(r, l, t) /\ c.op # "read" /\ rd' = r /\ told' = t BY <1>2, <1>5, <1>9, <2>1 DEF EndComes, StartReadinessCheck
    <3> QED BY <1>3, <1>8, <2>1, <3>1
  <2>2. CASE /\ ~Busy /\ Served(c, Accepted)
             /\ rd' = [rd EXCEPT !.checking = TRUE, !.running = NoCheck, !.job = JobOf("pass", Checks)]
             /\ told' = Append(told, EventOf("started", NoCheck, rd.rows, FALSE))
    <3>1. PICK q, u, e : q = rd' /\ u = told' /\ e = EventOf("started", NoCheck, rd.rows, FALSE) OBVIOUS
    <3>2. q.rows = r.rows /\ q.job # NoJobRun /\ q.job.op = "pass"
      BY <1>2, <1>3, <2>2, <3>1 DEF CheckedOK, JobOf, NoJobRun
    <3>3. e \in CheckEvent(h) /\ e.name = "started" /\ e.rows = r.rows
      <4>1. PICK id \in ChecksOf(h) : id # NoCheck BY <1>3, ChecksAre
      <4>2. r.rows \in ReportOf(h) BY <1>3 DEF CheckedOK
      <4>3. EventOf("started", NoCheck, r.rows, FALSE) \in CheckEvent(h)
            /\ EventOf("started", NoCheck, r.rows, FALSE).name = "started" /\ EventOf("started", NoCheck, r.rows, FALSE).rows = r.rows
        BY Zenon, <4>1, <4>2, PlainEventsAre
      <4> QED BY Zenon, <1>2, <3>1, <4>3
    <3>4. u = Append(t, e) BY <1>2, <2>2, <3>1
    <3>5. LateIs(q, l) /\ ToldIs(q, l, u) /\ ShownIs(q, l, u, s) /\ EndComes(q, l, u)
      BY <1>3, <3>2, <3>3, <3>4, StartIsTold
    <3>6. CheckScreenOK(h, q, s) /\ c.op # "read" BY <1>3, <1>9, <3>2, KeepsScreen DEF Keeps, StartReadinessCheck
    <3> QED BY <1>8, <2>2, <3>1, <3>5, <3>6
  <2> QED BY <1>9, <2>1, <2>2 DEF StartReadinessCheck
<1>10. CASE RunReadiness(c)
  <2>1. CASE Served(c, Refused) /\ UNCHANGED <<rd, told>>
    <3>1. c.op \in {"recheck", "act"} /\ rd' = r /\ told' = t BY <1>2, <1>10, <2>1 DEF RunReadiness
    <3> QED BY <1>3, <1>8, <2>1, <3>1
  <2>2. CASE /\ ~Busy /\ Served(c, Accepted)
             /\ rd' = [rd EXCEPT !.running = c.id, !.job = JobOf(c.op, {c.id})]
             /\ told' = Append(told, EventOf("progress", c.id, NoRows, FALSE))
    <3>1. PICK q, u, e : q = rd' /\ u = told' /\ e = EventOf("progress", c.id, NoRows, FALSE) OBVIOUS
    <3>2. c.op \in {"recheck", "act"} /\ c.id \in ChecksOf(h) /\ r.rows # NoRows BY <1>4, <1>10 DEF RunReadiness, CheckCallOK
    <3>3. q.rows = r.rows /\ q.job # NoJobRun /\ q.checking = r.checking
      BY <1>2, <1>3, <2>2, <3>1, <3>2 DEF CheckedOK, JobOf, NoJobRun
    <3>4. e \in CheckEvent(h) /\ e.name = "progress"
      <4>1. c.id # NoCheck /\ NoRows \in ReportOf(h) BY <1>3, <3>2, ChecksAre DEF ReportOf
      <4>2. EventOf("progress", c.id, NoRows, FALSE) \in CheckEvent(h) /\ EventOf("progress", c.id, NoRows, FALSE).name = "progress"
        BY Zenon, <3>2, <4>1, PlainEventsAre
      <4> QED BY Zenon, <3>1, <4>2
    <3>5. u = Append(t, e) BY <1>2, <2>2, <3>1
    <3>6. s.mounted /\ ~FirstRead(t, s) BY <1>3, <1>4, <3>2 DEF ShownIs, Unmounted, FirstRead
    <3>7. ~r.checking BY <1>2, <1>3, <1>5, <2>2 DEF ShownIs
    <3>8. LateIs(q, l) /\ ToldIs(q, l, u) /\ ShownIs(q, l, u, s) /\ EndComes(q, l, u)
      BY <1>3, <3>2, <3>3, <3>4, <3>5, <3>6, <3>7, StartIsTold
    <3>9. CheckScreenOK(h, q, s) BY <1>3, <3>3, KeepsScreen DEF Keeps
    <3> QED BY <1>8, <2>2, <3>1, <3>2, <3>8, <3>9
  <2> QED BY <1>10, <2>1, <2>2 DEF RunReadiness
<1>11. CASE CancelReadinessCheck(c)
  <2>1. c.op = "cancel" /\ Served(c, Accepted) /\ told' = t BY <1>2, <1>11 DEF CancelReadinessCheck
  <2>2. CASE rd' = r BY <1>3, <1>8, <2>1, <2>2
  <2>3. CASE rd' # r
    <3>1. PICK j, k : j = r.job /\ k = [j EXCEPT !.cancelled = TRUE] OBVIOUS
    <3>2. rd' = [r EXCEPT !.job = k] /\ j # NoJobRun BY <1>2, <1>5, <1>11, <2>3, <3>1 DEF CancelReadinessCheck
    <3>3. k.op = j.op /\ k # NoJobRun
      <4>1. DOMAIN k = {"op", "ids", "answers", "acted", "cancelled"} /\ k.op = j.op BY <1>3, <3>1, <3>2 DEF CheckedOK, CheckJobOK
      <4> QED BY <1>3, <3>1, <3>2, <4>1 DEF CheckedOK, CheckJobOK, NoJobRun
    <3>4. rd'.rows = r.rows /\ rd'.checking = r.checking /\ rd'.running = r.running /\ rd'.job = k
      BY <1>3, <3>2 DEF CheckedOK
    <3>5. LateIs(rd', l) /\ ToldIs(rd', l, t) /\ ShownIs(rd', l, t, s) BY <1>3, <3>1, <3>2, <3>3, <3>4, JobGoesOn
    <3>6. CheckScreenOK(h, rd', s) BY <1>3, <3>4, KeepsScreen DEF Keeps
    <3> QED BY <1>8, <2>1, <3>5, <3>6
  <2> QED BY <2>2, <2>3
<1> QED BY <1>7, <1>9, <1>10, <1>11 DEF Serve

\* A press on a screen that was shown.
LEMMA PressShown ==
  ASSUME NEW r, NEW l, NEW t, NEW s, ShownIs(r, l, t, s), NEW q, s.mounted, q.mounted, q.rows = s.rows,
         q.cancelled => s.cancelled, s.calls \subseteq q.calls, \A c \in q.calls \ s.calls : c.got = Nothing,
         InUse(q) => InUse(s) \/ \E c \in q.calls : Settles(c), FirstRead(t, s) => FirstRead(t, q)
  PROVE  ShownIs(r, l, t, q)
<1>1. ShowsRows(r, l, t, q) BY DEF ShownIs, ShowsRows
<1>2. UseEnds(r, l, t, q) BY DEF ShownIs, UseEnds
<1>3. ReadsAre(r, l, t, q)
  <2>1. ASSUME NEW c \in q.calls, c.op = "read", c.got # Nothing PROVE ReadIs(r, l, t, q, c)
    <3>1. ReadIs(r, l, t, s, c) BY <2>1 DEF ShownIs, ReadsAre
    <3> QED BY <3>1 DEF ReadIs
  <2> QED BY <2>1 DEF ReadsAre
<1> QED BY <1>1, <1>2, <1>3 DEF ShownIs

LEMMA PressQuiet ==
  ASSUME QuietInv, RowsInv', NEW s, Press(s), ShownIs(rd, late, told, s)
  PROVE  QuietInv'
BY DEF QuietInv, Press

LEMMA AskFields ==
  ASSUME NEW h, NEW r, NEW s, CheckScreenOK(h, r, s), NEW op, NEW id
  PROVE  /\ Ask(s, op, id).mounted = s.mounted /\ Ask(s, op, id).rows = s.rows /\ Ask(s, op, id).cancelled = s.cancelled
         /\ Ask(s, op, id).consent = s.consent /\ (InUse(Ask(s, op, id)) <=> InUse(s))
         /\ Ask(s, op, id).calls = s.calls \cup {[op |-> op, id |-> id, got |-> Nothing]}
BY DEF CheckScreenOK, Ask, InUse

LEMMA NewCallSettles ==
  ASSUME NEW op, NEW id
  PROVE  LET c == [op |-> op, id |-> id, got |-> Nothing]
         IN /\ c.op = op /\ c.got = Nothing
            /\ op \in {"read", "startIfEmpty", "start", "recheck", "act"} => Settles(c)
BY DEF Settles

\* A press that asks for something.
LEMMA AskQuiet ==
  ASSUME QuietInv, NEW s, CheckScreenOK(host, rd, s), NEW op, NEW id, rs.mounted, s.mounted, s.rows = rs.rows, s.calls = rs.calls,
         s.cancelled => rs.cancelled, op \in {"start", "recheck", "act"} \/ (InUse(s) => InUse(rs)),
         ~FirstRead(told, rs) \/ (op \notin {"recheck", "act"} /\ s.consent = NoCheck)
  PROVE  ShownIs(rd, late, told, Ask(s, op, id))
<1>1. PICK c : c = [op |-> op, id |-> id, got |-> Nothing] OBVIOUS
<1>2. c.op = op /\ c.got = Nothing /\ (op \in {"start", "recheck", "act"} => Settles(c)) BY <1>1, NewCallSettles
<1>3. PICK q : q = Ask(s, op, id) OBVIOUS
<1>4. /\ q.mounted /\ q.rows = rs.rows /\ q.cancelled = s.cancelled /\ q.consent = s.consent /\ (InUse(q) <=> InUse(s))
      /\ q.calls = rs.calls \cup {c}
  BY <1>1, <1>3, AskFields
<1>5. FirstRead(told, rs) => FirstRead(told, q) BY <1>2, <1>4 DEF FirstRead
<1>6. InUse(q) => InUse(rs) \/ \E x \in q.calls : Settles(x) BY <1>2, <1>4
<1> QED BY <1>2, <1>3, <1>4, <1>5, <1>6, PressShown DEF QuietInv

LEMMA VisibleIsMounted ==
  ASSUME QuietInv, rs.visible \/ rs.consent # NoCheck \/ rs.rows # NoRows
  PROVE  rs.mounted
BY DEF QuietInv, ShownIs, Unmounted

LEMMA ShowQuiet ==
  ASSUME QuietInv, ShowScreen
  PROVE  QuietInv'
<1>1. RowsInv' BY ShowRows DEF QuietInv
<1>2. PICK r, l, t, s : r = rd /\ l = late /\ t = told /\ s = rs OBVIOUS
<1>3. /\ CheckScreenOK(host, r, s) /\ ToldOK(host, r, t) /\ ToldIs(r, l, t) /\ ShownIs(r, l, t, s)
  BY <1>2 DEF QuietInv, RowsInv
<1>4. PICK o : o = [s EXCEPT !.mounted = TRUE, !.visible = TRUE, !.starting = @ \/ (~s.started /\ s.rows = NoRows)] OBVIOUS
<1>5. PICK c : c = [op |-> "read", id |-> NoCheck, got |-> Nothing] OBVIOUS
<1>6. c.op = "read" /\ c.got = Nothing /\ Settles(c) BY <1>5, NewCallSettles
<1>7. PICK q : q = RefreshFromBackend(o) OBVIOUS
<1>8. Press(q) BY <1>2, <1>4, <1>7 DEF ShowScreen
<1>9. /\ q.mounted = TRUE /\ q.rows = s.rows /\ q.cancelled = s.cancelled /\ q.consent = s.consent
      /\ q.calls = {x \in s.calls : x.op # "read"} \cup {c}
  <2>1. /\ o.mounted = TRUE /\ o.rows = s.rows /\ o.cancelled = s.cancelled /\ o.consent = s.consent /\ o.calls = s.calls
        /\ DOMAIN o = DOMAIN s
    BY <1>3, <1>4 DEF CheckScreenOK
  <2>2. PICK w : w = Withdraw(o) OBVIOUS
  <2>3. /\ w.mounted = TRUE /\ w.rows = s.rows /\ w.cancelled = s.cancelled /\ w.consent = s.consent
        /\ w.calls = {x \in s.calls : x.op # "read"} /\ DOMAIN w = DOMAIN s
    BY <1>3, <2>1, <2>2 DEF CheckScreenOK, Withdraw
  <2>4. q = [w EXCEPT !.calls = @ \cup {c}] BY <1>5, <1>7, <2>2 DEF RefreshFromBackend, Ask
  <2> QED BY <1>3, <2>3, <2>4 DEF CheckScreenOK
<1>10. ShowsRows(r, l, t, q)
  <2>1. ASSUME ~RowsCome(l, t), s.rows # r.rows PROVE FirstRead(t, q)
    <3>1. CASE s.mounted
      <4>1. FirstRead(t, s) BY <1>3, <2>1, <3>1 DEF ShownIs, ShowsRows
      <4> QED BY <1>6, <1>9, <4>1 DEF FirstRead
    <3>2. CASE ~s.mounted
      <4>1. Unmounted(r, l, t, s) BY <1>3, <3>2 DEF ShownIs
      <4>2. ASSUME t # <<>> PROVE FALSE
        <5>1. 1 \in 1..Len(t) /\ t[1] \in CheckEvent(host)
          <6>1. Len(t) \in Nat \ {0} /\ t \in Seq(CheckEvent(host)) BY <1>3, <4>2 DEF ToldOK
          <6> QED BY <6>1
        <5>2. t[1].name \in {"started", "finished"} BY <4>1, <5>1 DEF Unmounted
        <5>3. \A i \in 1..Len(t) : t[i].rows = NoRows BY <2>1 DEF RowsCome, SomeRows
        <5>4. \A i \in 1..Len(t) : t[i].name # "finished"
          <6>1. \A i \in 1..Len(t) : t[i] \in CheckEvent(host) BY <1>3 DEF ToldOK
          <6> QED BY <5>3, <6>1, EventFields
        <5>5. l = <<>> /\ t[1].name = "started" BY <2>1, <5>1, <5>2, <5>4 DEF RowsCome
        <5>6. r.rows = NoRows BY <1>3, <5>1, <5>3, <5>4, <5>5 DEF ToldIs, Ends
        <5> QED BY <2>1, <4>1, <5>6 DEF Unmounted
      <4> QED BY <1>6, <1>9, <4>1, <4>2 DEF FirstRead, Unmounted
    <3> QED BY <3>1, <3>2
  <2> QED BY <1>9, <2>1 DEF ShowsRows
<1>11. UseEnds(r, l, t, q) BY <1>6, <1>9 DEF UseEnds
<1>12. ReadsAre(r, l, t, q) BY <1>6, <1>9 DEF ReadsAre
<1>13. q.mounted BY Zenon, <1>9
<1>14. ShownIs(r, l, t, q) BY <1>3, <1>9, <1>10, <1>11, <1>12, <1>13 DEF ShownIs
<1> QED BY <1>1, <1>2, <1>8, <1>14, PressQuiet

LEMMA HideQuiet ==
  ASSUME QuietInv, HideScreen \/ CloseConsent \/ \E id \in DOMAIN rs.rows : OnRun(id)
  PROVE  QuietInv'
<1>1. RowsInv' BY HideRows, RecheckRows DEF QuietInv
<1>2. CheckScreenOK(host, rd, rs) BY DEF QuietInv, RowsInv
<1>3. PICK q : /\ Press(q) /\ (rs.visible \/ rs.consent # NoCheck)
               /\ \/ q = [rs EXCEPT !.visible = FALSE, !.consent = NoCheck]
                  \/ q = [rs EXCEPT !.consent = NoCheck]
                  \/ rs.rows # NoRows /\ \E id \in DOMAIN rs.rows : q = [rs EXCEPT !.consent = id]
  BY DEF HideScreen, CloseConsent, OnRun, NoRows
<1>4. /\ q.mounted = rs.mounted /\ q.rows = rs.rows /\ q.cancelled = rs.cancelled /\ q.calls = rs.calls
      /\ q.checking = rs.checking /\ q.running = rs.running /\ q.starting = rs.starting
      /\ q.consent = NoCheck \/ rs.rows # NoRows
  BY <1>2, <1>3 DEF CheckScreenOK
<1>5. rs.mounted BY <1>3, VisibleIsMounted
<1>6. FirstRead(told, rs) => FirstRead(told, q) BY <1>4 DEF FirstRead
<1>7. InUse(q) <=> InUse(rs) BY <1>4 DEF InUse
<1>8. ShownIs(rd, late, told, q)
  <2>1. q.mounted BY Zenon, <1>4, <1>5
  <2>2. q.cancelled => rs.cancelled BY Zenon, <1>4
  <2> QED BY <1>4, <1>5, <1>6, <1>7, <2>1, <2>2, PressShown DEF QuietInv
<1>9. Press(q) BY Zenon, <1>3
<1> QED BY Zenon, <1>1, <1>8, <1>9, PressQuiet

LEMMA RecheckQuiet ==
  ASSUME QuietInv, NEW id \in DOMAIN rs.rows, OnRecheck(id)
  PROVE  QuietInv'
<1>1. RowsInv' BY RecheckRows DEF QuietInv
<1>2. CheckScreenOK(host, rd, rs) /\ host \in Hosts BY DEF QuietInv, RowsInv
<1>3. rs.rows # NoRows /\ id \in ChecksOf(host) BY <1>2, RunsOfAReport DEF CheckScreenOK, OnRecheck
<1>4. PICK s : s = SetRunning(rs, id) OBVIOUS
<1>5. CheckScreenOK(host, rd, s) BY <1>2, <1>3, <1>4, SetRunningIsOK
<1>6. /\ s.mounted = rs.mounted /\ s.rows = rs.rows /\ s.calls = rs.calls /\ ~s.cancelled
  BY <1>2, <1>4 DEF CheckScreenOK, SetRunning
<1>7. rs.mounted /\ ~FirstRead(told, rs) BY <1>3, VisibleIsMounted DEF FirstRead
<1>8. ShownIs(rd, late, told, Ask(s, "recheck", id)) BY <1>5, <1>6, <1>7, AskQuiet
<1> QED BY <1>1, <1>4, <1>8, PressQuiet DEF OnRecheck

LEMMA ConsentQuiet ==
  ASSUME QuietInv, RunConsented
  PROVE  QuietInv'
<1>1. RowsInv' BY ConsentRows DEF QuietInv
<1>2. CheckScreenOK(host, rd, rs) /\ rs.consent # NoCheck BY DEF QuietInv, RowsInv, RunConsented
<1>3. PICK id : id = rs.consent OBVIOUS
<1>4. id \in ChecksOf(host) BY <1>2, <1>3 DEF CheckScreenOK
<1>5. PICK s : s = SetRunning(rs, id) OBVIOUS
<1>6. CheckScreenOK(host, rd, s) BY <1>2, <1>4, <1>5, SetRunningIsOK
<1>7. /\ s.mounted = rs.mounted /\ s.rows = rs.rows /\ s.calls = rs.calls /\ ~s.cancelled
  BY <1>2, <1>5 DEF CheckScreenOK, SetRunning
<1>8. rs.mounted /\ ~FirstRead(told, rs) BY <1>2, VisibleIsMounted DEF FirstRead
<1>9. ShownIs(rd, late, told, Ask(s, "act", id)) BY <1>6, <1>7, <1>8, AskQuiet
<1> QED BY <1>1, <1>3, <1>5, <1>9, PressQuiet DEF RunConsented

LEMMA CancelQuiet ==
  ASSUME QuietInv, OnCancel \/ OnRecheckAll
  PROVE  QuietInv'
<1>1. RowsInv' BY CancelRows DEF QuietInv
<1>2. CheckScreenOK(host, rd, rs) BY DEF QuietInv, RowsInv
<1>3. rs.mounted BY VisibleIsMounted DEF OnCancel, OnRecheckAll
<1>4. CASE OnCancel
  <2>1. FirstRead(told, rs) => rs.consent = NoCheck BY DEF FirstRead
  <2>2. ShownIs(rd, late, told, Ask(rs, "cancel", NoCheck)) BY <1>2, <1>3, <2>1, AskQuiet
  <2> QED BY <1>1, <1>4, <2>2, PressQuiet DEF OnCancel
<1>5. CASE OnRecheckAll
  <2>1. PICK s : s = [rs EXCEPT !.cancelled = FALSE, !.starting = TRUE, !.checking = TRUE] OBVIOUS
  <2>2. CheckScreenOK(host, rd, s) BY <1>2, <2>1 DEF CheckScreenOK
  <2>3. s.mounted = rs.mounted /\ s.rows = rs.rows /\ s.calls = rs.calls /\ ~s.cancelled /\ s.consent = rs.consent
    BY <1>2, <2>1 DEF CheckScreenOK
  <2>4. rs.consent = NoCheck BY <1>5 DEF OnRecheckAll
  <2>5. ShownIs(rd, late, told, Ask(s, "start", NoCheck)) BY <1>3, <2>2, <2>3, <2>4, AskQuiet
  <2> QED BY <1>1, <1>5, <2>1, <2>5, PressQuiet DEF OnRecheckAll
<1> QED BY <1>4, <1>5

\* What a screen makes of an event.
LEMMA HeardFields ==
  ASSUME NEW h, NEW r, NEW s, CheckScreenOK(h, r, s), NEW e \in CheckEvent(h)
  PROVE  /\ Heard(s, e).mounted = s.mounted /\ (\A c \in Heard(s, e).calls : c.op # "read")
         /\ Heard(s, e).rows = IF e.rows # NoRows THEN e.rows ELSE s.rows
         /\ InUse(Heard(s, e)) => e.name # "finished"
         /\ Heard(s, e).cancelled => (e.name = "finished" \/ s.cancelled)
<1>1. PICK o : o = Handled(s, e) OBVIOUS
<1>2. /\ e.name \in {"started", "progress", "done", "finished"}
      /\ e.name \in {"progress", "done"} => e.rows = NoRows
      /\ e.name = "finished" => e.rows # NoRows
  BY EventFields
<1>3. /\ DOMAIN o = DOMAIN s /\ o.mounted = s.mounted /\ o.calls = s.calls
      /\ o.rows = IF e.rows # NoRows THEN e.rows ELSE s.rows
      /\ InUse(o) => e.name # "finished"
      /\ o.cancelled => (e.name = "finished" \/ s.cancelled)
  <2>1. CASE e.name = "started"
    <3>1. o = OnStarted(s, e) BY <1>1, <2>1 DEF Handled
    <3> QED BY <2>1, <3>1 DEF OnStarted, CheckScreenOK
  <2>2. CASE e.name = "finished"
    <3>1. o = OnFinished(s, e) BY <1>1, <2>2 DEF Handled
    <3>2. /\ DOMAIN o = DOMAIN s /\ o.mounted = s.mounted /\ o.calls = s.calls /\ o.rows = e.rows
          /\ ~o.starting /\ ~o.checking /\ o.running = NoCheck
      BY <3>1 DEF OnFinished, CheckScreenOK
    <3> QED BY <1>2, <2>2, <3>2 DEF InUse
  <2>3. CASE e.name \in {"progress", "done"}
    <3>1. o = OnRowProgress(s, e) BY <1>1, <2>3 DEF Handled
    <3> QED BY <1>2, <2>3, <3>1 DEF OnRowProgress, CheckScreenOK
  <2> QED BY <1>2, <2>1, <2>2, <2>3
<1>4. PICK q : q = Heard(s, e) OBVIOUS
<1>5. q = [o EXCEPT !.calls = {c \in @ : c.op # "read"}] BY <1>1, <1>4 DEF Heard, Withdraw
<1>6. /\ q.mounted = o.mounted /\ q.rows = o.rows /\ q.checking = o.checking /\ q.running = o.running
      /\ q.starting = o.starting /\ q.cancelled = o.cancelled /\ q.calls = {c \in o.calls : c.op # "read"}
  BY <1>3, <1>5 DEF CheckScreenOK
<1>7. InUse(q) <=> InUse(o) BY <1>6 DEF InUse
<1> QED BY <1>3, <1>4, <1>6, <1>7

LEMMA HearQuiet ==
  ASSUME QuietInv, HearEvent
  PROVE  QuietInv'
<1>1. RowsInv' BY HearRows DEF QuietInv
<1>2. PICK h, r, l, t, s, e, u : h = host /\ r = rd /\ l = late /\ t = told /\ s = rs /\ e = Head(told) /\ u = Tail(told) OBVIOUS
<1>3. /\ CheckScreenOK(h, r, s) /\ ToldOK(h, r, t) /\ LateIs(r, l) /\ ToldIs(r, l, t) /\ ShownIs(r, l, t, s)
  BY <1>2 DEF QuietInv, RowsInv
<1>4. rd' = r /\ late' = l /\ told' = u /\ t # <<>> /\ rs' = IF s.mounted THEN Heard(s, e) ELSE s BY <1>2 DEF HearEvent
<1>5. /\ Len(u) = Len(t) - 1 /\ Len(t) \in Nat \ {0} /\ e = t[1] /\ e \in CheckEvent(h)
      /\ \A i \in 1..Len(u) : i + 1 \in 1..Len(t) /\ u[i] = t[i + 1]
      /\ e.rows # NoRows \/ e.name \in {"progress", "done"} => r.rows # NoRows
  <2>1. e = Head(t) /\ u = Tail(t) BY <1>2
  <2>2. ToldOK(h, r, t) /\ t # <<>> BY <1>3, <1>4
  <2> QED BY <2>1, <2>2, ToldRest
<1>6. 1 \in 1..Len(t) /\ \A j \in 1..Len(t) : 1 < j => j - 1 \in 1..Len(u) /\ u[j - 1] = t[j] BY <1>5
<1>7. ASSUME NEW i \in 1..Len(u), \E j \in 1..Len(t) : i + 1 < j /\ Ends(t, j) PROVE \E j \in 1..Len(u) : i < j /\ Ends(u, j)
  <2>1. PICK j \in 1..Len(t) : i + 1 < j /\ Ends(t, j) BY <1>7
  <2>2. j - 1 \in 1..Len(u) /\ u[j - 1] = t[j] /\ i < j - 1 BY <1>5, <1>6, <2>1
  <2> QED BY <2>1, <2>2 DEF Ends
<1>8. ToldIs(r, l, u)
  <2> SUFFICES ASSUME l = <<>>, NEW i \in 1..Len(u)
               PROVE  /\ u[i].rows # NoRows /\ (\A j \in 1..Len(u) : i < j => u[j].rows = NoRows) => u[i].rows = r.rows
                      /\ u[i].name = "started" /\ u[i].rows = NoRows => r.rows = NoRows \/ \E j \in 1..Len(u) : i < j /\ Ends(u, j)
                      /\ u[i].name = "done" => \E j \in 1..Len(u) : i < j /\ Ends(u, j)
                      /\ u[i].name \in {"started", "progress"} => r.job # NoJobRun \/ \E j \in 1..Len(u) : i < j /\ Ends(u, j)
    BY DEF ToldIs
  <2>1. i + 1 \in 1..Len(t) /\ u[i] = t[i + 1] BY <1>5
  <2>2. ASSUME \A j \in 1..Len(u) : i < j => u[j].rows = NoRows, NEW j \in 1..Len(t), i + 1 < j PROVE t[j].rows = NoRows
    BY <1>5, <1>6, <2>2
  <2>3. u[i].rows # NoRows /\ (\A j \in 1..Len(u) : i < j => u[j].rows = NoRows) => u[i].rows = r.rows
    BY <1>3, <2>1, <2>2 DEF ToldIs
  <2> QED BY <1>3, <1>7, <2>1, <2>3 DEF ToldIs
<1>9. CASE ~s.mounted
  <2>1. Unmounted(r, l, t, s) BY <1>3, <1>9 DEF ShownIs
  <2>2. Unmounted(r, l, u, s) BY <1>5, <2>1 DEF Unmounted
  <2>3. \A c \in s.calls : c.op # "read" BY <2>1 DEF Unmounted
  <2>4. ShownIs(r, l, u, s) BY <1>3, <1>9, <2>1, <2>2, <2>3 DEF ShownIs, ShowsRows, UseEnds, ReadsAre, Unmounted
  <2> QED BY <1>1, <1>3, <1>4, <1>8, <1>9, <2>4 DEF QuietInv
<1>10. CASE s.mounted
  <2>1. PICK q : q = Heard(s, e) OBVIOUS
  <2>2. /\ q.mounted = s.mounted /\ (\A c \in q.calls : c.op # "read")
        /\ q.rows = IF e.rows # NoRows THEN e.rows ELSE s.rows
        /\ InUse(q) => e.name # "finished"
        /\ q.cancelled => (e.name = "finished" \/ s.cancelled)
    BY <1>3, <1>5, <2>1, HeardFields
  <2>3. ASSUME ~RowsCome(l, u) PROVE q.rows = r.rows
    <3>1. l = <<>> /\ \A i \in 1..Len(u) : u[i].rows = NoRows BY <2>3 DEF RowsCome, SomeRows
    <3>2. \A j \in 1..Len(t) : 1 < j => t[j].rows = NoRows BY <1>6, <3>1
    <3>3. CASE e.rows # NoRows
      <4>1. e.rows = r.rows BY <1>3, <1>5, <1>6, <3>1, <3>2, <3>3 DEF ToldIs
      <4> QED BY <2>2, <3>3, <4>1
    <3>4. CASE e.rows = NoRows
      <4>1. \A j \in 1..Len(t) : t[j].rows = NoRows BY <1>5, <3>2, <3>4
      <4>2. ~RowsCome(l, t) BY <3>1, <4>1 DEF RowsCome, SomeRows
      <4>3. s.rows = r.rows BY <1>3, <1>4, <1>10, <4>2 DEF ShownIs, ShowsRows, FirstRead
      <4> QED BY <2>2, <3>4, <4>3
    <3> QED BY <3>3, <3>4
  <2>4. ASSUME InUse(q) PROVE EndComes(r, l, u)
    <3>1. e.name \in {"started", "progress", "done"} BY <1>5, <2>2, <2>4, EventFields
    <3>2. CASE l # <<>> BY <3>2 DEF EndComes
    <3>3. CASE l = <<>>
      <4>1. r.job # NoJobRun \/ \E j \in 1..Len(t) : 1 < j /\ Ends(t, j) BY <1>3, <1>5, <1>6, <3>1, <3>3 DEF ToldIs
      <4>2. ASSUME NEW j \in 1..Len(t), 1 < j, Ends(t, j) PROVE SomeEnd(u) BY <1>6, <4>2 DEF Ends, SomeEnd
      <4> QED BY <4>1, <4>2 DEF EndComes
    <3> QED BY <3>2, <3>3
  <2>5. q.cancelled => r.rows # NoRows BY <1>3, <1>5, <2>2, EventFields DEF ShownIs
  <2>6. q.mounted BY Zenon, <1>10, <2>2
  <2>7. ShownIs(r, l, u, q) BY <1>3, <2>2, <2>3, <2>4, <2>5, <2>6 DEF ShownIs, ShowsRows, UseEnds, ReadsAre
  <2> QED BY <1>1, <1>3, <1>4, <1>8, <1>10, <2>1, <2>7 DEF QuietInv
<1> QED BY <1>9, <1>10

\* What a screen makes of an answer to its read.
LEMMA ReadFields ==
  ASSUME NEW h, NEW r, NEW s, CheckScreenOK(h, r, s), NEW got, ReadGot(h, r, got)
  PROVE  /\ ReadAnswer(s, got).mounted = s.mounted /\ ReadAnswer(s, got).rows = got.rows
         /\ ReadAnswer(s, got).cancelled = s.cancelled
         /\ s.calls \subseteq ReadAnswer(s, got).calls
         /\ \A c \in ReadAnswer(s, got).calls : c \in s.calls \/ c.op # "read"
         /\ InUse(ReadAnswer(s, got)) =>
              \/ got.checking \/ got.running # NoCheck
              \/ \E c \in ReadAnswer(s, got).calls : Settles(c)
              \/ s.cancelled /\ got.rows = NoRows
<1>1. PICK known \in BOOLEAN : known = (got.rows # NoRows) OBVIOUS
<1>2. PICK t : t = [s EXCEPT !.rows = got.rows, !.checking = got.checking, !.running = got.running, !.started = known,
                             !.starting = IF known THEN got.checking ELSE @]
  OBVIOUS
<1>3. /\ DOMAIN t = DOMAIN s /\ t.mounted = s.mounted /\ t.rows = got.rows /\ t.cancelled = s.cancelled /\ t.calls = s.calls
      /\ t.checking = got.checking /\ t.running = got.running /\ t.starting = IF known THEN got.checking ELSE s.starting
  BY <1>2 DEF CheckScreenOK
<1>4. CASE ~known /\ ~t.cancelled /\ ~got.checking /\ got.running = NoCheck
  <2>1. PICK o, c : o = [t EXCEPT !.starting = TRUE] /\ c = [op |-> "startIfEmpty", id |-> NoCheck, got |-> Nothing] OBVIOUS
  <2>2. c.op = "startIfEmpty" /\ Settles(c) BY <2>1, NewCallSettles
  <2>3. DOMAIN o = DOMAIN s /\ o.mounted = s.mounted /\ o.rows = got.rows /\ o.cancelled = s.cancelled /\ o.calls = s.calls
    BY <1>3, <2>1 DEF CheckScreenOK
  <2>4. PICK q : q = ReadAnswer(s, got) OBVIOUS
  <2>5. q = [o EXCEPT !.calls = @ \cup {c}]
    <3>1. q = Ask(o, "startIfEmpty", NoCheck) BY <1>1, <1>2, <1>4, <2>1, <2>4 DEF ReadAnswer
    <3> QED BY <2>1, <3>1 DEF Ask
  <2>6. q.mounted = s.mounted /\ q.rows = got.rows /\ q.cancelled = s.cancelled /\ q.calls = s.calls \cup {c}
    BY <2>3, <2>5 DEF CheckScreenOK
  <2> QED BY <2>2, <2>4, <2>6
<1>5. CASE ~(~known /\ ~t.cancelled /\ ~got.checking /\ got.running = NoCheck)
  <2>1. ReadAnswer(s, got) = t BY <1>1, <1>2, <1>5 DEF ReadAnswer
  <2>2. InUse(t) => got.checking \/ got.running # NoCheck \/ ~known BY <1>3 DEF InUse
  <2>3. InUse(t) => got.checking \/ got.running # NoCheck \/ (s.cancelled /\ got.rows = NoRows) BY <1>1, <1>3, <1>5, <2>2
  <2> QED BY <1>3, <2>1, <2>3
<1> QED BY <1>4, <1>5

LEMMA AnswerQuiet ==
  ASSUME QuietInv, NEW c \in rs.calls, HearAnswer(c)
  PROVE  QuietInv'
<1>1. RowsInv' BY AnswerRows DEF QuietInv
<1>2. PICK h, r, l, t, o : h = host /\ r = rd /\ l = late /\ t = told /\ o = rs OBVIOUS
<1>3. CheckScreenOK(h, r, o) /\ ShownIs(r, l, t, o) /\ c \in o.calls /\ c.got # Nothing BY <1>2 DEF QuietInv, RowsInv, HearAnswer
<1>4. PICK s : s = [o EXCEPT !.calls = @ \ {c}] OBVIOUS
<1>5. /\ DOMAIN s = DOMAIN o /\ s.mounted = o.mounted /\ s.visible = o.visible /\ s.rows = o.rows /\ s.checking = o.checking
      /\ s.running = o.running /\ s.starting = o.starting /\ s.cancelled = o.cancelled /\ s.consent = o.consent
      /\ s.calls = o.calls \ {c}
  BY <1>3, <1>4 DEF CheckScreenOK
<1>6. InUse(s) <=> InUse(o) BY <1>5 DEF InUse
<1>7. CheckCallOK(h, r, c) BY <1>3 DEF CheckScreenOK
<1>8. CheckScreenOK(h, r, s)
  <2>1. o.calls \ {c} \subseteq o.calls OBVIOUS
  <2>2. s = [o EXCEPT !.calls = o.calls \ {c}] BY <1>4
  <2> QED BY <1>3, <2>1, <2>2, FewerCallsOK
<1>9. ReadsAre(r, l, t, s)
  <2>1. ASSUME NEW x \in s.calls, x.op = "read", x.got # Nothing PROVE ReadIs(r, l, t, s, x)
    <3>1. ReadIs(r, l, t, o, x) BY <1>3, <1>5, <2>1 DEF ShownIs, ReadsAre
    <3> QED BY <1>5, <3>1 DEF ReadIs
  <2> QED BY <2>1 DEF ReadsAre
<1>10. SUFFICES ShownIs(r, l, t, rs') BY <1>1, <1>2, <1>10 DEF QuietInv, HearAnswer
<1>11. CASE c.op = "read"
  <2>1. PICK q : q = ReadAnswer(s, c.got) OBVIOUS
  <2>2. rs' = q BY <1>2, <1>4, <1>11, <2>1 DEF HearAnswer
  <2>3. ReadGot(h, r, c.got) BY <1>3, <1>7, <1>11 DEF CheckCallOK
  <2>4. /\ q.mounted = s.mounted /\ q.rows = c.got.rows /\ q.cancelled = s.cancelled /\ s.calls \subseteq q.calls
        /\ \A x \in q.calls : x \in s.calls \/ x.op # "read"
        /\ InUse(q) =>
             \/ c.got.checking \/ c.got.running # NoCheck
             \/ \E x \in q.calls : Settles(x)
             \/ s.cancelled /\ c.got.rows = NoRows
    BY <1>8, <2>1, <2>3, ReadFields
  <2>5. ReadIs(r, l, t, o, c) BY <1>3, <1>11 DEF ShownIs, ReadsAre
  <2>6. o.mounted BY <1>3, <1>11 DEF ShownIs, Unmounted
  <2>7. q.mounted BY Zenon, <1>5, <2>4, <2>6
  <2>8. ShowsRows(r, l, t, q) BY <2>4, <2>5 DEF ShowsRows, ReadIs
  <2>9. UseEnds(r, l, t, q) BY <1>5, <2>4, <2>5 DEF UseEnds, ReadIs
  <2>10. ReadsAre(r, l, t, q)
    <3>1. ASSUME NEW x \in q.calls, x.op = "read", x.got # Nothing PROVE ReadIs(r, l, t, q, x)
      <4>1. ReadIs(r, l, t, s, x) BY <1>9, <2>4, <3>1 DEF ReadsAre
      <4> QED BY <2>4, <4>1 DEF ReadIs
    <3> QED BY <3>1 DEF ReadsAre
  <2>11. q.cancelled => r.rows # NoRows BY <1>3, <1>5, <2>4 DEF ShownIs
  <2> QED BY <1>3, <2>2, <2>7, <2>8, <2>9, <2>10, <2>11 DEF ShownIs
<1>12. CASE c.op # "read"
  <2>1. FirstRead(t, o) => FirstRead(t, s) BY <1>5, <1>12 DEF FirstRead
  <2>2. ShowsRows(r, l, t, s) BY <1>3, <1>5, <2>1 DEF ShownIs, ShowsRows
  <2>3. Unmounted(r, l, t, o) => Unmounted(r, l, t, s) BY <1>5, <1>6 DEF Unmounted
  <2>4. CASE c.op \in {"start", "recheck", "act"} /\ c.got = Refused
    <3>1. PICK q : q = FailedStart(s) OBVIOUS
    <3>2. rs' = q BY <1>2, <1>4, <2>4, <3>1 DEF HearAnswer
    <3>3. /\ q.mounted = s.mounted /\ q.visible = s.visible /\ q.rows = s.rows /\ q.cancelled = s.cancelled
          /\ q.consent = s.consent /\ q.calls = s.calls /\ ~q.checking /\ ~q.starting /\ q.running = NoCheck
      BY <1>8, <3>1 DEF FailedStart, CheckScreenOK
    <3>4. ~InUse(q) BY <3>3 DEF InUse
    <3>5. Unmounted(r, l, t, s) => Unmounted(r, l, t, q) BY <3>3, <3>4 DEF Unmounted
    <3>6. ShowsRows(r, l, t, q) BY <2>2, <3>3 DEF ShowsRows, FirstRead
    <3>7. ReadsAre(r, l, t, q) BY <1>9, <3>3 DEF ReadsAre, ReadIs
    <3>8. UseEnds(r, l, t, q) BY <3>4 DEF UseEnds
    <3> QED BY <1>3, <1>5, <2>3, <3>2, <3>3, <3>5, <3>6, <3>7, <3>8 DEF ShownIs
  <2>5. CASE ~(c.op \in {"start", "recheck", "act"} /\ c.got = Refused)
    <3>1. rs' = s BY <1>2, <1>4, <1>12, <2>5 DEF HearAnswer
    <3>2. ~Settles(c) BY <1>3, <1>12, <2>5 DEF Settles
    <3>3. UseEnds(r, l, t, s)
      <4>1. ASSUME NEW x \in o.calls, Settles(x) PROVE x \in s.calls BY <1>5, <3>2, <4>1
      <4> QED BY <1>3, <1>6, <4>1 DEF ShownIs, UseEnds
    <3> QED BY <1>3, <1>5, <1>9, <2>2, <2>3, <3>1, <3>3 DEF ShownIs
  <2> QED BY <2>4, <2>5
<1> QED BY <1>11, <1>12

LEMMA QuietStep == QuietInv /\ [ReadinessNext]_rvars => QuietInv'
<1> SUFFICES ASSUME QuietInv, [ReadinessNext]_rvars PROVE QuietInv' OBVIOUS
<1>1. CASE MachineChanges BY <1>1, MachineQuiet
<1>2. CASE RunAction BY <1>2, ActionQuiet
<1>3. CASE FinishPass \/ FinishOne BY <1>3, FinishQuiet
<1>4. CASE EmitLate BY <1>4, EmitQuiet
<1>5. CASE \E id \in Checks : Probe(id) BY <1>5, ProbeQuiet
<1>6. CASE ShowScreen BY <1>6, ShowQuiet
<1>7. CASE HideScreen \/ CloseConsent BY <1>7, HideQuiet
<1>8. CASE RunConsented BY <1>8, ConsentQuiet
<1>9. CASE OnCancel \/ OnRecheckAll BY <1>9, CancelQuiet
<1>10. CASE \E id \in DOMAIN rs.rows : OnRecheck(id) \/ OnRun(id) BY <1>10, RecheckQuiet, HideQuiet
<1>11. CASE HearEvent BY <1>11, HearQuiet
<1>12. CASE \E c \in rs.calls : Serve(c) \/ HearAnswer(c) BY <1>12, ServeQuiet, AnswerQuiet
<1>13. CASE UNCHANGED rvars
  <2>1. RowsInv' BY <1>13, RowsStep DEF QuietInv
  <2> QED BY <1>13, <2>1 DEF rvars, QuietInv
<1> QED BY <1>1, <1>2, <1>3, <1>4, <1>5, <1>6, <1>7, <1>8, <1>9, <1>10, <1>11, <1>12, <1>13 DEF ReadinessNext

(* Once nothing is under way, a screen that was opened shows the rows the     *)
(* application keeps and waits for nothing, whatever came late, was refused    *)
(* or overtook what (bindings.go startReadinessCheck, finishReadiness;         *)
(* readiness.js refreshFromBackend, onFinished).                               *)
THEOREM QuietScreenShowsTheChecks == ReadinessSpec => []QuietReadinessIsTrue
<1>1. QuietInv => QuietReadinessIsTrue BY QuietOfInv
<1> QED BY <1>1, QuietInit, QuietStep, PTL DEF ReadinessSpec

(***************************************************************************)
(* The drives that are offered                                             *)
(***************************************************************************)
-----------------------------------------------------------------------------
(* Sorting a finite set: its elements are ranked by how many come before.   *)

Orders(R, S) ==
  /\ \A x \in S : <<x, x>> \notin R
  /\ \A x, y \in S : x # y => <<x, y>> \in R \/ <<y, x>> \in R
  /\ \A x, y, z \in S : <<x, y>> \in R /\ <<y, z>> \in R => <<x, z>> \in R

LEMMA SmallerRank ==
  ASSUME NEW S, IsFiniteSet(S), NEW R, Orders(R, S), NEW x \in S, NEW y \in S, <<x, y>> \in R
  PROVE  Cardinality({z \in S : <<z, x>> \in R}) < Cardinality({z \in S : <<z, y>> \in R})
<1>1. PICK A : A = {z \in S : <<z, x>> \in R} OBVIOUS
<1>2. PICK B : B = {z \in S : <<z, y>> \in R} OBVIOUS
<1>3. A \subseteq B /\ x \in B /\ x \notin A BY <1>1, <1>2 DEF Orders
<1>4. IsFiniteSet(A) /\ IsFiniteSet(B) BY <1>1, <1>2, FS_Subset
<1>5. Cardinality(A) <= Cardinality(B) /\ Cardinality(A) # Cardinality(B) BY <1>3, <1>4, FS_Subset
<1>6. Cardinality(A) \in Nat /\ Cardinality(B) \in Nat BY <1>4, FS_CardinalityType
<1> QED BY <1>1, <1>2, <1>5, <1>6

LEMMA RankIsPlace ==
  ASSUME NEW S, IsFiniteSet(S), NEW R, Orders(R, S), NEW rank,
         rank = [x \in S |-> Cardinality({z \in S : <<z, x>> \in R}) + 1]
  PROVE  /\ rank \in Bijection(S, 1..Cardinality(S))
         /\ \A x, y \in S : rank[x] < rank[y] => <<x, y>> \in R
<1>1. PICK n : n = Cardinality(S) OBVIOUS
<1>2. n \in Nat BY <1>1, FS_CardinalityType
<1>3. ASSUME NEW x \in S PROVE rank[x] \in 1..n
  <2>1. PICK A : A = {z \in S : <<z, x>> \in R} OBVIOUS
  <2>2. A \subseteq S /\ x \notin A BY <2>1 DEF Orders
  <2>3. IsFiniteSet(A) /\ Cardinality(A) <= n /\ Cardinality(A) # n BY <1>1, <2>2, FS_Subset
  <2>4. Cardinality(A) \in Nat BY <2>3, FS_CardinalityType
  <2> QED BY <1>2, <2>1, <2>3, <2>4
<1>4. rank \in [S -> 1..n] BY <1>3
<1>5. ASSUME NEW x \in S, NEW y \in S, <<x, y>> \in R PROVE rank[x] < rank[y]
  <2>1. Cardinality({z \in S : <<z, x>> \in R}) < Cardinality({z \in S : <<z, y>> \in R}) BY <1>5, SmallerRank
  <2>2. rank[x] \in Int /\ rank[y] \in Int BY <1>3
  <2>3. IsFiniteSet({z \in S : <<z, x>> \in R}) /\ IsFiniteSet({z \in S : <<z, y>> \in R}) BY FS_Subset
  <2>4. Cardinality({z \in S : <<z, x>> \in R}) \in Nat /\ Cardinality({z \in S : <<z, y>> \in R}) \in Nat BY <2>3, FS_CardinalityType
  <2> QED BY <2>1, <2>4
<1>6. \A x, y \in S : x # y => rank[x] < rank[y] \/ rank[y] < rank[x] BY <1>5 DEF Orders
<1>7. \A x \in S : rank[x] \in Nat BY <1>2, <1>3
<1>8. \A x, y \in S : rank[x] < rank[y] => <<x, y>> \in R
  <2> SUFFICES ASSUME NEW x \in S, NEW y \in S, rank[x] < rank[y], <<x, y>> \notin R PROVE FALSE OBVIOUS
  <2>1. x # y BY <1>7
  <2>2. <<y, x>> \in R BY <2>1 DEF Orders
  <2> QED BY <1>5, <1>7, <2>2
<1>9. ASSUME NEW x \in S, NEW y \in S, x # y PROVE rank[x] # rank[y]
  <2>1. rank[x] < rank[y] \/ rank[y] < rank[x] BY <1>6, <1>9
  <2>2. rank[x] \in Nat /\ rank[y] \in Nat BY <1>7
  <2> QED BY <2>1, <2>2
<1>10. rank \in Injection(S, 1..n) BY <1>4, <1>9 DEF Injection, IsInjective
<1>11. IsFiniteSet(1..n) /\ Cardinality(1..n) = n BY <1>2, FS_Interval
<1>12. rank \in Surjection(S, 1..n) BY <1>1, <1>10, <1>11, FS_Injection
<1> QED BY <1>1, <1>8, <1>10, <1>12 DEF Bijection

(* There is a list of the set in its order. *)
LEMMA SortedExists ==
  ASSUME NEW S, IsFiniteSet(S), NEW R, Orders(R, S)
  PROVE  \E f \in SetToSeqs(S) : /\ \A i, j \in DOMAIN f : i < j => <<f[i], f[j]>> \in R
<1>1. PICK n : n = Cardinality(S) OBVIOUS
<1>2. n \in Nat BY <1>1, FS_CardinalityType
<1>3. PICK rank : rank = [x \in S |-> Cardinality({z \in S : <<z, x>> \in R}) + 1] OBVIOUS
<1>4. rank \in Bijection(S, 1..n) /\ \A x, y \in S : rank[x] < rank[y] => <<x, y>> \in R BY <1>1, <1>3, RankIsPlace
<1>5. \A k \in 1..n : \E x \in S : rank[x] = k BY <1>4 DEF Bijection, Surjection
<1>6. PICK f : f = [k \in 1..n |-> CHOOSE x \in S : rank[x] = k] OBVIOUS
<1>7. ASSUME NEW k \in 1..n PROVE f[k] \in S /\ rank[f[k]] = k BY <1>5, <1>6
<1>8. f \in [1..n -> S] BY <1>6, <1>7
<1>9. \A i, j \in 1..n : i # j => f[i] # f[j] BY <1>7
<1>10. f \in SetToSeqs(S) BY <1>1, <1>8, <1>9 DEF SetToSeqs
<1>11. ASSUME NEW i \in 1..n, NEW j \in 1..n, i < j PROVE <<f[i], f[j]>> \in R
  <2>1. f[i] \in S /\ f[j] \in S /\ rank[f[i]] = i /\ rank[f[j]] = j BY <1>7
  <2> QED BY <1>4, <1>11, <2>1
<1> QED BY <1>6, <1>10, <1>11

(* What lists a set has each of its elements. *)
LEMMA ListsAll ==
  ASSUME NEW S, IsFiniteSet(S), NEW f \in SetToSeqs(S)
  PROVE  /\ f \in Seq(S) /\ Len(f) = Cardinality(S) /\ DOMAIN f = 1..Cardinality(S)
         /\ \A x \in S : \E i \in DOMAIN f : f[i] = x
         /\ \A i, j \in DOMAIN f : i # j => f[i] # f[j]
<1>1. PICK n : n = Cardinality(S) OBVIOUS
<1>2. n \in Nat BY <1>1, FS_CardinalityType
<1>3. f \in [1..n -> S] /\ \A i, j \in 1..n : i # j => f[i] # f[j] BY <1>1 DEF SetToSeqs
<1>4. IsFiniteSet(1..n) /\ Cardinality(1..n) = n BY <1>2, FS_Interval
<1>5. f \in Injection(1..n, S) BY <1>3 DEF Injection, IsInjective
<1>6. f \in Surjection(1..n, S) BY <1>1, <1>4, <1>5, FS_Injection
<1>7. \A x \in S : \E i \in 1..n : f[i] = x BY <1>6 DEF Surjection
<1>8. f \in Seq(S) /\ Len(f) = n BY <1>2, <1>3
<1> QED BY <1>1, <1>3, <1>7, <1>8

-----------------------------------------------------------------------------
(* A fold from the left, step by step: g[<<k, y>>] is what the k-th element   *)
(* makes of y.                                                               *)

LEMMA GreatestIsIn ==
  ASSUME NEW n \in Nat, NEW s, s \subseteq 1..n, s # {}
  PROVE  Max(s) \in s /\ \A x \in s : x <= Max(s)
<1>1. PICK T : T = {n - x : x \in s} OBVIOUS
<1>2. T \subseteq Nat /\ T # {}
  <2>1. \A x \in s : n - x \in Nat OBVIOUS
  <2> QED BY <1>1, <2>1
<1>3. PICK t \in T : \A u \in T : t <= u BY <1>2, HasLeast
<1>4. PICK m \in s : t = n - m BY <1>1
<1>5. ASSUME NEW x \in s PROVE m >= x
  <2>1. n - x \in T /\ x \in Nat /\ m \in Nat BY <1>1
  <2>2. n - m <= n - x BY <1>3, <1>4, <2>1
  <2> QED BY <2>1, <2>2
<1>6. \E y \in s : \A x \in s : y >= x BY <1>5
<1>7. PICK y : y = Max(s) OBVIOUS
<1>8. y \in s /\ \A x \in s : y >= x BY <1>6, <1>7 DEF Max
<1>9. \A x \in s : x <= y BY <1>8
<1> QED BY <1>7, <1>8, <1>9

Folded(g, base, F) ==
  \A s \in DOMAIN F : F[s] = IF s = {} THEN base ELSE g[<<Max(s), F[s \ {Max(s)}]>>]

LEMMA FoldedExists ==
  ASSUME NEW n \in Nat, NEW Y, NEW base \in Y, NEW g \in [(1..n) \X Y -> Y]
  PROVE  \E F \in [SUBSET (1..n) -> Y] : Folded(g, base, F)
<1> DEFINE Upto(k) == SUBSET (1..k)
<1>1. PICK Failing : Failing = {k \in 0..n : ~\E F \in [Upto(k) -> Y] : Folded(g, base, F)} OBVIOUS
<1>2. Failing = {}
  <2>1. SUFFICES ASSUME Failing # {} PROVE FALSE OBVIOUS
  <2>2. Failing \subseteq Nat BY <1>1
  <2>3. PICK k \in Failing : \A j \in Failing : k <= j BY <2>1, <2>2, HasLeast
  <2>4. k \in 0..n /\ ~\E F \in [Upto(k) -> Y] : Folded(g, base, F) BY <1>1
  <2>5. CASE k = 0
    <3>1. PICK F : F = [s \in Upto(0) |-> base] OBVIOUS
    <3>2. \A s \in Upto(0) : s = {} OBVIOUS
    <3>3. F \in [Upto(0) -> Y] BY <3>1
    <3>4. Folded(g, base, F) BY <3>1, <3>2 DEF Folded
    <3> QED BY <2>4, <2>5, <3>3, <3>4
  <2>6. CASE k # 0
    <3>1. k - 1 \in 0..n /\ ~(k <= k - 1) BY <2>4, <2>6
    <3>2. PICK F \in [Upto(k - 1) -> Y] : Folded(g, base, F) BY <1>1, <2>3, <3>1
    <3>3. PICK H : H = [s \in Upto(k) |-> IF k \in s THEN g[<<k, F[s \ {k}]>>] ELSE F[s]] OBVIOUS
    <3>4. \A s \in Upto(k) : s \ {k} \in Upto(k - 1) BY <2>4, <2>6
    <3>5. \A s \in Upto(k) : k \notin s => s \in Upto(k - 1) BY <3>4
    <3>6. k \in 1..n BY <2>4, <2>6
    <3>7. ASSUME NEW s \in Upto(k) PROVE H[s] \in Y
      <4>1. CASE k \in s BY <3>2, <3>3, <3>4, <3>6, <4>1
      <4>2. CASE k \notin s BY <3>2, <3>3, <3>5, <4>2
      <4> QED BY <4>1, <4>2
    <3>8. H \in [Upto(k) -> Y] BY <3>3, <3>7
    <3>9. ASSUME NEW s \in Upto(k), k \in s PROVE Max(s) = k
      <4>1. k \in Nat /\ s \subseteq 1..k /\ s # {} BY <2>4, <3>9
      <4>2. PICK m : m = Max(s) OBVIOUS
      <4>3. m \in s /\ \A x \in s : x <= m BY <4>1, <4>2, GreatestIsIn
      <4>4. m \in 1..k /\ k <= m BY <3>9, <4>1, <4>3
      <4> QED BY <4>1, <4>2, <4>4
    <3>10. ASSUME NEW s \in Upto(k)
           PROVE  H[s] = IF s = {} THEN base ELSE g[<<Max(s), H[s \ {Max(s)}]>>]
      <4>1. CASE k \in s
        <5>1. H[s] = g[<<k, F[s \ {k}]>>] /\ H[s \ {k}] = F[s \ {k}] BY <3>3, <4>1
        <5> QED BY <3>9, <4>1, <5>1
      <4>2. CASE k \notin s
        <5>1. H[s] = F[s] /\ s \in Upto(k - 1) BY <3>3, <3>5, <4>2
        <5>2. F[s] = IF s = {} THEN base ELSE g[<<Max(s), F[s \ {Max(s)}]>>] BY <3>2, <5>1 DEF Folded
        <5>3. k \notin s \ {Max(s)} /\ s \ {Max(s)} \in Upto(k) BY <4>2
        <5>4. H[s \ {Max(s)}] = F[s \ {Max(s)}] BY <3>3, <5>3
        <5> QED BY <5>1, <5>2, <5>4
      <4> QED BY <4>1, <4>2
    <3>11. Folded(g, base, H) BY <3>8, <3>10 DEF Folded
    <3> QED BY <2>4, <3>8, <3>11
  <2> QED BY <2>5, <2>6
<1>3. n \in 0..n /\ n \notin Failing BY <1>2
<1> QED BY <1>1, <1>3

LEMMA OneStepLess ==
  ASSUME NEW k \in Nat, k # 0
  PROVE  Max(1..k) = k /\ (1..k) \ {k} = 1..(k - 1)
<1>1. k \in 1..k /\ 1..k \subseteq 1..k /\ 1..k # {} OBVIOUS
<1>2. PICK m : m = Max(1..k) OBVIOUS
<1>3. m \in 1..k /\ \A x \in 1..k : x <= m BY <1>1, <1>2, GreatestIsIn
<1>4. k <= m /\ m <= k /\ m \in Nat BY <1>1, <1>3
<1>5. (1..k) \ {k} = 1..(k - 1) OBVIOUS
<1> QED BY <1>2, <1>4, <1>5

-----------------------------------------------------------------------------
(* The orders of paths and of mounts.                                        *)

LEMMA PathsApart ==
  ASSUME NEW p \in Seq(Nat), NEW q \in Seq(Nat), p # q
  PROVE  PathLess(p, q) \/ PathLess(q, p)
<1>1. PICK D : D = {j \in Nat : j >= 1 /\ (j <= Len(p) \/ j <= Len(q)) /\ ~(j <= Len(p) /\ j <= Len(q) /\ p[j] = q[j])} OBVIOUS
<1>2. Len(p) \in Nat /\ Len(q) \in Nat /\ DOMAIN p = 1..Len(p) /\ DOMAIN q = 1..Len(q) OBVIOUS
<1>3. D # {}
  <2>1. SUFFICES ASSUME D = {} PROVE FALSE OBVIOUS
  <2>2. \A j \in Nat : j >= 1 /\ (j <= Len(p) \/ j <= Len(q)) => j <= Len(p) /\ j <= Len(q) /\ p[j] = q[j] BY <1>1, <2>1
  <2>3. Len(p) = Len(q)
    <3>1. PICK m, n : m = Len(p) /\ n = Len(q) OBVIOUS
    <3>2. m \in Nat /\ n \in Nat BY <1>2, <3>1
    <3>3. m >= 1 => m <= n BY <2>2, <3>1, <3>2
    <3>4. n >= 1 => n <= m BY <2>2, <3>1, <3>2
    <3> QED BY <3>1, <3>2, <3>3, <3>4
  <2>4. \A j \in 1..Len(p) : p[j] = q[j]
    <3> TAKE j \in 1..Len(p)
    <3>1. j \in Nat /\ j >= 1 /\ j <= Len(p) BY <1>2
    <3> QED BY <2>2, <3>1
  <2>5. p = q BY <2>3, <2>4
  <2> QED BY <2>5
<1>4. PICK i \in D : \A j \in D : i <= j BY <1>1, <1>3, HasLeast
<1>5. i \in Nat /\ i >= 1 /\ (i <= Len(p) \/ i <= Len(q)) /\ ~(i <= Len(p) /\ i <= Len(q) /\ p[i] = q[i]) BY <1>1
<1>6. ASSUME NEW j \in 1..(i - 1) PROVE j <= Len(p) /\ j <= Len(q) /\ p[j] = q[j]
  <2>1. j \in Nat /\ j >= 1 /\ j < i /\ (j <= Len(p) \/ j <= Len(q)) BY <1>2, <1>5
  <2>2. j \notin D BY <1>4, <1>5, <2>1
  <2> QED BY <1>1, <2>1, <2>2
<1>7. CASE i > Len(p)
  <2>1. i \in DOMAIN q BY <1>2, <1>5, <1>7
  <2> QED BY <1>6, <1>7, <2>1 DEF PathLess
<1>8. CASE i > Len(q)
  <2>1. i \in DOMAIN p BY <1>2, <1>5, <1>8
  <2> QED BY <1>6, <1>8, <2>1 DEF PathLess
<1>9. CASE i <= Len(p) /\ i <= Len(q)
  <2>1. i \in DOMAIN p /\ i \in DOMAIN q /\ p[i] # q[i] BY <1>2, <1>5, <1>9
  <2>2. p[i] \in Nat /\ q[i] \in Nat BY <2>1
  <2>3. CASE p[i] < q[i] BY <1>6, <2>1, <2>3 DEF PathLess
  <2>4. CASE q[i] < p[i] BY <1>6, <2>1, <2>4 DEF PathLess
  <2> QED BY <2>1, <2>2, <2>3, <2>4
<1> QED BY <1>2, <1>5, <1>7, <1>8, <1>9

LEMMA PathsChain ==
  ASSUME NEW p \in Seq(Nat), NEW q \in Seq(Nat), NEW r \in Seq(Nat), PathLess(p, q), PathLess(q, r)
  PROVE  PathLess(p, r)
<1>1. PICK i \in DOMAIN q : (\A j \in 1..(i - 1) : j <= Len(p) /\ p[j] = q[j]) /\ (i > Len(p) \/ p[i] < q[i]) BY DEF PathLess
<1>2. PICK k \in DOMAIN r : (\A j \in 1..(k - 1) : j <= Len(q) /\ q[j] = r[j]) /\ (k > Len(q) \/ q[k] < r[k]) BY DEF PathLess
<1>3. /\ Len(p) \in Nat /\ Len(q) \in Nat /\ Len(r) \in Nat /\ DOMAIN p = 1..Len(p) /\ DOMAIN q = 1..Len(q) /\ DOMAIN r = 1..Len(r)
      /\ \A j \in DOMAIN p : p[j] \in Nat
  OBVIOUS
<1>4. i \in Nat /\ i >= 1 /\ i <= Len(q) /\ k \in Nat /\ k >= 1 /\ k <= Len(r) BY <1>3
<1>5. CASE i < k
  <2>1. i \in DOMAIN r /\ i \in 1..(k - 1) BY <1>3, <1>4, <1>5
  <2>2. q[i] = r[i] BY <1>2, <2>1
  <2>3. \A j \in 1..(i - 1) : j <= Len(p) /\ p[j] = r[j] BY <1>1, <1>2, <1>4, <1>5
  <2>4. i > Len(p) \/ p[i] < r[i] BY <1>1, <2>2
  <2> QED BY <2>1, <2>3, <2>4 DEF PathLess
<1>6. CASE i = k
  <2>1. q[k] < r[k] /\ q[k] \in Nat /\ r[k] \in Nat BY <1>2, <1>3, <1>4, <1>6
  <2>2. k > Len(p) \/ p[k] < r[k]
    <3>1. CASE k > Len(p) BY <3>1
    <3>2. CASE k <= Len(p)
      <4>1. k \in DOMAIN p /\ p[k] < q[k] BY <1>1, <1>3, <1>4, <1>6, <3>2
      <4>2. p[k] \in Nat BY <1>3, <4>1
      <4> QED BY <2>1, <4>1, <4>2
    <3> QED BY <1>3, <1>4, <3>1, <3>2
  <2>3. \A j \in 1..(k - 1) : j <= Len(p) /\ p[j] = r[j] BY <1>1, <1>2, <1>6
  <2> QED BY <2>2, <2>3 DEF PathLess
<1>7. CASE k < i
  <2>1. k \in 1..(i - 1) /\ k <= Len(q) BY <1>4, <1>7
  <2>2. p[k] = q[k] /\ q[k] < r[k] BY <1>1, <1>2, <1>3, <1>4, <2>1
  <2>3. \A j \in 1..(k - 1) : j <= Len(p) /\ p[j] = r[j]
    <3> TAKE j \in 1..(k - 1)
    <3>1. j \in 1..(i - 1) BY <1>4, <1>7
    <3> QED BY <1>1, <1>2, <3>1
  <2> QED BY <2>2, <2>3 DEF PathLess
<1> QED BY <1>4, <1>5, <1>6, <1>7

LEMMA NotBelowItself == ASSUME NEW p \in Seq(Nat) PROVE ~PathLess(p, p)
<1>1. DOMAIN p = 1..Len(p) /\ Len(p) \in Nat /\ \A i \in DOMAIN p : p[i] \in Nat OBVIOUS
<1>2. \A i \in DOMAIN p : ~(i > Len(p)) /\ ~(p[i] < p[i]) BY <1>1
<1> QED BY <1>2 DEF PathLess

\* A line of the mount table.
Mount(e) == e.dev \in Nat /\ e.root \in Seq(Nat) /\ e.point \in Seq(Nat)

LEMMA MountHas == ASSUME NEW a, Mount(a) PROVE a.dev \in Nat /\ Slashes(a.root) \in Nat /\ Len(a.point) \in Nat
BY DEF Mount, Slashes

LEMMA MountsAreOrdered ==
  ASSUME NEW S, \A e \in S : Mount(e), \A a, b \in S : a.point = b.point => a = b
  PROVE  Orders({x \in S \X S : Earlier(x[1], x[2])}, S)
<1>1. PICK R : R = {x \in S \X S : Earlier(x[1], x[2])} OBVIOUS
<1>2. \A a, b \in S : <<a, b>> \in R <=> Earlier(a, b) BY <1>1
<1>3. ASSUME NEW a \in S PROVE ~Earlier(a, a)
  <2>1. Mount(a) /\ a.dev \in Nat /\ Slashes(a.root) \in Nat /\ Len(a.point) \in Nat /\ ~PathLess(a.root, a.root) /\ ~PathLess(a.point, a.point)
    BY NotBelowItself DEF Mount, Slashes
  <2> QED BY <2>1 DEF Earlier
<1>4. ASSUME NEW a \in S, NEW b \in S, a # b PROVE Earlier(a, b) \/ Earlier(b, a)
  <2>1. Mount(a) /\ Mount(b) /\ a.point # b.point BY <1>4
  <2>2. /\ a.dev \in Nat /\ b.dev \in Nat /\ Slashes(a.root) \in Nat /\ Slashes(b.root) \in Nat /\ Len(a.point) \in Nat /\ Len(b.point) \in Nat
    BY <2>1 DEF Mount, Slashes
  <2>3. PathLess(a.point, b.point) \/ PathLess(b.point, a.point) BY <2>1, PathsApart DEF Mount
  <2>4. a.root # b.root => PathLess(a.root, b.root) \/ PathLess(b.root, a.root) BY <2>1, PathsApart DEF Mount
  <2>5. CASE a.dev # b.dev BY <2>1, <2>2, <2>5 DEF Earlier
  <2>6. CASE a.dev = b.dev /\ Slashes(a.root) # Slashes(b.root) BY <2>1, <2>2, <2>6 DEF Earlier
  <2>7. CASE a.dev = b.dev /\ Slashes(a.root) = Slashes(b.root) /\ a.root # b.root BY <2>1, <2>4, <2>7 DEF Earlier
  <2>8. CASE a.dev = b.dev /\ a.root = b.root BY <2>1, <2>2, <2>3, <2>8 DEF Earlier
  <2> QED BY <2>5, <2>6, <2>7, <2>8
<1>5. ASSUME NEW a \in S, NEW b \in S, NEW c \in S, Earlier(a, b), Earlier(b, c) PROVE Earlier(a, c)
  <2>1. Mount(a) /\ Mount(b) /\ Mount(c) OBVIOUS
  <2>2. /\ a.dev \in Nat /\ b.dev \in Nat /\ c.dev \in Nat
        /\ Slashes(a.root) \in Nat /\ Slashes(b.root) \in Nat /\ Slashes(c.root) \in Nat
        /\ Len(a.point) \in Nat /\ Len(b.point) \in Nat /\ Len(c.point) \in Nat
    BY <2>1, MountHas
  <2>3. PathLess(a.root, b.root) /\ PathLess(b.root, c.root) => PathLess(a.root, c.root) BY <2>1, PathsChain DEF Mount
  <2>4. PathLess(a.point, b.point) /\ PathLess(b.point, c.point) => PathLess(a.point, c.point) BY <2>1, PathsChain DEF Mount
  <2>5. \/ a.dev < c.dev
        \/ /\ a.dev = b.dev /\ b.dev = c.dev
           /\ \/ Slashes(a.root) < Slashes(c.root)
              \/ /\ Slashes(a.root) = Slashes(b.root) /\ Slashes(b.root) = Slashes(c.root)
                 /\ \/ PathLess(a.root, b.root) \/ a.root = b.root
                 /\ \/ PathLess(b.root, c.root) \/ b.root = c.root
    BY <1>5, <2>1, <2>2 DEF Earlier
  <2>6. CASE a.dev < c.dev BY <2>1, <2>6 DEF Earlier
  <2>7. CASE a.dev = c.dev /\ Slashes(a.root) < Slashes(c.root) BY <2>1, <2>7 DEF Earlier
  <2>8. CASE a.dev = c.dev /\ Slashes(a.root) = Slashes(c.root) /\ PathLess(a.root, c.root) BY <2>1, <2>8 DEF Earlier
  <2>9. ~PathLess(a.root, a.root) BY <2>1, NotBelowItself DEF Mount
  <2>10. CASE a.dev = c.dev /\ a.root = b.root /\ b.root = c.root
    <3>0. ~PathLess(b.root, b.root) /\ ~PathLess(c.root, c.root) BY <2>9, <2>10
    <3>1. Len(a.point) < Len(b.point) \/ (Len(a.point) = Len(b.point) /\ PathLess(a.point, b.point))
      BY <1>5, <2>2, <2>9, <2>10 DEF Earlier
    <3>2. Len(b.point) < Len(c.point) \/ (Len(b.point) = Len(c.point) /\ PathLess(b.point, c.point))
      BY <1>5, <2>2, <3>0, <2>10 DEF Earlier
    <3>3. Len(a.point) < Len(c.point) \/ (Len(a.point) = Len(c.point) /\ PathLess(a.point, c.point))
      BY <2>2, <2>4, <3>1, <3>2
    <3> QED BY <2>1, <2>10, <3>3 DEF Earlier
  <2>11. \/ a.dev < c.dev
         \/ a.dev = c.dev /\ Slashes(a.root) < Slashes(c.root)
         \/ a.dev = c.dev /\ Slashes(a.root) = Slashes(c.root) /\ PathLess(a.root, c.root)
         \/ a.dev = c.dev /\ a.root = b.root /\ b.root = c.root
    BY <2>3, <2>5
  <2> QED BY <2>6, <2>7, <2>8, <2>10, <2>11
<1> QED BY <1>1, <1>2, <1>3, <1>4, <1>5 DEF Orders

LEMMA RowsAreOrdered ==
  ASSUME NEW S, \A v \in S : v.path \in Seq(Nat), \A v, w \in S : v.path = w.path => v = w
  PROVE  Orders({x \in S \X S : VolumeLess(x[1], x[2])}, S)
<1>1. PICK R : R = {x \in S \X S : VolumeLess(x[1], x[2])} OBVIOUS
<1>2. \A v, w \in S : <<v, w>> \in R <=> VolumeLess(v, w) BY <1>1
<1>3. \A v \in S : RankOf(v) \in Nat BY DEF RankOf
<1>4. \A v \in S : ~VolumeLess(v, v) BY NotBelowItself DEF VolumeLess
<1>5. ASSUME NEW v \in S, NEW w \in S, v # w PROVE VolumeLess(v, w) \/ VolumeLess(w, v)
  <2>1. PathLess(v.path, w.path) \/ PathLess(w.path, v.path) BY <1>5, PathsApart
  <2>2. RankOf(v) \in Nat /\ RankOf(w) \in Nat BY <1>3
  <2> QED BY <2>1, <2>2 DEF VolumeLess
<1>6. ASSUME NEW u \in S, NEW v \in S, NEW w \in S, VolumeLess(u, v), VolumeLess(v, w) PROVE VolumeLess(u, w)
  <2>1. PathLess(u.path, v.path) /\ PathLess(v.path, w.path) => PathLess(u.path, w.path) BY PathsChain
  <2>2. RankOf(u) \in Nat /\ RankOf(v) \in Nat /\ RankOf(w) \in Nat BY <1>3
  <2> QED BY <1>6, <2>1, <2>2 DEF VolumeLess
<1> QED BY <1>1, <1>2, <1>4, <1>5, <1>6 DEF Orders

LEMMA MountsAreSorted ==
  ASSUME NEW S, IsFiniteSet(S), \A e \in S : Mount(e), \A a, b \in S : a.point = b.point => a = b, NEW f, f = Sorted(S, Earlier)
  PROVE  f \in SetToSeqs(S) /\ \A i, j \in DOMAIN f : i < j => Earlier(f[i], f[j])
<1>1. PICK R : R = {x \in S \X S : Earlier(x[1], x[2])} OBVIOUS
<1>2. Orders(R, S) BY <1>1, MountsAreOrdered
<1>3. PICK g \in SetToSeqs(S) : \A i, j \in DOMAIN g : i < j => <<g[i], g[j]>> \in R BY <1>2, SortedExists
<1>4. \A i, j \in DOMAIN g : i < j => Earlier(g[i], g[j]) BY <1>1, <1>3
<1> QED BY <1>3, <1>4 DEF Sorted

LEMMA RowsAreSorted ==
  ASSUME NEW S, IsFiniteSet(S), \A v \in S : v.path \in Seq(Nat), \A v, w \in S : v.path = w.path => v = w
  PROVE  Sorted(S, VolumeLess) \in SetToSeqs(S)
<1>1. PICK R : R = {x \in S \X S : VolumeLess(x[1], x[2])} OBVIOUS
<1>2. Orders(R, S) BY <1>1, RowsAreOrdered
<1>3. PICK g \in SetToSeqs(S) : \A i, j \in DOMAIN g : i < j => <<g[i], g[j]>> \in R BY <1>2, SortedExists
<1>4. \A i, j \in DOMAIN g : i < j => VolumeLess(g[i], g[j]) BY <1>1, <1>3
<1> QED BY <1>3, <1>4 DEF Sorted

-----------------------------------------------------------------------------
(* Of each mount point the mount that is seen; of each filesystem its parts   *)
(* that do not lie within another one.                                       *)

LEMMA SeenMounts ==
  ASSUME NEW n \in Nat, NEW table \in [1..n -> Entries], NEW S, S = ByPoint(table)
  PROVE  /\ IsFiniteSet(S) /\ S \subseteq Entries /\ \A e \in S : Mount(e)
         /\ \A a, b \in S : a.point = b.point => a = b
         /\ \A i \in 1..n : ~RejectMount(table[i]) /\ (\A j \in 1..n : j > i => table[j].point # table[i].point) => table[i] \in S
<1>1. PICK taken : taken = {i \in 1..n : ~RejectMount(table[i])} OBVIOUS
<1>2. PICK seen : seen = {i \in taken : \A j \in taken : j > i => table[j].point # table[i].point} OBVIOUS
<1>3. S = {table[i] : i \in seen} BY <1>1, <1>2 DEF ByPoint
<1>4. seen \subseteq 1..n BY <1>1, <1>2
<1>5. IsFiniteSet(seen)
  <2>1. IsFiniteSet(1..n) BY FS_Interval
  <2> QED BY <1>4, <2>1, FS_Subset
<1>6. PICK f : f = [i \in seen |-> table[i]] OBVIOUS
<1>7. f \in Surjection(seen, S) BY <1>3, <1>6 DEF Surjection
<1>8. IsFiniteSet(S) BY <1>5, <1>7, FS_Surjection
<1>9. S \subseteq Entries BY <1>3, <1>4
<1>10. \A e \in S : Mount(e) BY <1>9, VolumesAssumption DEF Mount
<1>11. ASSUME NEW a \in S, NEW b \in S, a.point = b.point PROVE a = b
  <2>1. PICK i \in seen : a = table[i] BY <1>3
  <2>2. PICK j \in seen : b = table[j] BY <1>3
  <2>3. i \in Nat /\ j \in Nat /\ i \in taken /\ j \in taken BY <1>2, <1>4
  <2>4. ~(i < j) /\ ~(j < i) BY <1>2, <1>11, <2>1, <2>2, <2>3
  <2> QED BY <2>1, <2>2, <2>3, <2>4
<1>12. \A i \in 1..n : ~RejectMount(table[i]) /\ (\A j \in 1..n : j > i => table[j].point # table[i].point) => table[i] \in S
  BY <1>1, <1>2, <1>3
<1> QED BY <1>8, <1>9, <1>10, <1>11, <1>12

Kept(out, e) == IF \E i \in DOMAIN out : Duplicates(e, out[i]) THEN out ELSE Append(out, e)

LEMMA SelectInSteps ==
  ASSUME NEW table, NEW S, S = ByPoint(table), NEW s \in Seq(S), s = Sorted(S, Earlier), NEW n, n = Len(s)
  PROVE  \E h : h[0] = <<>> /\ SelectMounts(table) = h[n] /\ \A k \in 1..n : h[k] = Kept(h[k - 1], s[k])
<1> DEFINE It(G) == [t \in SUBSET DOMAIN s |->
                       IF t = {} THEN <<>>
                       ELSE IF \E i \in DOMAIN G[t \ {Max(t)}] : Duplicates(s[Max(t)], G[t \ {Max(t)}][i]) THEN G[t \ {Max(t)}]
                            ELSE Append(G[t \ {Max(t)}], s[Max(t)])]
<1> DEFINE it == CHOOSE G : G = It(G)
<1>1. n \in Nat /\ DOMAIN s = 1..n OBVIOUS
<1>2. PICK Y : Y = Seq(S) OBVIOUS
<1>3. PICK g : g = [p \in (1..n) \X Y |-> Kept(p[2], s[p[1]])] OBVIOUS
<1>4. \A p \in (1..n) \X Y : Kept(p[2], s[p[1]]) \in Y BY <1>1, <1>2 DEF Kept
<1>5. g \in [(1..n) \X Y -> Y] /\ <<>> \in Y BY <1>2, <1>3, <1>4
<1>6. PICK F \in [SUBSET (1..n) -> Y] : Folded(g, <<>>, F) BY <1>1, <1>5, FoldedExists
<1>7. F = It(F)
  <2>1. ASSUME NEW t \in SUBSET (1..n), t # {}
        PROVE  F[t] = Kept(F[t \ {Max(t)}], s[Max(t)])
    <3>1. Max(t) \in 1..n BY <1>1, <2>1, GreatestIsIn
    <3>2. t \ {Max(t)} \in SUBSET (1..n) OBVIOUS
    <3>3. <<Max(t), F[t \ {Max(t)}]>> \in (1..n) \X Y BY <1>6, <3>1, <3>2
    <3>4. F[t] = g[<<Max(t), F[t \ {Max(t)}]>>] BY <1>6, <2>1 DEF Folded
    <3> QED BY <1>3, <3>3, <3>4
  <2>2. F[{}] = <<>> BY <1>6 DEF Folded
  <2>3. DOMAIN F = SUBSET DOMAIN s BY <1>1, <1>6
  <2> QED BY <1>1, <1>6, <2>1, <2>2, <2>3 DEF Kept
<1>8. it = It(it) BY <1>7
<1>9. SelectMounts(table) = it[DOMAIN s] BY DEF SelectMounts, FoldLeft, MapThenFoldSet
<1> HIDE DEF it
<1>10. it[{}] = <<>> BY <1>8
<1>11. ASSUME NEW k \in 1..n PROVE it[1..k] = Kept(it[1..(k - 1)], s[k])
  <2>1. k \in Nat /\ k # 0 /\ 1..k \in SUBSET DOMAIN s /\ 1..k # {}
    <3>1. k \in Nat /\ k # 0 /\ k <= n /\ k \in 1..k BY <1>1
    <3>2. 1..k \subseteq 1..n BY <1>1, <3>1
    <3> QED BY <1>1, <3>1, <3>2
  <2>2. Max(1..k) = k /\ (1..k) \ {k} = 1..(k - 1) BY <2>1, OneStepLess
  <2>3. it[1..k] = Kept(it[(1..k) \ {Max(1..k)}], s[Max(1..k)]) BY <1>8, <2>1 DEF Kept
  <2> QED BY <2>2, <2>3
<1>12. PICK h : h = [k \in 0..n |-> it[1..k]] OBVIOUS
<1>13. h[0] = <<>>
  <2>1. 1..0 = {} /\ 0 \in 0..n BY <1>1
  <2> QED BY <1>10, <1>12, <2>1
<1>14. h[n] = it[1..n] BY <1>1, <1>12
<1>15. ASSUME NEW k \in 1..n PROVE h[k] = Kept(h[k - 1], s[k])
  <2>1. k \in 0..n /\ k - 1 \in 0..n BY <1>1
  <2> QED BY <1>11, <1>12, <2>1
<1> QED BY <1>1, <1>9, <1>13, <1>14, <1>15

LEMMA DuplicatesIs ==
  ASSUME NEW a, NEW b, Mount(a), Mount(b)
  PROVE  Duplicates(a, b) <=> /\ b.dev = a.dev /\ Len(b.root) <= Len(a.root)
                              /\ \A j \in 1..Len(b.root) : b.root[j] = a.root[j]
<1>1. PICK p, q : p = b.root /\ q = a.root OBVIOUS
<1>2. p \in Seq(Nat) /\ q \in Seq(Nat) /\ Len(p) \in Nat /\ Len(q) \in Nat BY <1>1 DEF Mount
<1>3. IsPrefix(p, q) <=> Len(p) <= Len(q) /\ \A j \in 1..Len(p) : p[j] = q[j]
  <2>1. CASE Len(p) <= Len(q)
    <3>1. SubSeq(p, 1, Len(p)) = [j \in 1..Len(p) |-> p[j]] /\ SubSeq(q, 1, Len(p)) = [j \in 1..Len(p) |-> q[j]]
      BY <1>2, <2>1
    <3> QED BY <2>1, <3>1 DEF IsPrefix
  <2>2. CASE ~(Len(p) <= Len(q)) BY <2>2 DEF IsPrefix
  <2> QED BY <2>1, <2>2
<1> QED BY <1>1, <1>3 DEF Duplicates

(* Of two parts of one filesystem, one in the other, the outer comes first.    *)
LEMMA OuterFirst ==
  ASSUME NEW a, NEW b, Mount(a), Mount(b), Earlier(a, b), Duplicates(a, b)
  PROVE  Duplicates(b, a)
<1>1. b.dev = a.dev /\ Len(b.root) <= Len(a.root) /\ \A j \in 1..Len(b.root) : b.root[j] = a.root[j] BY DuplicatesIs
<1>2. a.root \in Seq(Nat) /\ b.root \in Seq(Nat) /\ Len(a.root) \in Nat /\ Len(b.root) \in Nat /\ a.dev \in Nat BY DEF Mount
<1>3. CASE b.root = a.root
  <2>1. Len(a.root) <= Len(b.root) /\ \A j \in 1..Len(a.root) : a.root[j] = b.root[j] BY <1>2, <1>3
  <2> QED BY <1>1, <2>1, DuplicatesIs
<1>4. CASE b.root # a.root
  <2>1. Len(b.root) < Len(a.root)
    <3>1. SUFFICES ASSUME Len(b.root) = Len(a.root) PROVE FALSE BY <1>1, <1>2
    <3>2. PICK p, q : p = b.root /\ q = a.root OBVIOUS
    <3>3. p \in Seq(Nat) /\ q \in Seq(Nat) /\ Len(p) = Len(q) /\ \A j \in 1..Len(p) : p[j] = q[j] BY <1>1, <1>2, <3>1, <3>2
    <3>4. p = q
      <4>1. p \in [1..Len(p) -> Nat] /\ q \in [1..Len(p) -> Nat] BY <3>3
      <4> QED BY ONLY <4>1, <3>3
    <3> QED BY <1>4, <3>2, <3>4
  <2>2. ~PathLess(a.root, b.root)
    <3>1. SUFFICES ASSUME NEW i \in DOMAIN b.root, i > Len(a.root) \/ a.root[i] < b.root[i] PROVE FALSE BY DEF PathLess
    <3>2. i \in 1..Len(b.root) /\ ~(i > Len(a.root)) BY <1>2, <2>1
    <3>3. a.root[i] = b.root[i] /\ b.root[i] \in Nat BY <1>1, <1>2, <3>2
    <3> QED BY <3>1, <3>2, <3>3
  <2>3. Slashes(b.root) <= Slashes(a.root) /\ Slashes(a.root) \in Nat /\ Slashes(b.root) \in Nat
    <3>1. CASE b.root = <<>> BY <1>2, <1>4, <3>1 DEF Slashes
    <3>2. CASE b.root # <<>>
      <4>1. a.root # <<>> BY <1>2, <2>1
      <4> QED BY <1>2, <2>1, <3>2, <4>1 DEF Slashes
    <3> QED BY <3>1, <3>2
  <2> QED BY <1>1, <1>2, <1>4, <2>2, <2>3 DEF Earlier
<1> QED BY <1>3, <1>4

LEMMA DuplicatesChain ==
  ASSUME NEW a, NEW b, NEW c, Mount(a), Mount(b), Mount(c), Duplicates(a, b), Duplicates(b, c)
  PROVE  Duplicates(a, c)
<1>1. b.dev = a.dev /\ Len(b.root) <= Len(a.root) /\ \A j \in 1..Len(b.root) : b.root[j] = a.root[j] BY DuplicatesIs
<1>2. c.dev = b.dev /\ Len(c.root) <= Len(b.root) /\ \A j \in 1..Len(c.root) : c.root[j] = b.root[j] BY DuplicatesIs
<1>3. Len(a.root) \in Nat /\ Len(b.root) \in Nat /\ Len(c.root) \in Nat BY DEF Mount
<1>4. Len(c.root) <= Len(a.root) /\ \A j \in 1..Len(c.root) : c.root[j] = a.root[j] BY <1>1, <1>2, <1>3
<1> QED BY <1>1, <1>2, <1>4, DuplicatesIs

LEMMA DuplicatesItself == ASSUME NEW a, Mount(a) PROVE Duplicates(a, a)
<1>1. Len(a.root) \in Nat BY DEF Mount
<1> QED BY <1>1, DuplicatesIs

(* What is selected so far: in the order of the list, no part within another, *)
(* and each of the first k mounts within a part.                              *)
Chosen(s, k, out) ==
  /\ out \in Seq(Range(s))
  /\ \A i \in DOMAIN out : \E m \in 1..k : out[i] = s[m]
  /\ \A i, j \in DOMAIN out : i < j => ~Duplicates(out[j], out[i]) /\ Earlier(out[i], out[j])
  /\ \A m \in 1..k : \E i \in DOMAIN out : Duplicates(s[m], out[i])

LEMMA OneMoreChosen ==
  ASSUME NEW S, \A e \in S : Mount(e), NEW s \in Seq(S), \A i, j \in DOMAIN s : i < j => Earlier(s[i], s[j]),
         NEW k \in 1..Len(s), NEW out, Chosen(s, k - 1, out)
  PROVE  Chosen(s, k, Kept(out, s[k]))
<1>1. Len(s) \in Nat /\ DOMAIN s = 1..Len(s) /\ k \in DOMAIN s /\ s[k] \in S /\ s[k] \in Range(s) BY DEF Range
<1>2. \A m \in 1..k : m \in 1..(k - 1) \/ m = k BY <1>1
<1>3. \A m \in 1..(k - 1) : m \in 1..k /\ m < k /\ m \in DOMAIN s BY <1>1
<1>4. CASE \E i \in DOMAIN out : Duplicates(s[k], out[i])
  <2>1. Kept(out, s[k]) = out BY <1>4 DEF Kept
  <2> QED BY <1>2, <1>3, <1>4, <2>1 DEF Chosen
<1>5. CASE ~\E i \in DOMAIN out : Duplicates(s[k], out[i])
  <2>1. PICK new : new = Append(out, s[k]) OBVIOUS
  <2>2. Kept(out, s[k]) = new BY <1>5, <2>1 DEF Kept
  <2>3. /\ out \in Seq(Range(s)) /\ new \in Seq(Range(s)) /\ Len(out) \in Nat /\ DOMAIN out = 1..Len(out) /\ DOMAIN new = 1..(Len(out) + 1)
        /\ new[Len(out) + 1] = s[k] /\ \A i \in DOMAIN out : new[i] = out[i]
    BY <1>1, <2>1 DEF Chosen
  <2>4. \A i \in DOMAIN new : i \in DOMAIN out \/ (i = Len(out) + 1 /\ i \notin DOMAIN out) BY <2>3
  <2>5. \A i \in DOMAIN out : i \in DOMAIN new BY <2>3
  <2>6. ASSUME NEW i \in DOMAIN new PROVE \E m \in 1..k : new[i] = s[m]
    <3>1. k \in 1..k BY <1>1
    <3> QED BY <1>3, <2>3, <2>4, <3>1 DEF Chosen
  <2>7. ASSUME NEW i \in DOMAIN new, NEW j \in DOMAIN new, i < j
        PROVE  ~Duplicates(new[j], new[i]) /\ Earlier(new[i], new[j])
    <3>1. i \in DOMAIN out
      <4>1. i \in Nat /\ j \in Nat /\ j <= Len(out) + 1 BY <2>3
      <4> QED BY <2>3, <2>4, <2>7, <4>1
    <3>2. CASE j \in DOMAIN out BY <2>3, <2>7, <3>1, <3>2 DEF Chosen
    <3>3. CASE j = Len(out) + 1
      <4>1. new[j] = s[k] /\ new[i] = out[i] /\ ~Duplicates(s[k], out[i]) BY <1>5, <2>3, <3>1, <3>3
      <4>2. PICK m \in 1..(k - 1) : out[i] = s[m] BY <3>1 DEF Chosen
      <4>3. Earlier(s[m], s[k]) BY <1>1, <1>3
      <4> QED BY <4>1, <4>2, <4>3
    <3> QED BY <2>4, <3>2, <3>3
  <2>8. ASSUME NEW m \in 1..k PROVE \E i \in DOMAIN new : Duplicates(s[m], new[i])
    <3>1. CASE m \in 1..(k - 1)
      <4>1. PICK i \in DOMAIN out : Duplicates(s[m], out[i]) BY <3>1 DEF Chosen
      <4> QED BY <2>3, <2>5, <4>1
    <3>2. CASE m = k
      <4>1. Duplicates(s[k], s[k]) BY <1>1, DuplicatesItself
      <4>2. Len(out) + 1 \in DOMAIN new BY <2>3
      <4> QED BY <2>3, <3>2, <4>1, <4>2
    <3> QED BY <1>2, <3>1, <3>2
  <2> QED BY <2>2, <2>3, <2>6, <2>7, <2>8 DEF Chosen
<1> QED BY <1>4, <1>5

LEMMA SelectedMounts ==
  ASSUME NEW table, NEW S, S = ByPoint(table), IsFiniteSet(S), \A e \in S : Mount(e), \A a, b \in S : a.point = b.point => a = b,
         NEW out, out = SelectMounts(table)
  PROVE  /\ out \in Seq(S) /\ \A e \in S : \E i \in DOMAIN out : Duplicates(e, out[i])
         /\ \A i, j \in DOMAIN out : i # j => ~Duplicates(out[i], out[j])
<1>1. PICK s : s = Sorted(S, Earlier) OBVIOUS
<1>2. s \in SetToSeqs(S) /\ \A i, j \in DOMAIN s : i < j => Earlier(s[i], s[j]) BY <1>1, MountsAreSorted
<1>3. s \in Seq(S) /\ \A x \in S : \E i \in DOMAIN s : s[i] = x BY <1>2, ListsAll
<1>4. PICK n : n = Len(s) OBVIOUS
<1>5. n \in Nat /\ DOMAIN s = 1..n /\ Range(s) = S BY <1>3, <1>4 DEF Range
<1>6. PICK h : h[0] = <<>> /\ out = h[n] /\ \A k \in 1..n : h[k] = Kept(h[k - 1], s[k]) BY <1>1, <1>3, <1>4, SelectInSteps
<1>7. PICK Failing : Failing = {k \in 0..n : ~Chosen(s, k, h[k])} OBVIOUS
<1>8. Failing = {}
  <2>1. SUFFICES ASSUME Failing # {} PROVE FALSE OBVIOUS
  <2>2. Failing \subseteq Nat BY <1>7
  <2>3. PICK k \in Failing : \A j \in Failing : k <= j BY <2>1, <2>2, HasLeast
  <2>4. k \in 0..n /\ ~Chosen(s, k, h[k]) BY <1>7
  <2>5. k # 0
    <3>1. Chosen(s, 0, <<>>)
      <4>1. 1..0 = {} OBVIOUS
      <4>2. PICK none : none = <<>> OBVIOUS
      <4>3. none \in Seq(Range(s)) /\ DOMAIN none = {} BY <4>2
      <4>4. Chosen(s, 0, none) BY <4>1, <4>3 DEF Chosen
      <4> QED BY <4>2, <4>4
    <3> QED BY <1>6, <2>4, <3>1
  <2>6. k \in 1..n /\ k - 1 \in 0..n /\ ~(k <= k - 1) BY <1>5, <2>4, <2>5
  <2>7. Chosen(s, k - 1, h[k - 1]) BY <1>7, <2>3, <2>6
  <2>8. Chosen(s, k, Kept(h[k - 1], s[k])) BY <1>2, <1>3, <1>4, <2>6, <2>7, OneMoreChosen
  <2> QED BY <1>6, <2>4, <2>6, <2>8
<1>9. n \in 0..n BY <1>5
<1>10. Chosen(s, n, out) BY <1>6, <1>7, <1>8, <1>9
<1>11. out \in Seq(S) BY <1>5, <1>10 DEF Chosen
<1>12. \A e \in S : \E i \in DOMAIN out : Duplicates(e, out[i]) BY <1>3, <1>5, <1>10 DEF Chosen
<1>13. ASSUME NEW i \in DOMAIN out, NEW j \in DOMAIN out, i # j PROVE ~Duplicates(out[i], out[j])
  <2>1. i \in Nat /\ j \in Nat /\ out[i] \in S /\ out[j] \in S BY <1>11
  <2>2. CASE j < i BY <1>10, <2>2 DEF Chosen
  <2>3. CASE i < j
    <3>1. ~Duplicates(out[j], out[i]) /\ Earlier(out[i], out[j]) BY <1>10, <2>3 DEF Chosen
    <3> QED BY <2>1, <3>1, OuterFirst
  <2> QED BY <1>13, <2>1, <2>2, <2>3
<1> QED BY <1>11, <1>12, <1>13

RowOf(e) == [path |-> e.point, kind |-> KindOf(e), dev |-> e.dev, root |-> e.root]

LEMMA RowsAreListed ==
  ASSUME NEW S, IsFiniteSet(S), \A e \in S : Mount(e), \A a, b \in S : a.point = b.point => a = b,
         NEW offered, offered \subseteq S, NEW V, \A v : v \in V <=> \E e \in offered : v = RowOf(e)
  PROVE  IsFiniteSet(V) /\ Sorted(V, VolumeLess) \in SetToSeqs(V)
<1>1. IsFiniteSet(offered) BY FS_Subset
<1>2. PICK f : f = [e \in offered |-> RowOf(e)] OBVIOUS
<1>3. f \in Surjection(offered, V) BY <1>2 DEF Surjection
<1>4. IsFiniteSet(V) BY <1>1, <1>3, FS_Surjection
<1>5. \A e \in offered : RowOf(e).path = e.point /\ e.point \in Seq(Nat) BY DEF RowOf, Mount
<1>6. \A v \in V : v.path \in Seq(Nat) BY <1>5
<1>7. \A v, w \in V : v.path = w.path => v = w BY <1>5
<1> QED BY <1>4, <1>6, <1>7, RowsAreSorted

LEMMA ListedRows ==
  ASSUME NEW offered, NEW V, \A v : v \in V <=> \E e \in offered : v = RowOf(e), IsFiniteSet(V), NEW rows \in SetToSeqs(V)
  PROVE  /\ \A i \in DOMAIN rows : \E e \in offered : rows[i] = RowOf(e)
         /\ \A e \in offered : \E i \in DOMAIN rows : rows[i] = RowOf(e)
         /\ \A i, j \in DOMAIN rows : i # j => rows[i] # rows[j]
<1>1. rows \in Seq(V) /\ (\A x \in V : \E i \in DOMAIN rows : rows[i] = x) /\ (\A i, j \in DOMAIN rows : i # j => rows[i] # rows[j])
  BY ListsAll
<1>2. \A i \in DOMAIN rows : rows[i] \in V BY <1>1
<1> QED BY <1>1, <1>2

LEMMA DrivesAreListedOnce ==
  ASSUME NEW n \in Nat, NEW table \in [1..n -> Entries], NEW look, NEW rows, rows = ListVolumes(table, look)
  PROVE  /\ \A i, j \in DOMAIN rows : i # j => ~Within(rows[j], rows[i])
         /\ (\A p \in Points : look[p] \in {"dir", "hung"}) =>
              \A i \in 1..n :
                Offered(table[i]) /\ (\A j \in 1..n : j > i => table[j].point # table[i].point) =>
                  \E k \in DOMAIN rows : Within(table[i], rows[k])
<1>1. PICK S : S = ByPoint(table) OBVIOUS
<1>2. /\ IsFiniteSet(S) /\ S \subseteq Entries /\ \A e \in S : Mount(e)
      /\ \A a, b \in S : a.point = b.point => a = b
      /\ \A i \in 1..n : ~RejectMount(table[i]) /\ (\A j \in 1..n : j > i => table[j].point # table[i].point) => table[i] \in S
  BY <1>1, SeenMounts
<1>3. PICK out : out = SelectMounts(table) OBVIOUS
<1>4. /\ out \in Seq(S) /\ \A e \in S : \E i \in DOMAIN out : Duplicates(e, out[i])
      /\ \A i, j \in DOMAIN out : i # j => ~Duplicates(out[i], out[j])
  BY <1>1, <1>2, <1>3, SelectedMounts
<1>5. PICK offered : offered = {e \in Range(out) : look[e.point] \in {"dir", "hung"}} OBVIOUS
<1>6. PICK V : V = {RowOf(e) : e \in offered} OBVIOUS
<1>7. offered \subseteq S BY <1>4, <1>5 DEF Range
<1>8. /\ \A i \in DOMAIN rows : \E e \in offered : rows[i] = RowOf(e)
      /\ \A e \in offered : \E i \in DOMAIN rows : rows[i] = RowOf(e)
      /\ \A i, j \in DOMAIN rows : i # j => rows[i] # rows[j]
  <2>1. \A v : v \in V <=> \E e \in offered : v = RowOf(e) BY <1>6
  <2>2. IsFiniteSet(V) /\ Sorted(V, VolumeLess) \in SetToSeqs(V) BY <1>2, <1>7, <2>1, RowsAreListed
  <2>3. rows = Sorted(V, VolumeLess) BY <1>3, <1>5, <1>6 DEF ListVolumes, RowOf
  <2>4. rows \in SetToSeqs(V) BY <2>2, <2>3
  <2> QED BY <2>1, <2>2, <2>4, ListedRows
<1>9. \A a, b : Within(RowOf(a), RowOf(b)) <=> Duplicates(a, b) BY DEF Within, Duplicates, RowOf
<1>10. \A a, b : Within(a, RowOf(b)) <=> Duplicates(a, b) BY DEF Within, Duplicates, RowOf
<1>11. ASSUME NEW i \in DOMAIN rows, NEW j \in DOMAIN rows, i # j PROVE ~Within(rows[j], rows[i])
  <2>1. PICK a \in offered : rows[i] = RowOf(a) BY <1>8
  <2>2. PICK b \in offered : rows[j] = RowOf(b) BY <1>8
  <2>3. PICK k \in DOMAIN out : a = out[k] BY <1>5 DEF Range
  <2>4. PICK m \in DOMAIN out : b = out[m] BY <1>5 DEF Range
  <2>5. k # m BY <1>8, <1>11, <2>1, <2>2, <2>3, <2>4
  <2>6. ~Duplicates(b, a) BY <1>4, <2>3, <2>4, <2>5
  <2> QED BY <1>9, <2>1, <2>2, <2>6
<1>12. ASSUME \A p \in Points : look[p] \in {"dir", "hung"}, NEW i \in 1..n,
              Offered(table[i]), \A j \in 1..n : j > i => table[j].point # table[i].point
       PROVE  \E k \in DOMAIN rows : Within(table[i], rows[k])
  <2>1. table[i] \in S BY <1>2, <1>12 DEF Offered, RejectMount
  <2>2. PICK m \in DOMAIN out : Duplicates(table[i], out[m]) BY <1>4, <2>1
  <2>3. out[m] \in S /\ out[m] \in Range(out) BY <1>4 DEF Range
  <2>4. out[m].point \in Points BY <1>2, <2>3 DEF Points
  <2>5. out[m] \in offered BY <1>5, <1>12, <2>3, <2>4
  <2>6. PICK k \in DOMAIN rows : rows[k] = RowOf(out[m]) BY <1>8, <2>5
  <2> QED BY <1>10, <2>2, <2>6
<1> QED BY <1>11, <1>12

VolumesInv ==
  /\ \E n \in Nat : mounts \in [1..n -> Entries]
  /\ vols.listed => vols.rows = ListVolumes(mounts, looks)

(* Whatever is mounted, wherever, and however the mount points answer: the     *)
(* drive chooser offers no part of a filesystem twice, and every filesystem    *)
(* that may be offered lies within a row (selectMounts, listVolumes).          *)
THEOREM DrivesOnce == VolumesSpec => []EveryDriveOnce
<1>1. VolumesInit => VolumesInv
  <2> SUFFICES ASSUME VolumesInit PROVE VolumesInv OBVIOUS
  <2>1. PICK n \in 0..MaxMounts : mounts \in [1..n -> Entries] BY DEF VolumesInit
  <2>2. n \in Nat BY VolumesAssumption
  <2>3. ~vols.listed BY DEF VolumesInit
  <2> QED BY <2>1, <2>2, <2>3 DEF VolumesInv
<1>2. VolumesInv /\ [VolumesNext]_dvars => VolumesInv'
  <2> SUFFICES ASSUME VolumesInv, [VolumesNext]_dvars PROVE VolumesInv' OBVIOUS
  <2>1. CASE List BY <2>1 DEF List, VolumesInv
  <2>2. CASE UNCHANGED dvars BY <2>2 DEF dvars, VolumesInv
  <2> QED BY <2>1, <2>2 DEF VolumesNext
<1>3. VolumesInv => EveryDriveOnce
  <2> SUFFICES ASSUME VolumesInv, vols.listed PROVE EveryDriveOnce BY DEF EveryDriveOnce
  <2>1. PICK n \in Nat : mounts \in [1..n -> Entries] BY DEF VolumesInv
  <2>2. PICK rows : rows = vols.rows OBVIOUS
  <2>3. rows = ListVolumes(mounts, looks) BY <2>2 DEF VolumesInv
  <2>4. DOMAIN mounts = 1..n BY <2>1
  <2> QED BY <2>1, <2>2, <2>3, <2>4, DrivesAreListedOnce DEF EveryDriveOnce
<1> QED BY <1>1, <1>2, <1>3, PTL DEF VolumesSpec

-----------------------------------------------------------------------------
(***************************************************************************)
(* The events file: where its lines end                                    *)
(***************************************************************************)

LEMMA AllReached ==
  ASSUME NEW n \in Nat, NEW A, 0 \in A, \A k \in 1..n : k - 1 \in A => k \in A
  PROVE  0..n \subseteq A
<1>1. PICK Out : Out = {k \in 0..n : k \notin A} OBVIOUS
<1>2. SUFFICES ASSUME Out # {} PROVE FALSE BY <1>1
<1>3. Out \subseteq Nat BY <1>1
<1>4. PICK k \in Out : \A j \in Out : k <= j BY <1>2, <1>3, HasLeast
<1>5. k \in 1..n /\ k \notin A BY <1>1
<1>6. k - 1 \in 0..n /\ ~(k <= k - 1) BY <1>5
<1>7. k - 1 \in A BY <1>1, <1>4, <1>6
<1> QED BY <1>5, <1>7

(* A fold over 1..n, read as a list of its steps. *)
Steps(h, n, base, g) == h[0] = base /\ \A k \in 1..n : h[k] = g[<<k, h[k - 1]>>]

LEMMA StepByStep ==
  ASSUME NEW n \in Nat, NEW Y, NEW base \in Y, NEW g \in [(1..n) \X Y -> Y]
  PROVE  \E h \in [0..n -> Y] : Steps(h, n, base, g)
<1>1. PICK F \in [SUBSET (1..n) -> Y] : Folded(g, base, F) BY FoldedExists
<1>2. PICK h : h = [k \in 0..n |-> F[1..k]] OBVIOUS
<1>3. \A k \in 0..n : 1..k \in SUBSET (1..n) OBVIOUS
<1>4. h \in [0..n -> Y] BY <1>1, <1>2, <1>3
<1>5. h[0] = base
  <2>1. 1..0 = {} /\ 0 \in 0..n /\ {} \in SUBSET (1..n) OBVIOUS
  <2>2. F[{}] = base BY <1>1, <2>1 DEF Folded
  <2> QED BY <1>2, <2>1, <2>2
<1>6. ASSUME NEW k \in 1..n PROVE h[k] = g[<<k, h[k - 1]>>]
  <2>1. k \in Nat /\ k # 0 /\ k \in 0..n /\ k - 1 \in 0..n /\ k \in 1..k OBVIOUS
  <2>2. 1..k \in SUBSET (1..n) /\ 1..k # {} BY <1>3, <2>1
  <2>3. Max(1..k) = k /\ (1..k) \ {k} = 1..(k - 1) BY <2>1, OneStepLess
  <2>4. F[1..k] = g[<<Max(1..k), F[(1..k) \ {Max(1..k)}]>>] BY <1>1, <2>2 DEF Folded
  <2> QED BY <1>2, <2>1, <2>3, <2>4
<1> QED BY <1>4, <1>5, <1>6 DEF Steps

LineEnds(e) ==
  /\ e \in [0..Len(Lines) -> Nat] /\ e[0] = 0
  /\ \A k \in 1..Len(Lines) : e[k] = e[k - 1] + Lines[k] + 1

LEMMA LinesEnd == \E e : LineEnds(e)
<1>1. PICK n : n = Len(Lines) OBVIOUS
<1>2. n \in Nat /\ Lines \in Seq(Nat) BY <1>1, TailerAssumption
<1>3. PICK g : g = [p \in (1..n) \X Nat |-> p[2] + Lines[p[1]] + 1] OBVIOUS
<1>4. \A k \in 1..n : Lines[k] \in Nat BY <1>1, <1>2
<1>5. g \in [(1..n) \X Nat -> Nat] BY <1>3, <1>4
<1>6. PICK h \in [0..n -> Nat] : h[0] = 0 /\ \A k \in 1..n : h[k] = g[<<k, h[k - 1]>>]
  <2>1. PICK Y : Y = Nat OBVIOUS
  <2>2. g \in [(1..n) \X Y -> Y] /\ 0 \in Y BY <1>5, <2>1
  <2>3. \E h \in [0..n -> Y] : Steps(h, n, 0, g) BY <1>2, <2>2, StepByStep
  <2> QED BY <2>1, <2>3 DEF Steps
<1>7. ASSUME NEW k \in 1..n PROVE h[k] = h[k - 1] + Lines[k] + 1
  <2>1. k - 1 \in 0..n BY <1>2
  <2>2. <<k, h[k - 1]>> \in (1..n) \X Nat BY <1>6, <2>1
  <2> QED BY <1>3, <1>6, <2>2
<1> QED BY <1>1, <1>6, <1>7 DEF LineEnds

LEMMA EndsGrow ==
  ASSUME NEW e, LineEnds(e), NEW k \in 0..Len(Lines), NEW m \in 0..k, m # k
  PROVE  e[m] < e[k] /\ e[m] \in Nat /\ e[k] \in Nat
<1>1. PICK n : n = Len(Lines) OBVIOUS
<1>2. n \in Nat /\ k \in 0..n /\ m \in Nat /\ m < k /\ \A i \in 1..n : Lines[i] \in Nat BY <1>1, TailerAssumption
<1>3. e \in [0..n -> Nat] /\ \A i \in 1..n : e[i] = e[i - 1] + Lines[i] + 1 BY <1>1 DEF LineEnds
<1>4. PICK A : A = {i \in 0..n : i <= m \/ e[m] < e[i]} OBVIOUS
<1>5. 0 \in A BY <1>2, <1>4
<1>6. ASSUME NEW i \in 1..n, i - 1 \in A PROVE i \in A
  <2>1. i \in 0..n /\ i - 1 \in 0..n /\ m \in 0..n BY <1>2
  <2>2. e[i] = e[i - 1] + Lines[i] + 1 /\ e[i - 1] \in Nat /\ e[m] \in Nat /\ Lines[i] \in Nat BY <1>2, <1>3, <2>1
  <2>3. CASE i <= m BY <1>4, <2>1, <2>3
  <2>4. CASE i - 1 = m BY <1>4, <2>1, <2>2, <2>4
  <2>5. CASE i - 1 > m
    <3>1. e[m] < e[i - 1] BY <1>2, <1>4, <1>6, <2>1, <2>5
    <3>2. e[m] < e[i] BY <2>2, <3>1
    <3> QED BY <1>4, <2>1, <3>2
  <2> QED BY <1>2, <2>1, <2>3, <2>4, <2>5
<1>7. k \in A BY <1>2, <1>5, <1>6, AllReached
<1> QED BY <1>2, <1>3, <1>4, <1>7

(* w holds the first k lines. *)
Laid(w, k, e) ==
  /\ w \in Seq(Nat) /\ Len(w) = e[k]
  /\ \A m \in 1..k : w[e[m]] = NL /\ \A j \in 1..Lines[m] : w[e[m - 1] + j] = m

LEMMA OneMoreLine ==
  ASSUME NEW e, LineEnds(e), NEW k \in 1..Len(Lines), NEW w, Laid(w, k - 1, e)
  PROVE  Laid(w \o Text[k], k, e)
<1>1. PICK n : n = Len(Lines) OBVIOUS
<1>2. n \in Nat /\ k \in 1..n /\ \A i \in 1..n : Lines[i] \in Nat BY <1>1, TailerAssumption
<1>3. e \in [0..n -> Nat] /\ \A i \in 1..n : e[i] = e[i - 1] + Lines[i] + 1 BY <1>1 DEF LineEnds
<1>4. PICK l : l = Lines[k] OBVIOUS
<1>5. l \in Nat /\ e[k] = e[k - 1] + l + 1 /\ e[k - 1] \in Nat
  <2>1. k - 1 \in 0..n BY <1>2
  <2> QED BY <1>2, <1>3, <1>4, <2>1
<1>6. PICK t : t = Text[k] OBVIOUS
<1>7. t = [j \in 1..(l + 1) |-> IF j <= l THEN k ELSE NL] BY <1>1, <1>2, <1>4, <1>6 DEF Text
<1>8. t \in Seq(Nat) /\ Len(t) = l + 1 /\ t[l + 1] = NL /\ \A j \in 1..l : t[j] = k
  <2>1. t \in [1..(l + 1) -> Nat] BY <1>2, <1>7 DEF NL
  <2>2. l + 1 \in Nat BY <1>5
  <2>3. t \in Seq(Nat) /\ Len(t) = l + 1 BY <2>1, <2>2
  <2>4. t[l + 1] = NL /\ \A j \in 1..l : t[j] = k BY <1>5, <1>7
  <2> QED BY <2>3, <2>4
<1>9. w \in Seq(Nat) /\ Len(w) = e[k - 1] BY DEF Laid
<1>10. PICK u : u = w \o t OBVIOUS
<1>11. /\ u \in Seq(Nat) /\ Len(u) = e[k]
       /\ \A i \in 1..Len(w) : u[i] = w[i]
       /\ \A j \in 1..(l + 1) : u[e[k - 1] + j] = t[j]
  <2>1. w \in Seq(Nat) /\ t \in Seq(Nat) /\ Len(w) \in Nat /\ Len(t) \in Nat BY <1>8, <1>9
  <2>2. u \in Seq(Nat) /\ Len(u) = Len(w) + Len(t) BY <1>10, <2>1
  <2>3. \A i \in 1..Len(w) : u[i] = w[i] BY <1>10, <2>1
  <2>4. ASSUME NEW j \in 1..(l + 1) PROVE u[e[k - 1] + j] = t[j]
    <3>1. PICK i : i = Len(w) + j OBVIOUS
    <3>2. i \in 1..(Len(w) + Len(t)) /\ i > Len(w) /\ i - Len(w) = j BY <1>5, <1>8, <2>1, <3>1
    <3>3. u[i] = t[i - Len(w)] BY <1>10, <2>1, <3>2
    <3> QED BY <1>9, <3>1, <3>2, <3>3
  <2>5. Len(u) = e[k]
    <3>1. Len(t) = l + 1 /\ Len(w) = e[k - 1] /\ Len(u) = Len(w) + Len(t) BY <1>8, <1>9, <2>2
    <3> QED BY <1>5, <3>1, <2>1, SMTT(30)
  <2> QED BY <2>2, <2>3, <2>4, <2>5
<1>12. ASSUME NEW m \in 1..k PROVE u[e[m]] = NL /\ \A j \in 1..Lines[m] : u[e[m - 1] + j] = m
  <2>1. CASE m = k
    <3>1. u[e[k - 1] + (l + 1)] = NL
      <4>1. l + 1 \in 1..(l + 1) BY <1>5
      <4> QED BY <1>8, <1>11, <4>1
    <3>2. u[e[k]] = NL BY <1>5, <3>1
    <3>3. ASSUME NEW j \in 1..l PROVE u[e[k - 1] + j] = k
      <4>1. j \in 1..(l + 1) BY <1>5
      <4> QED BY <1>8, <1>11, <4>1
    <3> QED BY <1>4, <2>1, <3>2, <3>3
  <2>2. CASE m # k
    <3>1. m \in 1..(k - 1) /\ m \in 1..n /\ m \in 0..(k - 1) /\ k - 1 \in 0..n /\ m \in 0..n /\ m - 1 \in 0..n BY <1>2, <2>2
    <3>2. w[e[m]] = NL /\ \A j \in 1..Lines[m] : w[e[m - 1] + j] = m BY <3>1 DEF Laid
    <3>3. e[m] <= e[k - 1]
      <4>1. CASE m = k - 1 BY <1>5, <4>1
      <4>2. CASE m # k - 1 BY <1>1, <3>1, <4>2, EndsGrow
      <4> QED BY <4>1, <4>2, SMTT(30)
    <3>4. e[m] = e[m - 1] + Lines[m] + 1 /\ e[m - 1] \in Nat /\ Lines[m] \in Nat BY <1>2, <1>3, <3>1
    <3>5. e[m] \in 1..Len(w)
      <4>1. PICK a, b, c, d : a = e[m - 1] /\ b = Lines[m] /\ c = e[k - 1] /\ d = e[m] OBVIOUS
      <4>2. a \in Nat /\ b \in Nat /\ d = a + b + 1 /\ d <= c /\ Len(w) = c BY <1>9, <3>3, <3>4, <4>1
      <4>3. c \in Nat BY <1>5, <4>1
      <4>4. d \in 1..c BY <4>2, <4>3
      <4> QED BY <4>1, <4>2, <4>4
    <3>6. ASSUME NEW j \in 1..Lines[m] PROVE u[e[m - 1] + j] = m
      <4>1. PICK i, a, b, c : i = e[m - 1] + j /\ a = e[m - 1] /\ b = Lines[m] /\ c = e[k - 1] OBVIOUS
      <4>2. a \in Nat /\ b \in Nat /\ c \in Nat /\ a + b + 1 <= c /\ Len(w) = c /\ j \in 1..b BY <1>5, <1>9, <3>3, <3>4, <4>1
      <4>3. i \in 1..Len(w) BY <4>1, <4>2, SMTT(30)
      <4> QED BY <1>11, <3>2, <4>1, <4>3
    <3> QED BY <1>11, <3>2, <3>5, <3>6
  <2> QED BY <2>1, <2>2
<1> QED BY <1>6, <1>10, <1>11, <1>12 DEF Laid

LEMMA WrittenIsLaid == ASSUME NEW e, LineEnds(e) PROVE Laid(Written, Len(Lines), e)
<1>1. PICK n : n = Len(Lines) OBVIOUS
<1>2. n \in Nat /\ \A i \in 1..n : Lines[i] \in Nat BY <1>1, TailerAssumption
<1>3. e \in [0..n -> Nat] /\ e[0] = 0 BY <1>1 DEF LineEnds
<1>4. PICK t : t = Text OBVIOUS
<1>5. Len(t) = n /\ DOMAIN t = 1..n BY <1>1, <1>2, <1>4 DEF Text
<1>6. Laid(<<>>, 0, e) BY <1>3 DEF Laid
<1>7. CASE n = 0
  <2>1. t = <<>> BY <1>5, <1>7
  <2>2. Written = <<>> BY <1>4, <1>5, <1>7, <2>1 DEF Written, FlattenSeq
  <2> QED BY <1>1, <1>6, <1>7, <2>2
<1>8. CASE n # 0
  <2>1. \A k \in 1..n : t[k] \in Seq(Nat)
    <3>1. ASSUME NEW k \in 1..n PROVE t[k] \in Seq(Nat)
      <4>1. PICK l : l = Lines[k] OBVIOUS
      <4>2. t[k] = [j \in 1..(l + 1) |-> IF j <= l THEN k ELSE NL] BY <1>1, <1>4, <4>1 DEF Text
      <4>3. t[k] \in [1..(l + 1) -> Nat] BY <1>2, <4>2 DEF NL
      <4>4. l + 1 \in Nat BY <1>2, <4>1
      <4> QED BY <4>3, <4>4
    <3> QED BY <3>1
  <2>2. PICK g : g = [p \in (1..n) \X Seq(Nat) |-> p[2] \o t[p[1]]] OBVIOUS
  <2>3. g \in [(1..n) \X Seq(Nat) -> Seq(Nat)] BY <2>1, <2>2
  <2>4. PICK h \in [0..n -> Seq(Nat)] : h[0] = <<>> /\ \A k \in 1..n : h[k] = g[<<k, h[k - 1]>>]
    <3>1. PICK Y : Y = Seq(Nat) OBVIOUS
    <3>2. g \in [(1..n) \X Y -> Y] /\ <<>> \in Y BY <2>3, <3>1
    <3>3. \E f \in [0..n -> Y] : Steps(f, n, <<>>, g) BY <1>2, <3>2, StepByStep
    <3> QED BY <3>1, <3>3 DEF Steps
  <2>5. \A k \in 1..n : h[k] = h[k - 1] \o t[k]
    <3>1. ASSUME NEW k \in 1..n PROVE h[k] = h[k - 1] \o t[k]
      <4>1. k - 1 \in 0..n BY <1>2
      <4>2. <<k, h[k - 1]>> \in (1..n) \X Seq(Nat) BY <2>4, <4>1
      <4> QED BY <2>2, <2>4, <4>2
    <3> QED BY <3>1
  <2>6. PICK d : d = [i \in 1..n |-> h[i]] OBVIOUS
  <2>7. d = [i \in 1..n |-> IF i = 1 THEN t[i] ELSE d[i - 1] \o t[i]]
    <3>1. ASSUME NEW i \in 1..n PROVE d[i] = IF i = 1 THEN t[i] ELSE d[i - 1] \o t[i]
      <4>1. d[i] = h[i - 1] \o t[i] BY <2>5, <2>6
      <4>2. CASE i = 1
        <5>1. h[i - 1] = <<>> BY <2>4, <4>2
        <5>2. t[i] \in Seq(Nat) BY <2>1
        <5> QED BY <4>1, <4>2, <5>1, <5>2
      <4>3. CASE i # 1
        <5>1. i - 1 \in 1..n BY <1>2, <4>3
        <5> QED BY <2>6, <4>1, <4>3, <5>1
      <4> QED BY <4>2, <4>3
    <3> QED BY <2>6, <3>1
  <2> DEFINE fl == CHOOSE f : f = [i \in 1..Len(t) |-> IF i = 1 THEN t[i] ELSE f[i - 1] \o t[i]]
  <2>8. fl = [i \in 1..Len(t) |-> IF i = 1 THEN t[i] ELSE fl[i - 1] \o t[i]] BY <1>5, <2>7
  <2>9. Written = fl[Len(t)] BY <1>4, <1>5, <1>8 DEF Written, FlattenSeq
  <2> HIDE DEF fl
  <2>10. \A i \in 1..n : fl[i] = IF i = 1 THEN t[i] ELSE fl[i - 1] \o t[i] BY <1>5, <2>8
  <2>11. PICK A : A = {k \in 0..n : k = 0 \/ Laid(fl[k], k, e)} OBVIOUS
  <2>12. 0 \in A BY <1>2, <2>11
  <2>13. ASSUME NEW k \in 1..n, k - 1 \in A PROVE k \in A
    <3>1. k \in 0..n /\ k \in 1..Len(Lines) BY <1>1
    <3>2. CASE k = 1
      <4>1. fl[k] = <<>> \o t[k]
        <5>1. t[k] \in Seq(Nat) BY <2>1
        <5> QED BY <2>10, <3>2, <5>1
      <4>2. Laid(<<>>, k - 1, e) BY <1>6, <3>2
      <4>3. Laid(fl[k], k, e) BY <1>4, <3>1, <4>1, <4>2, OneMoreLine
      <4> QED BY <2>11, <3>1, <4>3
    <3>3. CASE k # 1
      <4>1. fl[k] = fl[k - 1] \o t[k] BY <2>10, <3>3
      <4>2. Laid(fl[k - 1], k - 1, e) BY <2>11, <2>13, <3>3
      <4>3. Laid(fl[k], k, e) BY <1>4, <3>1, <4>1, <4>2, OneMoreLine
      <4> QED BY <2>11, <3>1, <4>3
    <3> QED BY <3>2, <3>3
  <2>14. n \in A /\ n \in 0..n
    <3>1. 0..n \subseteq A BY <1>2, <2>12, <2>13, AllReached
    <3> QED BY <1>2, <3>1
  <2> QED BY <1>1, <1>5, <1>8, <2>9, <2>11, <2>14
<1> QED BY <1>7, <1>8

(* After p units, k lines are complete. *)
InLine(p, k, e) == k \in 0..Len(Lines) /\ e[k] <= p /\ (k < Len(Lines) => p < e[k + 1])

LEMMA EndsAre ==
  ASSUME NEW e, LineEnds(e)
  PROVE  /\ Len(Lines) \in Nat /\ e[0] = 0
         /\ \A k \in 0..Len(Lines) : e[k] \in Nat
         /\ \A k \in 1..Len(Lines) : e[k] = e[k - 1] + Lines[k] + 1 /\ Lines[k] \in Nat
<1>1. Lines \in Seq(Nat) BY TailerAssumption
<1>2. Len(Lines) \in Nat /\ \A k \in 1..Len(Lines) : Lines[k] \in Nat BY <1>1
<1>3. e \in [0..Len(Lines) -> Nat] /\ e[0] = 0 /\ \A k \in 1..Len(Lines) : e[k] = e[k - 1] + Lines[k] + 1 BY DEF LineEnds
<1>4. \A k \in 0..Len(Lines) : e[k] \in Nat BY <1>3
<1> QED BY <1>2, <1>3, <1>4

LEMMA EndsOrdered ==
  ASSUME NEW e, LineEnds(e), NEW k \in 0..Len(Lines), NEW m \in 0..Len(Lines), m <= k
  PROVE  e[m] <= e[k]
<1>1. Len(Lines) \in Nat /\ e[k] \in Nat BY EndsAre
<1>2. CASE m = k BY <1>1, <1>2
<1>3. CASE m # k
  <2>1. m \in 0..k BY <1>1
  <2>2. e[m] < e[k] /\ e[m] \in Nat BY <1>3, <2>1, EndsGrow
  <2> QED BY <1>1, <2>2
<1> QED BY <1>2, <1>3

LEMMA SomeLine ==
  ASSUME NEW e, LineEnds(e), NEW p \in Nat
  PROVE  \E k : InLine(p, k, e)
<1>1. PICK n : n = Len(Lines) OBVIOUS
<1>2. n \in Nat /\ e[0] = 0 /\ \A k \in 0..n : e[k] \in Nat BY <1>1, EndsAre
<1>3. PICK S : S = {k \in 1..n : p < e[k]} OBVIOUS
<1>4. CASE S = {}
  <2>1. n = 0 \/ (n \in 1..n /\ ~(p < e[n])) BY <1>2, <1>3, <1>4
  <2>2. e[n] <= p /\ n \in 0..n BY <1>2, <2>1
  <2> QED BY <1>1, <1>2, <2>2 DEF InLine
<1>5. CASE S # {}
  <2>1. S \subseteq Nat BY <1>3
  <2>2. PICK k \in S : \A j \in S : k <= j BY <1>5, <2>1, HasLeast
  <2>3. k \in 1..n /\ p < e[k] /\ k - 1 \in 0..n /\ (k - 1) + 1 = k BY <1>2, <1>3
  <2>4. e[k - 1] <= p
    <3>1. CASE k = 1 BY <1>2, <3>1
    <3>2. CASE k # 1
      <4>1. k - 1 \in 1..n /\ ~(k <= k - 1) BY <2>3, <3>2
      <4>2. k - 1 \notin S BY <2>2, <4>1
      <4>3. ~(p < e[k - 1]) /\ e[k - 1] \in Nat BY <1>2, <1>3, <2>3, <4>1, <4>2
      <4> QED BY <4>3
    <3> QED BY <3>1, <3>2
  <2> QED BY <1>1, <2>3, <2>4 DEF InLine
<1> QED BY <1>4, <1>5

LEMMA NextUnit ==
  ASSUME NEW e, LineEnds(e), NEW p \in Nat, NEW k, InLine(p, k, e), p < Len(Written)
  PROVE  /\ k < Len(Lines) /\ k + 1 \in 1..Len(Lines) /\ Lines[k + 1] \in Nat /\ e[k] \in Nat /\ e[k + 1] = e[k] + Lines[k + 1] + 1
         /\ p + 1 = e[k + 1] => Written[p + 1] = NL /\ InLine(p + 1, k + 1, e) /\ Lines[k + 1] = p - e[k]
         /\ p + 1 # e[k + 1] => Written[p + 1] = k + 1 /\ InLine(p + 1, k, e) /\ p + 1 < e[k + 1]
<1>1. PICK n : n = Len(Lines) OBVIOUS
<1>2. n \in Nat /\ e[0] = 0 /\ (\A i \in 0..n : e[i] \in Nat) /\ \A i \in 1..n : e[i] = e[i - 1] + Lines[i] + 1 /\ Lines[i] \in Nat BY <1>1, EndsAre
<1>3. PICK w : w = Written OBVIOUS
<1>4. Laid(w, n, e) BY <1>1, <1>3, WrittenIsLaid
<1>5. Len(w) = e[n] /\ \A m \in 1..n : w[e[m]] = NL /\ \A j \in 1..Lines[m] : w[e[m - 1] + j] = m BY <1>4 DEF Laid
<1>6. k \in 0..n /\ e[k] <= p /\ (k < n => p < e[k + 1]) BY <1>1 DEF InLine
<1>7. k < n
  <2>1. k # n BY <1>2, <1>3, <1>5, <1>6
  <2> QED BY <1>2, <1>6, <2>1
<1>8. k + 1 \in 1..n /\ (k + 1) - 1 = k /\ k + 1 \in 0..n BY <1>2, <1>6, <1>7
<1>9. PICK l, a, b : l = Lines[k + 1] /\ a = e[k] /\ b = e[k + 1] OBVIOUS
<1>10. l \in Nat /\ a \in Nat /\ b = a + l + 1 /\ a <= p /\ p < b
  <2>1. e[k + 1] = e[(k + 1) - 1] + Lines[k + 1] + 1 /\ Lines[k + 1] \in Nat BY <1>2, <1>8
  <2> QED BY <1>2, <1>6, <1>7, <1>8, <1>9, <2>1
<1>11. CASE p + 1 = b
  <2>1. w[p + 1] = NL BY <1>5, <1>8, <1>9, <1>11
  <2>2. k + 1 < n => b < e[(k + 1) + 1]
    <3>1. SUFFICES ASSUME k + 1 < n PROVE b < e[(k + 1) + 1] OBVIOUS
    <3>2. (k + 1) + 1 \in 0..n /\ k + 1 \in 0..((k + 1) + 1) /\ k + 1 # (k + 1) + 1 BY <1>2, <1>8, <3>1
    <3> QED BY <1>1, <1>9, <3>2, EndsGrow
  <2>3. InLine(p + 1, k + 1, e) BY <1>1, <1>8, <1>9, <1>10, <1>11, <2>2 DEF InLine
  <2>4. l = p - a BY <1>10, <1>11
  <2> QED BY <1>1, <1>3, <1>7, <1>8, <1>9, <1>10, <1>11, <2>1, <2>3, <2>4
<1>12. CASE p + 1 # b
  <2>1. PICK j : j = p + 1 - a OBVIOUS
  <2>2. j \in 1..l /\ a + j = p + 1 /\ p + 1 < b BY <1>10, <1>12, <2>1
  <2>3. w[p + 1] = k + 1 BY <1>5, <1>8, <1>9, <2>2
  <2>4. InLine(p + 1, k, e) BY <1>1, <1>6, <1>9, <1>10, <2>2 DEF InLine
  <2> QED BY <1>1, <1>3, <1>7, <1>8, <1>9, <1>10, <1>12, <2>2, <2>3, <2>4
<1> QED BY <1>11, <1>12

(* EndsWithin, in terms of where lines end. *)
LEMMA EndsWithinIs ==
  ASSUME NEW e, LineEnds(e), NEW m \in 1..Len(Lines), NEW p \in 0..Len(file), Len(file) \in Nat, Len(file) <= Len(Written),
         \A i \in 1..Len(file) : file[i] = Written[i]
  PROVE  EndsWithin(m, p) <=> 1 <= Lines[m] /\ e[m] <= p
<1>1. PICK n : n = Len(Lines) OBVIOUS
<1>2. n \in Nat /\ e[0] = 0 /\ (\A i \in 0..n : e[i] \in Nat) /\ \A i \in 1..n : e[i] = e[i - 1] + Lines[i] + 1 /\ Lines[i] \in Nat BY <1>1, EndsAre
<1>3. PICK w : w = Written OBVIOUS
<1>4. Laid(w, n, e) BY <1>1, <1>3, WrittenIsLaid
<1>5. Len(w) = e[n] /\ Len(w) \in Nat /\ \A i \in 1..n : w[e[i]] = NL /\ \A j \in 1..Lines[i] : w[e[i - 1] + j] = i BY <1>2, <1>4 DEF Laid
<1>6. m \in 1..n /\ m - 1 \in 0..n /\ m \in 0..n BY <1>1, <1>2
<1>7. ASSUME 1 <= Lines[m], e[m] <= p PROVE EndsWithin(m, p)
  <2>1. PICK i, l, a : i = e[m] /\ l = Lines[m] /\ a = e[m - 1] OBVIOUS
  <2>2. i = a + l + 1 /\ l \in Nat /\ 1 <= l /\ a \in Nat /\ i <= p BY <1>2, <1>6, <1>7, <2>1
  <2>3. i \in 1..p /\ i <= Len(file) /\ i > 1 /\ i - 1 = a + l /\ l \in 1..l /\ i \in 1..Len(file) /\ i - 1 \in 1..Len(file) BY <2>2
  <2>4. w[i] = NL /\ w[i - 1] = m BY <1>5, <1>6, <2>1, <2>3
  <2> QED BY <1>3, <2>3, <2>4 DEF EndsWithin
<1>8. ASSUME EndsWithin(m, p) PROVE 1 <= Lines[m] /\ e[m] <= p
  <2>1. PICK i \in 1..p : i <= Len(file) /\ file[i] = NL /\ i > 1 /\ file[i - 1] = m BY <1>8 DEF EndsWithin
  <2>2. i \in 1..Len(file) /\ i - 1 \in 1..Len(file) /\ i \in Nat /\ i >= 2 BY <2>1
  <2>3. w[i] = NL /\ w[i - 1] = m /\ m # NL
    <3>1. w[i] = NL /\ w[i - 1] = m BY <1>3, <2>1, <2>2
    <3>2. m # NL BY <1>6 DEF NL
    <3> QED BY <3>1, <3>2
  <2>4. PICK q : q = i - 2 OBVIOUS
  <2>5. q \in Nat /\ q + 1 \in Nat /\ q + 1 = i - 1 /\ (q + 1) + 1 = i /\ q < Len(w) /\ q + 1 < Len(w) BY <1>3, <1>5, <2>2, <2>4
  <2>6. PICK k : InLine(q, k, e) BY <2>5, SomeLine
  <2>7. w[q + 1] = k + 1 /\ InLine(q + 1, k, e) /\ q + 1 < e[k + 1] /\ e[k] \in Nat /\ k + 1 \in 1..n
    <3>1. q + 1 = e[k + 1] => w[q + 1] = NL BY <1>3, <2>5, <2>6, NextUnit
    <3>2. q + 1 # e[k + 1] BY <2>3, <2>5, <3>1
    <3> QED BY <1>1, <1>3, <2>5, <2>6, <3>2, NextUnit
  <2>8. m = k + 1 BY <2>3, <2>5, <2>7
  <2>9. i = e[k + 1] /\ Lines[k + 1] = (q + 1) - e[k]
    <3>1. (q + 1) + 1 # e[k + 1] => w[(q + 1) + 1] = k + 1 BY <1>3, <2>5, <2>7, NextUnit
    <3>2. (q + 1) + 1 = e[k + 1] BY <2>3, <2>5, <2>8, <3>1
    <3>3. Lines[k + 1] = (q + 1) - e[k] BY <1>3, <2>5, <2>7, <3>2, NextUnit
    <3> QED BY <2>5, <3>2, <3>3
  <2>10. e[k] <= q BY <2>6 DEF InLine
  <2>11. 1 <= (q + 1) - e[k] BY <2>5, <2>7, <2>10
  <2> QED BY <2>2, <2>8, <2>9, <2>11
<1> QED BY <1>7, <1>8

(* The lines that should be handed over of the first p units, in s. *)
Fits(m) == m \notin Bad /\ 1 <= Lines[m]
Delivered(s, p, e) ==
  /\ s \in Seq(1..Len(Lines))
  /\ \A i, j \in DOMAIN s : i < j => s[i] < s[j]
  /\ \A i \in DOMAIN s : Fits(s[i]) /\ Lines[s[i]] <= MaxLine + Chunk /\ e[s[i]] <= p
  /\ \A m \in 1..Len(Lines) : Fits(m) /\ Lines[m] <= MaxLine /\ e[m] <= p => \E i \in DOMAIN s : s[i] = m

(* Only one line can end with the next unit. *)
LEMMA EndsNext ==
  ASSUME NEW e, LineEnds(e), NEW p \in Nat, NEW k, InLine(p, k, e), p < Len(Written), NEW m \in 1..Len(Lines), e[m] <= p + 1
  PROVE  e[m] <= p \/ (m = k + 1 /\ e[k + 1] = p + 1)
<1>1. k + 1 \in 1..Len(Lines) /\ e[k] \in Nat /\ e[k] <= p /\ k \in 0..Len(Lines) /\ p < e[k + 1]
  <2>1. k < Len(Lines) /\ k + 1 \in 1..Len(Lines) /\ e[k] \in Nat BY NextUnit
  <2> QED BY <2>1 DEF InLine
<1>2. Len(Lines) \in Nat /\ m \in 0..Len(Lines) /\ k + 1 \in 0..Len(Lines) /\ \A i \in 0..Len(Lines) : e[i] \in Nat BY <1>1, EndsAre
<1>3. CASE m <= k
  <2>1. e[m] <= e[k] BY <1>1, <1>2, <1>3, EndsOrdered
  <2> QED BY <1>1, <1>2, <2>1
<1>4. CASE m > k
  <2>1. k + 1 <= m BY <1>1, <1>2, <1>4
  <2>2. e[k + 1] <= e[m] BY <1>2, <2>1, EndsOrdered
  <2>3. e[k + 1] = p + 1 /\ e[m] = p + 1 BY <1>1, <1>2, <2>2
  <2>4. m = k + 1
    <3>1. SUFFICES ASSUME m # k + 1 PROVE FALSE OBVIOUS
    <3>2. k + 1 \in 0..m BY <1>1, <1>2, <2>1
    <3>3. e[k + 1] < e[m] BY <1>2, <3>1, <3>2, EndsGrow
    <3> QED BY <2>3, <3>3
  <2> QED BY <2>3, <2>4
<1> QED BY <1>1, <1>2, <1>3, <1>4

LEMMA NothingNew ==
  ASSUME NEW e, LineEnds(e), NEW p \in Nat, NEW k, InLine(p, k, e), p < Len(Written), NEW s, Delivered(s, p, e),
         p + 1 = e[k + 1] => ~Fits(k + 1) \/ Lines[k + 1] > MaxLine
  PROVE  Delivered(s, p + 1, e)
<1>1. s \in Seq(1..Len(Lines)) /\ \A i \in DOMAIN s : s[i] \in 1..Len(Lines) BY DEF Delivered
<1>2. \A m \in 0..Len(Lines) : e[m] \in Nat BY EndsAre
<1>3. ASSUME NEW i \in DOMAIN s PROVE e[s[i]] <= p + 1
  <2>1. e[s[i]] <= p /\ s[i] \in 0..Len(Lines) BY <1>1 DEF Delivered
  <2> QED BY <1>2, <2>1
<1>4. ASSUME NEW m \in 1..Len(Lines), Fits(m), Lines[m] <= MaxLine, e[m] <= p + 1 PROVE \E i \in DOMAIN s : s[i] = m
  <2>1. Lines[m] \in Nat /\ MaxLine \in Nat BY EndsAre, TailerAssumption
  <2>2. ~(m = k + 1 /\ e[k + 1] = p + 1) BY <1>4, <2>1
  <2>3. e[m] <= p BY <1>4, <2>2, EndsNext
  <2> QED BY <1>4, <2>3 DEF Delivered
<1> QED BY <1>3, <1>4 DEF Delivered

LEMMA OneMore ==
  ASSUME NEW e, LineEnds(e), NEW p \in Nat, NEW k, InLine(p, k, e), p < Len(Written), NEW s, Delivered(s, p, e),
         p + 1 = e[k + 1], Fits(k + 1), Lines[k + 1] <= MaxLine + Chunk
  PROVE  Delivered(Append(s, k + 1), p + 1, e)
<1>1. s \in Seq(1..Len(Lines)) BY DEF Delivered
<1>2. Len(s) \in Nat /\ DOMAIN s = 1..Len(s) /\ \A i \in 1..Len(s) : s[i] \in 1..Len(Lines) BY <1>1
<1>3. k + 1 \in 1..Len(Lines) BY NextUnit
<1>4. PICK t : t = Append(s, k + 1) OBVIOUS
<1>5. /\ t \in Seq(1..Len(Lines)) /\ DOMAIN t = 1..(Len(s) + 1) /\ t[Len(s) + 1] = k + 1
      /\ \A i \in 1..Len(s) : t[i] = s[i]
  BY <1>1, <1>2, <1>3, <1>4
<1>6. Len(Lines) \in Nat /\ \A m \in 0..Len(Lines) : e[m] \in Nat BY EndsAre
<1>7. ASSUME NEW i \in 1..Len(s) PROVE s[i] < k + 1
  <2>1. e[s[i]] <= p /\ s[i] \in 0..Len(Lines) BY <1>2 DEF Delivered
  <2>2. SUFFICES ASSUME k + 1 <= s[i] PROVE FALSE BY <1>3, <2>1
  <2>3. e[k + 1] <= e[s[i]] BY <1>3, <2>1, <2>2, EndsOrdered
  <2>4. e[s[i]] \in Nat BY <1>6, <2>1
  <2> QED BY <2>1, <2>3, <2>4
<1>8. ASSUME NEW i \in DOMAIN t, NEW j \in DOMAIN t, i < j PROVE t[i] < t[j]
  <2>1. i \in 1..Len(s) /\ t[i] = s[i] BY <1>2, <1>5, <1>8
  <2>2. CASE j = Len(s) + 1 BY <1>5, <1>7, <2>1, <2>2
  <2>3. CASE j # Len(s) + 1
    <3>1. j \in 1..Len(s) /\ t[j] = s[j] BY <1>2, <1>5, <2>3
    <3> QED BY <1>2, <1>8, <2>1, <3>1 DEF Delivered
  <2> QED BY <2>2, <2>3
<1>9. ASSUME NEW i \in DOMAIN t PROVE Fits(t[i]) /\ Lines[t[i]] <= MaxLine + Chunk /\ e[t[i]] <= p + 1
  <2>1. CASE i = Len(s) + 1
    <3>1. t[i] = k + 1 BY <1>5, <2>1
    <3>2. e[t[i]] <= p + 1 BY <3>1
    <3> QED BY <3>1, <3>2
  <2>2. CASE i # Len(s) + 1
    <3>1. i \in 1..Len(s) /\ t[i] = s[i] /\ s[i] \in 0..Len(Lines) BY <1>2, <1>5, <2>2
    <3>2. Fits(s[i]) /\ Lines[s[i]] <= MaxLine + Chunk /\ e[s[i]] <= p BY <1>2, <3>1 DEF Delivered
    <3>3. e[s[i]] \in Nat BY <1>6, <3>1
    <3>4. e[s[i]] <= p + 1 BY <3>2, <3>3
    <3> QED BY <3>1, <3>2, <3>4
  <2> QED BY <2>1, <2>2
<1>10. ASSUME NEW m \in 1..Len(Lines), Fits(m), Lines[m] <= MaxLine, e[m] <= p + 1 PROVE \E i \in DOMAIN t : t[i] = m
  <2>1. CASE m = k + 1
    <3>1. Len(s) + 1 \in DOMAIN t BY <1>2, <1>5
    <3> QED BY <1>5, <2>1, <3>1
  <2>2. CASE m # k + 1
    <3>1. e[m] <= p BY <1>10, <2>2, EndsNext
    <3>2. PICK i \in DOMAIN s : s[i] = m BY <1>10, <3>1 DEF Delivered
    <3>3. i \in DOMAIN t /\ t[i] = m BY <1>2, <1>5, <3>2
    <3> QED BY <3>3
  <2> QED BY <2>1, <2>2
<1> QED BY <1>4, <1>5, <1>8, <1>9, <1>10 DEF Delivered

(* What is kept of the line that p is in. *)
Accs == [line : Seq(Nat), rest : Seq(Nat), skipping : BOOLEAN, out : Seq(Nat)]
Within1(s, v) == \A i \in DOMAIN s : s[i] = v
AccOK(acc, g, p, c, e) ==
  /\ acc \in Accs /\ Len(acc.line) <= MaxLine /\ Len(acc.rest) <= c
  /\ \E k : /\ InLine(p, k, e)
            /\ acc.skipping => p - e[k] > MaxLine
            /\ ~acc.skipping => /\ Len(acc.line) + Len(acc.rest) = p - e[k]
                                /\ Within1(acc.line, k + 1) /\ Within1(acc.rest, k + 1)
  /\ Delivered(g \o acc.out, p, e)

LEMMA AccFields ==
  ASSUME NEW acc \in Accs
  PROVE  /\ acc.line \in Seq(Nat) /\ acc.rest \in Seq(Nat) /\ acc.skipping \in BOOLEAN /\ acc.out \in Seq(Nat)
         /\ Len(acc.line) \in Nat /\ Len(acc.rest) \in Nat
         /\ acc.line \o acc.rest \in Seq(Nat) /\ Len(acc.line \o acc.rest) = Len(acc.line) + Len(acc.rest)
         /\ Decodable(acc.line \o acc.rest) => Head(acc.line \o acc.rest) \in Nat
<1>1. acc.line \in Seq(Nat) /\ acc.rest \in Seq(Nat) /\ acc.skipping \in BOOLEAN /\ acc.out \in Seq(Nat) BY DEF Accs
<1>2. PICK t : t = acc.line \o acc.rest OBVIOUS
<1>3. t \in Seq(Nat) /\ Len(t) = Len(acc.line) + Len(acc.rest) BY <1>1, <1>2
<1>4. t # <<>> => Head(t) \in Nat
  <2>1. t \in Seq(Nat) BY <1>3
  <2> QED BY <2>1
<1>5. Decodable(t) => Head(t) \in Nat BY <1>4 DEF Decodable
<1>6. Len(acc.line) \in Nat /\ Len(acc.rest) \in Nat BY <1>1
<1> QED BY <1>1, <1>2, <1>3, <1>5, <1>6

LEMMA UnitKeepsType == ASSUME NEW acc \in Accs, NEW u \in Nat PROVE ConsumeUnit(acc, u) \in Accs
<1>1. PICK t : t = acc.line \o acc.rest OBVIOUS
<1>2. /\ acc.line \in Seq(Nat) /\ acc.rest \in Seq(Nat) /\ acc.skipping \in BOOLEAN /\ acc.out \in Seq(Nat)
      /\ Decodable(t) => Head(t) \in Nat
  BY <1>1, AccFields
<1>3. CASE u # NL
  <2>1. Append(acc.rest, u) \in Seq(Nat) BY <1>2
  <2> QED BY <1>3, <2>1 DEF ConsumeUnit, Accs
<1>4. CASE u = NL /\ acc.skipping
  <2>1. ConsumeUnit(acc, u) = [acc EXCEPT !.skipping = FALSE, !.line = <<>>, !.rest = <<>>] BY <1>4 DEF ConsumeUnit
  <2>2. <<>> \in Seq(Nat) OBVIOUS
  <2> QED BY <2>1, <2>2 DEF Accs
<1>5. CASE u = NL /\ ~acc.skipping
  <2>1. Decodable(t) => Append(acc.out, Head(t)) \in Seq(Nat) BY <1>2
  <2>2. PICK o : o = IF Decodable(t) THEN Append(acc.out, Head(t)) ELSE acc.out OBVIOUS
  <2>3. o \in Seq(Nat) BY <1>2, <2>1, <2>2
  <2>4. ConsumeUnit(acc, u) = [acc EXCEPT !.out = o, !.line = <<>>, !.rest = <<>>] BY <1>1, <1>5, <2>2 DEF ConsumeUnit
  <2>5. <<>> \in Seq(Nat) OBVIOUS
  <2> QED BY <2>3, <2>4, <2>5 DEF Accs
<1> QED BY <1>3, <1>4, <1>5

LEMMA OneAtTheEnd ==
  ASSUME NEW s \in Seq(Nat), NEW t \in Seq(Nat), NEW x \in Nat
  PROVE  s \o Append(t, x) = Append(s \o t, x)
<1>1. PICK u : u = Append(t, x) OBVIOUS
<1>2. u \in Seq(Nat) /\ Len(u) = Len(t) + 1 /\ u[Len(t) + 1] = x /\ (\A i \in 1..Len(t) : u[i] = t[i]) BY <1>1
<1>3. PICK a, b : a = s \o u /\ b = s \o t OBVIOUS
<1>4. a \in Seq(Nat) /\ b \in Seq(Nat) /\ Len(a) = Len(s) + Len(t) + 1 /\ Len(b) = Len(s) + Len(t) /\ Len(s) \in Nat /\ Len(t) \in Nat
  <2>1. Len(s) \in Nat /\ Len(t) \in Nat /\ u \in Seq(Nat) BY <1>2
  <2>2. a \in Seq(Nat) /\ Len(a) = Len(s) + Len(u) BY <1>3, <2>1
  <2>3. b \in Seq(Nat) /\ Len(b) = Len(s) + Len(t) BY <1>3
  <2> QED BY <1>2, <2>1, <2>2, <2>3
<1>5. PICK d : d = Append(b, x) OBVIOUS
<1>6. d \in Seq(Nat) /\ Len(d) = Len(b) + 1 /\ d[Len(b) + 1] = x /\ (\A i \in 1..Len(b) : d[i] = b[i])
  <2>1. b \in Seq(Nat) BY <1>4
  <2> QED BY <1>5, <2>1
<1>7. ASSUME NEW i \in 1..Len(a) PROVE a[i] = d[i]
  <2>1. CASE i <= Len(s)
    <3>1. a[i] = s[i] /\ b[i] = s[i] /\ i \in 1..Len(b) BY <1>2, <1>3, <1>4, <2>1
    <3> QED BY <1>6, <3>1
  <2>2. CASE i > Len(s) /\ i <= Len(s) + Len(t)
    <3>1. i - Len(s) \in 1..Len(t) /\ i \in 1..Len(b) BY <1>4, <2>2
    <3>2. a[i] = u[i - Len(s)] /\ b[i] = t[i - Len(s)] BY <1>2, <1>3, <1>4, <2>2
    <3> QED BY <1>2, <1>6, <3>1, <3>2
  <2>3. CASE i = Len(s) + Len(t) + 1
    <3>1. i - Len(s) = Len(t) + 1 /\ i = Len(b) + 1 BY <1>4, <2>3
    <3>2. a[i] = u[i - Len(s)] BY <1>2, <1>3, <1>4, <2>3
    <3> QED BY <1>2, <1>6, <3>1, <3>2
  <2>4. i \in 1..(Len(s) + Len(t) + 1) BY <1>4
  <2>5. i <= Len(s) \/ (i > Len(s) /\ i <= Len(s) + Len(t)) \/ i = Len(s) + Len(t) + 1
    <3>1. PICK y, z : y = Len(s) /\ z = Len(t) OBVIOUS
    <3>2. y \in Nat /\ z \in Nat /\ i \in 1..(y + z + 1) BY <1>4, <2>4, <3>1
    <3>3. i <= y \/ (i > y /\ i <= y + z) \/ i = y + z + 1 BY <3>2
    <3> QED BY <3>1, <3>3
  <2> QED BY <2>1, <2>2, <2>3, <2>5
<1>8. a \in [1..Len(a) -> Nat] /\ d \in [1..Len(a) -> Nat]
  <2>1. Len(d) = Len(a) BY <1>4, <1>6
  <2>2. a \in [1..Len(a) -> Nat] BY <1>4
  <2>3. d \in [1..Len(d) -> Nat] BY <1>6
  <2> QED BY <2>1, <2>2, <2>3
<1>9. a = d BY <1>7, <1>8
<1> QED BY <1>1, <1>3, <1>5, <1>9

LEMMA UnitStep ==
  ASSUME NEW e, LineEnds(e), NEW p \in Nat, p < Len(Written), NEW c \in Nat, c < Chunk, NEW g \in Seq(Nat), NEW acc, AccOK(acc, g, p, c, e)
  PROVE  AccOK(ConsumeUnit(acc, Written[p + 1]), g, p + 1, c + 1, e)
<1>1. PICK u : u = Written[p + 1] OBVIOUS
<1>2. PICK r : r = ConsumeUnit(acc, u) OBVIOUS
<1>3. acc \in Accs /\ Len(acc.line) <= MaxLine /\ Len(acc.rest) <= c /\ Delivered(g \o acc.out, p, e) BY DEF AccOK
<1>4. PICK k : /\ InLine(p, k, e)
               /\ acc.skipping => p - e[k] > MaxLine
               /\ ~acc.skipping => /\ Len(acc.line) + Len(acc.rest) = p - e[k]
                                   /\ Within1(acc.line, k + 1) /\ Within1(acc.rest, k + 1)
  BY DEF AccOK
<1>5. PICK l : l = Lines[k + 1] OBVIOUS
<1>6. /\ k + 1 \in 1..Len(Lines) /\ l \in Nat /\ e[k] \in Nat /\ e[k + 1] = e[k] + l + 1 /\ k + 1 \in Nat
      /\ p + 1 = e[k + 1] => u = NL /\ InLine(p + 1, k + 1, e) /\ l = p - e[k]
      /\ p + 1 # e[k + 1] => u = k + 1 /\ InLine(p + 1, k, e)
  <2>1. Len(Lines) \in Nat BY EndsAre
  <2> QED BY <1>1, <1>4, <1>5, <2>1, NextUnit
<1>7. MaxLine \in Nat /\ Chunk \in Nat BY TailerAssumption
<1>8. acc.line \in Seq(Nat) /\ acc.rest \in Seq(Nat) /\ acc.skipping \in BOOLEAN /\ acc.out \in Seq(Nat)
      /\ Len(acc.line) \in Nat /\ Len(acc.rest) \in Nat BY <1>3, AccFields
<1>9. u \in Nat BY <1>6 DEF NL
<1>10. r \in Accs BY <1>2, <1>3, <1>9, UnitKeepsType
<1>11. CASE p + 1 # e[k + 1]
  <2>1. u = k + 1 /\ u # NL /\ InLine(p + 1, k, e) BY <1>6, <1>11 DEF NL
  <2>2. r.line = acc.line /\ r.rest = Append(acc.rest, u) /\ r.skipping = acc.skipping /\ r.out = acc.out
    <3>1. r = [acc EXCEPT !.rest = Append(@, u)] BY <1>2, <2>1 DEF ConsumeUnit
    <3> QED BY <1>3, <3>1 DEF Accs
  <2>3. Len(r.rest) = Len(acc.rest) + 1 /\ DOMAIN r.rest = 1..(Len(acc.rest) + 1) BY <1>8, <1>9, <2>2
  <2>4. Within1(acc.rest, k + 1) => Within1(r.rest, k + 1)
    <3>1. SUFFICES ASSUME Within1(acc.rest, k + 1), NEW i \in DOMAIN r.rest PROVE r.rest[i] = k + 1 BY DEF Within1
    <3>2. CASE i \in 1..Len(acc.rest)
      <4>1. r.rest[i] = acc.rest[i] /\ i \in DOMAIN acc.rest BY <1>8, <1>9, <2>2, <3>2
      <4> QED BY <3>1, <4>1 DEF Within1
    <3>3. CASE i = Len(acc.rest) + 1
      <4>1. r.rest[i] = u BY <1>8, <1>9, <2>2, <3>3
      <4> QED BY <2>1, <4>1
    <3> QED BY <1>8, <2>3, <3>2, <3>3
  <2>5. Delivered(g \o r.out, p + 1, e) BY <1>3, <1>4, <1>11, <2>2, NothingNew
  <2>6. acc.skipping => (p + 1) - e[k] > MaxLine BY <1>4, <1>6, <1>7
  <2>7. ~acc.skipping => Len(r.line) + Len(r.rest) = (p + 1) - e[k] /\ Within1(r.line, k + 1) /\ Within1(r.rest, k + 1)
    <3>1. ~acc.skipping => Len(acc.line) + Len(acc.rest) = p - e[k] /\ Within1(acc.line, k + 1) /\ Within1(acc.rest, k + 1) BY <1>4
    <3>2. ~acc.skipping => Len(r.line) + Len(r.rest) = (p + 1) - e[k]
      <4> SUFFICES ASSUME ~acc.skipping PROVE Len(r.line) + Len(r.rest) = (p + 1) - e[k] OBVIOUS
      <4>1. PICK x, y, a : x = Len(acc.line) /\ y = Len(acc.rest) /\ a = e[k] OBVIOUS
      <4>2. x \in Nat /\ y \in Nat /\ a \in Nat /\ x + y = p - a BY <1>6, <1>8, <3>1, <4>1
      <4>3. x + (y + 1) = (p + 1) - a BY <4>2
      <4>4. Len(r.line) = x /\ Len(r.rest) = y + 1 BY <2>2, <2>3, <4>1
      <4> QED BY <4>1, <4>3, <4>4
    <3> QED BY <2>2, <2>4, <3>1, <3>2
  <2>8. Len(r.line) <= MaxLine /\ Len(r.rest) <= c + 1 BY <1>3, <1>8, <2>2, <2>3
  <2> QED BY <1>1, <1>2, <1>10, <2>1, <2>2, <2>5, <2>6, <2>7, <2>8 DEF AccOK
<1>12. CASE p + 1 = e[k + 1]
  <2>1. u = NL /\ InLine(p + 1, k + 1, e) /\ l = p - e[k] BY <1>6, <1>12
  <2>2. PICK t : t = acc.line \o acc.rest OBVIOUS
  <2>3. /\ r.line = <<>> /\ r.rest = <<>> /\ r.skipping = FALSE
        /\ r.out = IF ~acc.skipping /\ Decodable(t) THEN Append(acc.out, Head(t)) ELSE acc.out
    <3>1. CASE acc.skipping
      <4>1. r = [acc EXCEPT !.skipping = FALSE, !.line = <<>>, !.rest = <<>>] BY <1>2, <2>1, <3>1 DEF ConsumeUnit
      <4> QED BY <1>3, <3>1, <4>1 DEF Accs
    <3>2. CASE ~acc.skipping
      <4>1. PICK o : o = IF Decodable(t) THEN Append(acc.out, Head(t)) ELSE acc.out OBVIOUS
      <4>2. r = [acc EXCEPT !.out = o, !.line = <<>>, !.rest = <<>>] BY <1>2, <2>1, <2>2, <3>2, <4>1 DEF ConsumeUnit
      <4>3. r.line = <<>> /\ r.rest = <<>> /\ r.skipping = acc.skipping /\ r.out = o BY <1>3, <4>2 DEF Accs
      <4> QED BY <1>8, <3>2, <4>1, <4>3
    <3> QED BY <3>1, <3>2
  <2>4. Delivered(g \o r.out, p + 1, e)
    <3>1. CASE acc.skipping
      <4>1. l > MaxLine BY <1>4, <2>1, <3>1
      <4>2. r.out = acc.out BY <2>3, <3>1
      <4> QED BY <1>3, <1>4, <1>5, <4>1, <4>2, NothingNew
    <3>2. CASE ~acc.skipping
      <4>1. t \in Seq(Nat) /\ Len(t) = l
        <5>1. t \in Seq(Nat) /\ Len(t) = Len(acc.line) + Len(acc.rest) BY <1>3, <2>2, AccFields
        <5> QED BY <1>4, <2>1, <3>2, <5>1
      <4>2. Within1(acc.line, k + 1) /\ Within1(acc.rest, k + 1) BY <1>4, <3>2
      <4>3. t # <<>> => 1 <= l /\ Head(t) = k + 1
        <5>1. SUFFICES ASSUME t # <<>> PROVE 1 <= l /\ Head(t) = k + 1 OBVIOUS
        <5>2. 1 <= Len(t) /\ Head(t) = t[1] BY <4>1, <5>1
        <5>3. CASE Len(acc.line) >= 1
          <6>1. PICK a, b : a = acc.line /\ b = acc.rest OBVIOUS
          <6>2. a \in Seq(Nat) /\ b \in Seq(Nat) /\ Len(a) >= 1 /\ t = a \o b BY <1>8, <2>2, <5>3, <6>1
          <6>3. t[1] = a[1] /\ 1 \in DOMAIN a BY <6>2
          <6>4. t[1] = k + 1 BY <4>2, <6>1, <6>3 DEF Within1
          <6> QED BY <4>1, <5>2, <6>4
        <5>4. CASE Len(acc.line) = 0
          <6>1. PICK a, b : a = acc.line /\ b = acc.rest OBVIOUS
          <6>4. a = <<>> /\ b \in Seq(Nat) /\ t = a \o b BY <1>8, <2>2, <5>4, <6>1
          <6>2. t = acc.rest BY <6>1, <6>4
          <6>3. 1 \in DOMAIN acc.rest BY <1>8, <5>2, <6>2
          <6> QED BY <4>1, <4>2, <5>2, <6>2, <6>3 DEF Within1
        <5> QED BY <1>8, <5>3, <5>4
      <4>4. Decodable(t) <=> Fits(k + 1)
        <5>1. t = <<>> => ~(1 <= l) BY <4>1
        <5> QED BY <1>5, <4>3, <5>1 DEF Decodable, Fits
      <4>5. CASE Decodable(t)
        <5>1. Head(t) = k + 1 /\ Fits(k + 1) BY <4>3, <4>4, <4>5 DEF Decodable
        <5>2. r.out = Append(acc.out, k + 1) BY <2>3, <3>2, <4>5, <5>1
        <5>3. g \o r.out = Append(g \o acc.out, k + 1)
          <6>1. PICK o, x : o = acc.out /\ x = k + 1 OBVIOUS
          <6>2. o \in Seq(Nat) /\ x \in Nat BY <1>6, <1>8, <6>1
          <6>3. g \o Append(o, x) = Append(g \o o, x) BY <6>2, OneAtTheEnd
          <6> QED BY <5>2, <6>1, <6>3
        <5>4. Len(acc.line) + Len(acc.rest) = l BY <1>4, <2>1, <3>2
        <5>5. l <= MaxLine + Chunk
          <6>1. PICK x, y : x = Len(acc.line) /\ y = Len(acc.rest) OBVIOUS
          <6>2. x \in Nat /\ y \in Nat /\ x <= MaxLine /\ y <= c /\ x + y = l BY <1>3, <1>8, <5>4, <6>1
          <6> QED BY <1>7, <6>2
        <5> QED BY <1>3, <1>4, <1>5, <1>12, <5>1, <5>3, <5>5, OneMore
      <4>6. CASE ~Decodable(t)
        <5>1. r.out = acc.out BY <2>3, <4>6
        <5> QED BY <1>3, <1>4, <4>4, <4>6, <5>1, NothingNew
      <4> QED BY <4>5, <4>6
    <3> QED BY <3>1, <3>2
  <2>5. Len(r.line) = 0 /\ Len(r.rest) = 0 /\ Within1(r.line, (k + 1) + 1) /\ Within1(r.rest, (k + 1) + 1) BY <2>3 DEF Within1
  <2>6. Len(r.line) + Len(r.rest) = (p + 1) - e[k + 1] BY <1>12, <2>5
  <2>7. Len(r.line) <= MaxLine /\ Len(r.rest) <= c + 1 BY <1>7, <2>5
  <2> QED BY <1>1, <1>2, <1>10, <2>1, <2>3, <2>4, <2>5, <2>6, <2>7 DEF AccOK
<1> QED BY <1>11, <1>12

(* The units of a chunk, one after the other. *)
ReadAll(base, chunk) == FoldLeft(ConsumeUnit, base, chunk)
Units(h, base, chunk, n) == h[0] = base /\ ReadAll(base, chunk) = h[n] /\ \A k \in 1..n : h[k] = ConsumeUnit(h[k - 1], chunk[k])

LEMMA ReadInSteps ==
  ASSUME NEW base \in Accs, NEW chunk \in Seq(Nat), NEW n, n = Len(chunk)
  PROVE  \E h : Units(h, base, chunk, n)
<1> DEFINE It(G) == [t \in SUBSET DOMAIN chunk |-> IF t = {} THEN base ELSE ConsumeUnit(G[t \ {Max(t)}], chunk[Max(t)])]
<1> DEFINE it == CHOOSE G : G = It(G)
<1>1. n \in Nat /\ DOMAIN chunk = 1..n /\ \A k \in 1..n : chunk[k] \in Nat OBVIOUS
<1>2. PICK g : g = [p \in (1..n) \X Accs |-> ConsumeUnit(p[2], chunk[p[1]])] OBVIOUS
<1>3. g \in [(1..n) \X Accs -> Accs]
  <2>1. \A p \in (1..n) \X Accs : ConsumeUnit(p[2], chunk[p[1]]) \in Accs BY <1>1, UnitKeepsType
  <2> QED BY <1>2, <2>1
<1>4. PICK F \in [SUBSET (1..n) -> Accs] : Folded(g, base, F) BY <1>1, <1>3, FoldedExists
<1>5. F = It(F)
  <2>1. ASSUME NEW t \in SUBSET (1..n), t # {} PROVE F[t] = ConsumeUnit(F[t \ {Max(t)}], chunk[Max(t)])
    <3>1. Max(t) \in 1..n BY <1>1, <2>1, GreatestIsIn
    <3>2. t \ {Max(t)} \in SUBSET (1..n) OBVIOUS
    <3>3. <<Max(t), F[t \ {Max(t)}]>> \in (1..n) \X Accs BY <1>4, <3>1, <3>2
    <3>4. F[t] = g[<<Max(t), F[t \ {Max(t)}]>>] BY <1>4, <2>1 DEF Folded
    <3> QED BY <1>2, <3>3, <3>4
  <2>2. F[{}] = base BY <1>4 DEF Folded
  <2>3. DOMAIN F = SUBSET DOMAIN chunk BY <1>1, <1>4
  <2> QED BY <1>1, <1>4, <2>1, <2>2, <2>3
<1>6. it = It(it) BY <1>5
<1>7. ReadAll(base, chunk) = it[DOMAIN chunk] BY DEF ReadAll, FoldLeft, MapThenFoldSet
<1> HIDE DEF it
<1>8. it[{}] = base BY <1>6
<1>9. ASSUME NEW k \in 1..n PROVE it[1..k] = ConsumeUnit(it[1..(k - 1)], chunk[k])
  <2>1. k \in Nat /\ k # 0 /\ 1..k \in SUBSET DOMAIN chunk /\ 1..k # {}
    <3>1. k \in Nat /\ k # 0 /\ k <= n /\ k \in 1..k BY <1>1
    <3>2. 1..k \subseteq 1..n BY <1>1, <3>1
    <3> QED BY <1>1, <3>1, <3>2
  <2>2. Max(1..k) = k /\ (1..k) \ {k} = 1..(k - 1) BY <2>1, OneStepLess
  <2>3. it[1..k] = ConsumeUnit(it[(1..k) \ {Max(1..k)}], chunk[Max(1..k)]) BY <1>6, <2>1
  <2> QED BY <2>2, <2>3
<1>10. PICK h : h = [k \in 0..n |-> it[1..k]] OBVIOUS
<1>11. h[0] = base
  <2>1. 1..0 = {} /\ 0 \in 0..n BY <1>1
  <2> QED BY <1>8, <1>10, <2>1
<1>12. h[n] = it[1..n] BY <1>1, <1>10
<1>13. ASSUME NEW k \in 1..n PROVE h[k] = ConsumeUnit(h[k - 1], chunk[k])
  <2>1. k \in 0..n /\ k - 1 \in 0..n BY <1>1
  <2> QED BY <1>9, <1>10, <2>1
<1>14. Units(h, base, chunk, n) BY <1>1, <1>7, <1>11, <1>12, <1>13 DEF Units
<1> QED BY <1>14


(* What the tailer keeps between two reads, with p units read. *)
TailText(line, skipping, p, e) ==
  /\ line \in Seq(Nat) /\ skipping \in BOOLEAN /\ Len(line) <= MaxLine
  /\ \E k : /\ InLine(p, k, e)
            /\ skipping => p - e[k] > MaxLine
            /\ ~skipping => Len(line) = p - e[k] /\ Within1(line, k + 1)

LEMMA JoinFields ==
  ASSUME NEW a \in Seq(Nat), NEW b \in Seq(Nat), NEW v, Within1(a, v), Within1(b, v)
  PROVE  a \o b \in Seq(Nat) /\ Len(a \o b) = Len(a) + Len(b) /\ Within1(a \o b, v)
<1>1. PICK s : s = a \o b OBVIOUS
<1>2. s \in Seq(Nat) /\ Len(s) = Len(a) + Len(b) /\ Len(a) \in Nat /\ Len(b) \in Nat BY <1>1
<1>3. ASSUME NEW i \in DOMAIN s PROVE s[i] = v
  <2>1. i \in 1..(Len(a) + Len(b)) BY <1>2
  <2>2. CASE i <= Len(a)
    <3>1. s[i] = a[i] /\ i \in DOMAIN a BY <1>1, <1>2, <2>1, <2>2
    <3> QED BY <3>1 DEF Within1
  <2>3. CASE i > Len(a)
    <3>1. s[i] = b[i - Len(a)] /\ i - Len(a) \in DOMAIN b BY <1>1, <1>2, <2>1, <2>3
    <3> QED BY <3>1 DEF Within1
  <2> QED BY <1>2, <2>1, <2>2, <2>3
<1> QED BY <1>1, <1>2, <1>3 DEF Within1

LEMMA ConsumeKeeps ==
  ASSUME NEW e, LineEnds(e), NEW t, NEW p \in Nat, TailText(t.line, t.skipping, p, e),
         NEW g \in Seq(Nat), Delivered(g, p, e),
         NEW n \in Nat, n <= Chunk, p + n <= Len(Written),
         NEW chunk \in Seq(Nat), Len(chunk) = n, \A k \in 1..n : chunk[k] = Written[p + k]
  PROVE  /\ Consume(t, chunk).out \in Seq(Nat) /\ Delivered(g \o Consume(t, chunk).out, p + n, e)
         /\ TailText(Consume(t, chunk).line, Consume(t, chunk).skipping, p + n, e)
<1>1. PICK base : base = [line |-> t.line, rest |-> <<>>, skipping |-> t.skipping, out |-> <<>>] OBVIOUS
<1>2. base \in Accs
  <2>1. t.line \in Seq(Nat) /\ t.skipping \in BOOLEAN BY DEF TailText
  <2>2. <<>> \in Seq(Nat) OBVIOUS
  <2> QED BY <1>1, <2>1, <2>2 DEF Accs
<1>3. base.line = t.line /\ base.rest = <<>> /\ base.skipping = t.skipping /\ base.out = <<>> BY <1>1
<1>4. AccOK(base, g, p, 0, e)
  <2>1. Len(base.line) <= MaxLine /\ Len(base.rest) = 0 BY <1>3 DEF TailText
  <2>2. Within1(base.rest, 0) /\ \A v : Within1(base.rest, v) BY <1>3 DEF Within1
  <2>3. g \o base.out = g BY <1>3
  <2>4. PICK k : InLine(p, k, e) /\ (t.skipping => p - e[k] > MaxLine)
                 /\ (~t.skipping => Len(t.line) = p - e[k] /\ Within1(t.line, k + 1)) BY DEF TailText
  <2>5. Len(base.line) + Len(base.rest) = Len(t.line)
    <3>1. t.line \in Seq(Nat) BY DEF TailText
    <3>2. Len(t.line) \in Nat BY <3>1
    <3> QED BY <1>3, <2>1, <3>2
  <2>6. Len(base.rest) <= 0 BY <2>1
  <2> QED BY <1>2, <1>3, <2>1, <2>2, <2>3, <2>4, <2>5, <2>6 DEF AccOK
<1>5. PICK h : h[0] = base /\ ReadAll(base, chunk) = h[n] /\ \A k \in 1..n : h[k] = ConsumeUnit(h[k - 1], chunk[k])
  <2>1. n = Len(chunk) OBVIOUS
  <2>2. \E f : Units(f, base, chunk, n)
    BY <1>2, <2>1, ReadInSteps
  <2> QED BY <2>2 DEF Units
<1>6. PICK A : A = {k \in 0..n : AccOK(h[k], g, p + k, k, e)} OBVIOUS
<1>7. 0 \in A
  <2>1. 0 \in 0..n /\ p + 0 = p OBVIOUS
  <2> QED BY <1>4, <1>5, <1>6, <2>1
<1>8. Len(Written) \in Nat
  <2>1. Laid(Written, Len(Lines), e) BY WrittenIsLaid
  <2>2. Written \in Seq(Nat) BY <2>1 DEF Laid
  <2> QED BY <2>2
<1>9. ASSUME NEW k \in 1..n, k - 1 \in A PROVE k \in A
  <2>1. PICK j, q : j = k - 1 /\ q = p + j OBVIOUS
  <2>2. /\ j \in Nat /\ q \in Nat /\ q < Len(Written) /\ j < Chunk /\ q + 1 = p + k /\ j + 1 = k /\ k \in 0..n
    <3>1. Chunk \in Nat BY TailerAssumption
    <3> QED BY <1>8, <2>1, <3>1
  <2>3. AccOK(h[j], g, q, j, e) BY <1>6, <1>9, <2>1
  <2>4. h[k] = ConsumeUnit(h[j], Written[q + 1]) BY <1>5, <2>1, <2>2
  <2>5. AccOK(h[k], g, q + 1, j + 1, e) BY <2>2, <2>3, <2>4, UnitStep
  <2> QED BY <1>6, <2>2, <2>5
<1>10. n \in A
  <2>1. 0..n \subseteq A BY <1>7, <1>9, AllReached
  <2>2. n \in 0..n OBVIOUS
  <2> QED BY <2>1, <2>2
<1>11. PICK end : end = h[n] OBVIOUS
<1>12. AccOK(end, g, p + n, n, e) BY <1>6, <1>10, <1>11
<1>13. PICK q : q = p + n OBVIOUS
<1>14. PICK c : c = Consume(t, chunk) OBVIOUS
<1> DEFINE tooLong == Len(end.line) + Len(end.rest) > MaxLine
<1>16. c = [out |-> end.out, skipping |-> end.skipping \/ (end.rest # <<>> /\ tooLong),
            line |-> IF end.skipping \/ end.rest = <<>> THEN end.line
                     ELSE IF tooLong THEN <<>> ELSE end.line \o end.rest]
  BY <1>1, <1>5, <1>11, <1>14 DEF Consume, ReadAll
<1>17. c.out = end.out /\ Delivered(g \o c.out, q, e) BY <1>12, <1>13, <1>16 DEF AccOK
<1>18. PICK k : /\ InLine(q, k, e)
                /\ end.skipping => q - e[k] > MaxLine
                /\ ~end.skipping => /\ Len(end.line) + Len(end.rest) = q - e[k]
                                    /\ Within1(end.line, k + 1) /\ Within1(end.rest, k + 1)
  BY <1>12, <1>13 DEF AccOK
<1>19. end \in Accs /\ Len(end.line) <= MaxLine BY <1>12 DEF AccOK
<1>20. end.line \in Seq(Nat) /\ end.rest \in Seq(Nat) /\ end.skipping \in BOOLEAN /\ Len(end.line) \in Nat /\ Len(end.rest) \in Nat
  BY <1>19, AccFields
<1>21. MaxLine \in Nat BY TailerAssumption
<1>22. TailText(c.line, c.skipping, q, e)
  <2>1. CASE end.skipping
    <3>1. c.line = end.line /\ c.skipping = TRUE BY <1>16, <2>1
    <3> QED BY <1>18, <1>19, <1>20, <2>1, <3>1 DEF TailText
  <2>2. CASE ~end.skipping /\ end.rest = <<>>
    <3>1. c.line = end.line /\ c.skipping = FALSE BY <1>16, <2>2
    <3>2. Len(end.rest) = 0 BY <2>2
    <3>3. Len(c.line) = q - e[k] BY <1>18, <1>20, <2>2, <3>1, <3>2
    <3> QED BY <1>18, <1>19, <1>20, <2>2, <3>1, <3>3 DEF TailText
  <2>3. CASE ~end.skipping /\ end.rest # <<>> /\ tooLong
    <3>1. c.line = <<>> /\ c.skipping = TRUE BY <1>16, <2>3
    <3>2. c.line \in Seq(Nat) /\ Len(c.line) <= MaxLine BY <1>21, <3>1
    <3>3. q - e[k] > MaxLine BY <1>18, <2>3
    <3> QED BY <1>18, <3>1, <3>2, <3>3 DEF TailText
  <2>4. CASE ~end.skipping /\ end.rest # <<>> /\ ~tooLong
    <3>1. c.line = end.line \o end.rest /\ c.skipping = FALSE BY <1>16, <2>4
    <3>2. c.line \in Seq(Nat) /\ Len(c.line) = Len(end.line) + Len(end.rest) /\ Within1(c.line, k + 1)
      <4>1. Within1(end.line, k + 1) /\ Within1(end.rest, k + 1) BY <1>18, <2>4
      <4>2. PICK a, b : a = end.line /\ b = end.rest OBVIOUS
      <4>3. a \in Seq(Nat) /\ b \in Seq(Nat) /\ Within1(a, k + 1) /\ Within1(b, k + 1) BY <1>20, <4>1, <4>2
      <4>4. a \o b \in Seq(Nat) /\ Len(a \o b) = Len(a) + Len(b) /\ Within1(a \o b, k + 1) BY <4>3, JoinFields
      <4> QED BY <3>1, <4>2, <4>4
    <3>3. Len(c.line) <= MaxLine
      <4>1. PICK x, y, z : x = Len(end.line) /\ y = Len(end.rest) /\ z = Len(c.line) OBVIOUS
      <4>2. ~(x + y > MaxLine) /\ z = x + y /\ x \in Nat /\ y \in Nat BY <1>20, <2>4, <3>2, <4>1
      <4>3. z <= MaxLine BY <1>21, <4>2
      <4> QED BY <4>1, <4>3
    <3> QED BY <1>18, <2>4, <3>1, <3>2, <3>3 DEF TailText
  <2> QED BY <1>20, <2>1, <2>2, <2>3, <2>4
<1>23. c.out \in Seq(Nat) BY <1>17, <1>19, AccFields
<1> QED BY <1>13, <1>14, <1>17, <1>22, <1>23

(* One Build call: its steps, and what the tailer has read and handed over. *)
Calls == [pc : {"idle", "probe", "start", "wait", "stop", "decode", "returned"}, cancelled : BOOLEAN,
          child : {"none", "running", "gone"}, exit : ExitCodes, orphan : BOOLEAN, seen : Nat]
Tails == [pc : {"none", "poll", "drain", "done"}, stop : BOOLEAN, last : BOOLEAN,
          off : Nat, line : Seq(Nat), skipping : BOOLEAN]
BuildJobs == [gen : 0..MaxRuns, running : BOOLEAN,
              outcome : {"none", "cancelled", "ok", "own", "not debark", "rule", "cli", "class", "killed", "unknown"}]
BuildRecords ==
  /\ events \in {"unasked", "yes", "no"} /\ run \in Calls /\ tail \in Tails /\ job \in BuildJobs
  /\ file \in Seq(Nat) /\ given \in Seq(1..Len(Lines)) /\ kept \in Nat

FileIsWritten == Len(file) <= Len(Written) /\ \A i \in 1..Len(file) : file[i] = Written[i]

BuildControl ==
  /\ tail.off <= Len(file) /\ run.seen <= Len(file)
  /\ run.pc \in {"idle", "probe"} => tail = NoTail /\ file = <<>>
  /\ run.pc = "probe" => given = <<>>
  /\ job.running <=> run.pc # "idle"
  /\ job.running => kept = Len(given)
  /\ tail.pc # "none" => run.pc \in {"start", "wait", "stop", "decode"}
  /\ tail.stop => run.pc \in {"stop", "decode"}
  /\ tail.last => tail.stop
  /\ tail.pc = "done" => tail.last /\ tail.off >= run.seen
  /\ run.pc = "decode" /\ tail.pc # "none" => tail.pc = "done"

BuildText(e) == tail.pc # "none" => TailText(tail.line, tail.skipping, tail.off, e) /\ Delivered(given, tail.off, e)

BuildInv(e) == BuildRecords /\ FileIsWritten /\ BuildControl /\ BuildText(e)

LEMMA TextStays ==
  ASSUME NEW e, BuildText(e), tail'.pc # "none" => tail.pc # "none",
         tail'.line = tail.line, tail'.skipping = tail.skipping, tail'.off = tail.off, given' = given
  PROVE  BuildText(e)'
BY DEF BuildText, TailText, Delivered

LEMMA SameFile == ASSUME FileIsWritten, file' = file PROVE FileIsWritten'
BY DEF FileIsWritten

LEMMA PollKeeps == ASSUME NEW e, BuildInv(e), TailPoll PROVE BuildInv(e)'
<1> USE DEF BuildInv
<1>1. tail' = [tail EXCEPT !.pc = "drain", !.last = tail.stop] /\ tail.pc = "poll" /\ UNCHANGED <<events, run, file, given, job, kept>>
  BY DEF TailPoll
<1>2. BuildRecords'
  <2>1. tail' \in Tails BY <1>1 DEF BuildRecords, Tails
  <2> QED BY <1>1, <2>1 DEF BuildRecords
<1>3. /\ tail'.pc = "drain" /\ tail'.last = tail.stop /\ tail'.stop = tail.stop /\ tail'.off = tail.off
      /\ tail'.line = tail.line /\ tail'.skipping = tail.skipping
  BY <1>1 DEF BuildRecords, Tails
<1>4. BuildControl' BY <1>1, <1>3 DEF BuildControl, NoTail
<1>5. BuildText(e)' BY <1>1, <1>3, TextStays
<1> QED BY <1>1, <1>2, <1>4, <1>5, SameFile

LEMMA EOFKeeps == ASSUME NEW e, BuildInv(e), TailEOF PROVE BuildInv(e)'
<1> USE DEF BuildInv
<1>1. /\ tail' = [tail EXCEPT !.pc = IF tail.last THEN "done" ELSE "poll"] /\ tail.pc = "drain" /\ tail.off = Len(file)
      /\ UNCHANGED <<events, run, file, given, job, kept>>
  BY DEF TailEOF
<1>2. BuildRecords'
  <2>1. tail' \in Tails BY <1>1 DEF BuildRecords, Tails
  <2> QED BY <1>1, <2>1 DEF BuildRecords
<1>3. /\ tail'.pc = (IF tail.last THEN "done" ELSE "poll") /\ tail'.last = tail.last /\ tail'.stop = tail.stop /\ tail'.off = tail.off
      /\ tail'.line = tail.line /\ tail'.skipping = tail.skipping
  BY <1>1 DEF BuildRecords, Tails
<1>4. tail.pc # "none" /\ tail.off >= run.seen /\ run.seen \in Nat
  <2>1. run.seen <= Len(file) BY DEF BuildControl
  <2>2. run.seen \in Nat /\ file \in Seq(Nat) BY DEF BuildRecords, Calls
  <2>3. Len(file) \in Nat BY <2>2
  <2> QED BY <1>1, <2>1, <2>2, <2>3
<1>5. BuildControl' BY <1>1, <1>3, <1>4 DEF BuildControl, NoTail
<1>6. BuildText(e)' BY <1>1, <1>3, TextStays
<1> QED BY <1>1, <1>2, <1>5, <1>6, SameFile

LEMMA ReadKeeps == ASSUME NEW e, LineEnds(e), BuildInv(e), TailRead PROVE BuildInv(e)'
<1> USE DEF BuildInv
<1>1. PICK p, n, chunk : p = tail.off /\ n = (IF Len(file) - tail.off < Chunk THEN Len(file) - tail.off ELSE Chunk)
                         /\ chunk = SubSeq(file, tail.off + 1, tail.off + n) OBVIOUS
<1>2. PICK c : c = Consume(tail, chunk) OBVIOUS
<1>3. /\ tail.pc = "drain" /\ p < Len(file)
      /\ tail' = [tail EXCEPT !.off = p + n, !.line = c.line, !.skipping = c.skipping]
      /\ given' = given \o c.out
      /\ kept' = (IF job.running THEN kept + Len(c.out) ELSE kept)
      /\ UNCHANGED <<events, run, file, job>>
  BY <1>1, <1>2 DEF TailRead
<1>4. /\ p \in Nat /\ file \in Seq(Nat) /\ given \in Seq(1..Len(Lines)) /\ kept \in Nat /\ run.seen \in Nat BY <1>1 DEF BuildRecords, Calls, Tails
<1>5. PICK f : f = Len(file) OBVIOUS
<1>6. f \in Nat /\ p < f /\ n = IF f - p < Chunk THEN f - p ELSE Chunk BY <1>1, <1>3, <1>4, <1>5
<1>7. n \in Nat /\ n <= Chunk /\ p + n <= f /\ p + n \in Nat BY <1>4, <1>6, TailerAssumption
<1>8. chunk \in Seq(Nat) /\ Len(chunk) = n /\ \A k \in 1..n : chunk[k] = file[p + k]
  <2>1. PICK a, b : a = p + 1 /\ b = p + n OBVIOUS
  <2>2. a \in Nat /\ b \in Nat /\ a >= 1 /\ b <= Len(file) /\ a <= b + 1 BY <1>4, <1>5, <1>7, <2>1
  <2>3. chunk = SubSeq(file, a, b) BY <1>1, <2>1
  <2>4. chunk = [k \in 1..(b - a + 1) |-> file[a + k - 1]] BY <1>4, <2>2, <2>3
  <2>5. b - a + 1 = n BY <1>4, <1>7, <2>1
  <2>6. chunk = [k \in 1..n |-> file[a + k - 1]] BY <2>4, <2>5
  <2>7. ASSUME NEW k \in 1..n PROVE a + k - 1 = p + k /\ p + k \in 1..Len(file) BY <1>4, <1>5, <1>7, <2>1
  <2>8. \A k \in 1..n : chunk[k] = file[p + k] BY <2>6, <2>7
  <2>9. \A k \in 1..n : file[p + k] \in Nat BY <1>4, <2>7
  <2>10. chunk \in [1..n -> Nat] BY <2>6, <2>8, <2>9
  <2> QED BY <1>7, <2>8, <2>10
<1>9. p + n <= Len(Written) /\ \A k \in 1..n : chunk[k] = Written[p + k]
  <2>1. Len(Written) \in Nat
    <3>1. Laid(Written, Len(Lines), e) BY WrittenIsLaid
    <3>2. Written \in Seq(Nat) BY <3>1 DEF Laid
    <3> QED BY <3>2
  <2>2. f <= Len(Written) BY <1>5 DEF FileIsWritten
  <2>3. ASSUME NEW k \in 1..n PROVE p + k \in 1..Len(file) BY <1>4, <1>5, <1>6, <1>7
  <2>4. \A k \in 1..n : file[p + k] = Written[p + k] BY <2>3 DEF FileIsWritten
  <2>5. p + n <= Len(Written) BY <1>6, <1>7, <2>1, <2>2
  <2> QED BY <1>8, <2>4, <2>5
<1>10. TailText(tail.line, tail.skipping, p, e) /\ Delivered(given, p, e) BY <1>1, <1>3 DEF BuildText
<1>11. given \in Seq(Nat)
  <2>1. 1..Len(Lines) \subseteq Nat OBVIOUS
  <2> QED BY <1>4, <2>1
<1>12. c.out \in Seq(Nat) /\ Delivered(given \o c.out, p + n, e) /\ TailText(c.line, c.skipping, p + n, e)
  <2>1. PICK t : t = tail OBVIOUS
  <2>2. TailText(t.line, t.skipping, p, e) /\ c = Consume(t, chunk) BY <1>2, <1>10, <2>1
  <2>3. Len(chunk) = n /\ n \in Nat /\ n <= Chunk /\ p + n <= Len(Written) /\ chunk \in Seq(Nat) BY <1>7, <1>8, <1>9
  <2>4. PICK g : g = given OBVIOUS
  <2>5. g \in Seq(Nat) /\ Delivered(g, p, e) BY <1>10, <1>11, <2>4
  <2>6. /\ Consume(t, chunk).out \in Seq(Nat) /\ Delivered(g \o Consume(t, chunk).out, p + n, e)
        /\ TailText(Consume(t, chunk).line, Consume(t, chunk).skipping, p + n, e)
    BY <1>4, <1>9, <2>2, <2>3, <2>5, ConsumeKeeps
  <2> QED BY <2>2, <2>4, <2>6
<1>13. /\ tail'.pc = "drain" /\ tail'.stop = tail.stop /\ tail'.last = tail.last /\ tail'.off = p + n
       /\ tail'.line = c.line /\ tail'.skipping = c.skipping
  BY <1>3 DEF BuildRecords, Tails
<1>14. Len(c.out) \in Nat BY <1>12
<1>15. BuildRecords'
  <2>1. c.line \in Seq(Nat) /\ c.skipping \in BOOLEAN BY <1>12 DEF TailText
  <2>2. given' \in Seq(1..Len(Lines)) BY <1>3, <1>12 DEF Delivered
  <2>3. kept' \in Nat BY <1>3, <1>4, <1>14
  <2>4. tail' \in Tails BY <1>3, <1>7, <2>1 DEF BuildRecords, Tails
  <2>5. UNCHANGED <<events, run, job, file>> BY <1>3
  <2> QED BY <2>2, <2>3, <2>4, <2>5 DEF BuildRecords
<1>16. BuildControl'
  <2>1. tail'.off <= Len(file) BY <1>5, <1>7, <1>13
  <2>2. run.pc \notin {"idle", "probe"} /\ job.running BY <1>3 DEF BuildControl
  <2>3. kept = Len(given) BY <2>2 DEF BuildControl
  <2>4. Len(given') = Len(given) + Len(c.out) BY <1>3, <1>11, <1>12
  <2>5. kept' = Len(given') BY <1>3, <2>2, <2>3, <2>4
  <2> QED BY <1>3, <1>13, <2>1, <2>2, <2>5 DEF BuildControl
<1>17. BuildText(e)' BY <1>3, <1>12, <1>13 DEF BuildText
<1> QED BY <1>3, <1>15, <1>16, <1>17, SameFile

LEMMA WrittenLength == Len(Written) \in Nat
<1>1. PICK e : LineEnds(e) BY LinesEnd
<1>2. Laid(Written, Len(Lines), e) BY <1>1, WrittenIsLaid
<1>3. Written \in Seq(Nat) BY <1>2 DEF Laid
<1> QED BY <1>3

(* A step that changes the Build call alone. *)
LEMMA CallKeeps ==
  ASSUME NEW e, BuildInv(e), UNCHANGED <<events, file, tail, given, job, kept>>,
         run' \in Calls, BuildControl'
  PROVE  BuildInv(e)'
<1> USE DEF BuildInv
<1>1. BuildRecords' BY DEF BuildRecords
<1>2. BuildText(e)' BY TextStays
<1> QED BY <1>1, <1>2, SameFile

LEMMA StartKeeps == ASSUME NEW e, BuildInv(e), BuildStart PROVE BuildInv(e)'
<1>1. BuildRecords /\ BuildControl BY DEF BuildInv
<1>2. run.pc = "start" /\ run \in Calls /\ UNCHANGED <<events, file, tail, given, job, kept>>
  BY <1>1 DEF BuildStart, BuildRecords
<1>3. run' \in Calls /\ run'.pc \in {"wait", "stop"} /\ run'.seen = run.seen /\ job' = job
  <2>1. CASE run' = [run EXCEPT !.pc = "wait", !.child = "running"] BY <1>2, <2>1 DEF Calls
  <2>2. CASE run' = [run EXCEPT !.pc = "stop", !.exit = NoExit] BY <1>2, <2>2 DEF Calls, ExitCodes
  <2> QED BY <1>2, <2>1, <2>2 DEF BuildStart
<1>4. BuildControl' BY <1>1, <1>2, <1>3 DEF BuildControl, NoTail
<1> QED BY <1>2, <1>3, <1>4, CallKeeps

LEMMA WaitKeeps == ASSUME NEW e, BuildInv(e), BuildWait PROVE BuildInv(e)'
<1>1. BuildRecords /\ BuildControl BY DEF BuildInv
<1>2. run.pc = "wait" /\ run \in Calls /\ UNCHANGED <<events, file, tail, given, job, kept>>
  BY <1>1 DEF BuildWait, BuildRecords
<1>x. PICK x \in ExitCodes : run' = [run EXCEPT !.pc = "stop", !.seen = Len(file), !.exit = x]
  <2>1. run.exit \in ExitCodes /\ Unclean \in ExitCodes BY <1>2 DEF Calls, ExitCodes
  <2>2. CASE run.orphan /\ run.exit = Success BY <2>1, <2>2 DEF BuildWait
  <2>3. CASE ~(run.orphan /\ run.exit = Success)
    <3>1. run' = [run EXCEPT !.pc = "stop", !.seen = Len(file), !.exit = run.exit] BY <2>3 DEF BuildWait
    <3> QED BY <2>1, <3>1
  <2> QED BY <2>2, <2>3
<1>3. file \in Seq(Nat) BY <1>1 DEF BuildRecords
<1>4. Len(file) \in Nat BY <1>3
<1>5. run' \in Calls /\ run'.pc = "stop" /\ run'.seen = Len(file) BY <1>2, <1>x, <1>4 DEF Calls
<1>6. ~tail.stop /\ ~tail.last /\ tail.pc # "done" BY <1>1, <1>2 DEF BuildControl
<1>7. BuildControl' BY <1>1, <1>2, <1>4, <1>5, <1>6 DEF BuildControl, NoTail
<1> QED BY <1>2, <1>5, <1>7, CallKeeps

LEMMA ChildKeeps ==
  ASSUME NEW e, BuildInv(e), UNCHANGED <<events, file, tail, given, job, kept>>,
         run' \in Calls, run'.pc = run.pc, run'.seen = run.seen
  PROVE  BuildInv(e)'
<1>1. BuildRecords /\ BuildControl BY DEF BuildInv
<1>2. BuildControl' BY <1>1 DEF BuildControl, NoTail
<1> QED BY <1>2, CallKeeps

LEMMA ExitsKeep == ASSUME NEW e, BuildInv(e), ChildExit \/ OrphanExit \/ CancelBuild PROVE BuildInv(e)'
<1>1. BuildRecords BY DEF BuildInv
<1>2. run \in Calls BY <1>1 DEF BuildRecords
<1>3. CASE ChildExit
  <2>1. PICK code \in ExitCodes \ {Unclean}, orphan \in BOOLEAN : run' = [run EXCEPT !.child = "gone", !.exit = code, !.orphan = orphan]
    BY <1>3 DEF ChildExit
  <2>2. run' \in Calls /\ run'.pc = run.pc /\ run'.seen = run.seen BY <1>2, <2>1 DEF Calls
  <2> QED BY <1>3, <2>2, ChildKeeps DEF ChildExit
<1>4. CASE OrphanExit
  <2>1. run' = [run EXCEPT !.orphan = FALSE] BY <1>4 DEF OrphanExit
  <2>2. run' \in Calls /\ run'.pc = run.pc /\ run'.seen = run.seen BY <1>2, <2>1 DEF Calls
  <2> QED BY <1>4, <2>2, ChildKeeps DEF OrphanExit
<1>5. CASE CancelBuild
  <2>1. run' = [run EXCEPT !.cancelled = TRUE] BY <1>5 DEF CancelBuild
  <2>2. run' \in Calls /\ run'.pc = run.pc /\ run'.seen = run.seen BY <1>2, <2>1 DEF Calls
  <2> QED BY <1>5, <2>2, ChildKeeps DEF CancelBuild
<1> QED BY <1>3, <1>4, <1>5

LEMMA NothingRead ==
  ASSUME NEW e, LineEnds(e)
  PROVE  TailText(<<>>, FALSE, 0, e) /\ Delivered(<<>>, 0, e)
<1>1. Len(Lines) \in Nat /\ e[0] = 0 /\ 0 \in 0..Len(Lines) BY EndsAre
<1>2. ASSUME NEW m \in 1..Len(Lines) PROVE ~(e[m] <= 0)
  <2>1. m \in 0..Len(Lines) /\ 0 \in 0..m /\ 0 # m BY <1>1
  <2>2. e[0] < e[m] /\ e[m] \in Nat BY <2>1, EndsGrow
  <2> QED BY <1>1, <2>2
<1>3. Delivered(<<>>, 0, e)
  <2>1. <<>> \in Seq(1..Len(Lines)) /\ DOMAIN <<>> = {} OBVIOUS
  <2> QED BY <1>2, <2>1 DEF Delivered
<1>4. InLine(0, 0, e)
  <2>1. 0 < Len(Lines) => 0 < e[0 + 1]
    <3>1. SUFFICES ASSUME 0 < Len(Lines) PROVE 0 < e[1] OBVIOUS
    <3>2. 1 \in 1..Len(Lines) /\ 1 \in 0..Len(Lines) BY <1>1, <3>1
    <3>3. e[1] \in Nat /\ ~(e[1] <= 0) BY <1>2, <3>2, EndsAre
    <3> QED BY <3>3
  <2> QED BY <1>1, <2>1 DEF InLine
<1>5. TailText(<<>>, FALSE, 0, e)
  <2>1. <<>> \in Seq(Nat) /\ Len(<<>>) = 0 /\ 0 <= MaxLine BY TailerAssumption
  <2>2. Within1(<<>>, 0 + 1) BY DEF Within1
  <2>3. Len(<<>>) = 0 - e[0] BY <1>1, <2>1
  <2> QED BY <1>4, <2>1, <2>2, <2>3 DEF TailText
<1> QED BY <1>3, <1>5

LEMMA ProbeKeeps == ASSUME NEW e, LineEnds(e), BuildInv(e), BuildProbe PROVE BuildInv(e)'
<1>1. BuildRecords /\ BuildControl /\ FileIsWritten BY DEF BuildInv
<1>2. /\ run.pc = "probe" /\ run \in Calls /\ UNCHANGED <<file, given, job, kept>>
      /\ tail = NoTail /\ file = <<>> /\ given = <<>>
  BY <1>1 DEF BuildProbe, BuildRecords, BuildControl
<1>3. events' \in {"unasked", "yes", "no"} BY <1>1 DEF BuildProbe, BuildRecords
<1>4. \/ run' = [run EXCEPT !.pc = "start"] /\ tail' \in {tail, [NoTail EXCEPT !.pc = "poll"]}
      \/ run' = [run EXCEPT !.pc = "returned", !.exit = NoExit] /\ tail' = tail
  BY DEF BuildProbe
<1>5. run' \in Calls /\ run'.pc \in {"start", "returned"} /\ run'.seen = run.seen /\ (run'.pc = "returned" => tail' = tail)
  <2>1. CASE run' = [run EXCEPT !.pc = "start"] BY <1>2, <2>1 DEF Calls
  <2>2. CASE run' = [run EXCEPT !.pc = "returned", !.exit = NoExit]
    <3>1. tail' = tail
      <4>1. run'.pc = "returned" BY <1>2, <2>2 DEF Calls
      <4>2. run' # [run EXCEPT !.pc = "start"] BY <1>2, <4>1 DEF Calls
      <4> QED BY <1>4, <4>2
    <3> QED BY <1>2, <2>2, <3>1 DEF Calls, ExitCodes
  <2> QED BY <1>4, <2>1, <2>2
<1>6. /\ tail'.pc \in {"none", "poll"} /\ ~tail'.stop /\ ~tail'.last /\ tail'.off = 0 /\ tail'.line = <<>> /\ tail'.skipping = FALSE
      /\ (tail' # NoTail => run'.pc = "start") /\ (tail'.pc # "none" => run'.pc = "start")
  BY <1>2, <1>4, <1>5 DEF NoTail
<1>7. tail' \in Tails
  <2>1. <<>> \in Seq(Nat) OBVIOUS
  <2>2. NoTail \in Tails BY <2>1 DEF NoTail, Tails
  <2>3. [NoTail EXCEPT !.pc = "poll"] \in Tails BY <2>2 DEF Tails
  <2> QED BY <1>2, <1>4, <2>2, <2>3
<1>8. BuildRecords' BY <1>1, <1>2, <1>3, <1>5, <1>7 DEF BuildRecords
<1>9. BuildControl' BY <1>1, <1>2, <1>5, <1>6 DEF BuildControl
<1>10. BuildText(e)' BY <1>2, <1>6, NothingRead DEF BuildText
<1> QED BY <1>1, <1>2, <1>8, <1>9, <1>10, SameFile DEF BuildInv

LEMMA StopKeeps == ASSUME NEW e, BuildInv(e), BuildStopTail PROVE BuildInv(e)'
<1>1. BuildRecords /\ BuildControl /\ FileIsWritten BY DEF BuildInv
<1>2. run.pc = "stop" /\ run \in Calls /\ tail \in Tails /\ UNCHANGED <<events, file, given, job, kept>>
  BY <1>1 DEF BuildStopTail, BuildRecords
<1>3. CASE tail' = tail /\ run' = [run EXCEPT !.pc = "decode"] /\ tail.pc \in {"none", "done"}
  <2>1. run' \in Calls /\ run'.pc = "decode" /\ run'.seen = run.seen BY <1>2, <1>3 DEF Calls
  <2>2. BuildControl' BY <1>1, <1>2, <1>3, <2>1 DEF BuildControl, NoTail
  <2> QED BY <1>2, <1>3, <2>1, <2>2, CallKeeps
<1>4. CASE run' = run /\ tail' = [tail EXCEPT !.stop = TRUE]
  <2>1. /\ tail' \in Tails /\ tail'.stop /\ tail'.pc = tail.pc /\ tail'.last = tail.last /\ tail'.off = tail.off
        /\ tail'.line = tail.line /\ tail'.skipping = tail.skipping
    BY <1>2, <1>4 DEF Tails
  <2>2. BuildRecords' BY <1>1, <1>2, <1>4, <2>1 DEF BuildRecords
  <2>3. BuildControl' BY <1>1, <1>2, <1>4, <2>1 DEF BuildControl
  <2>4. BuildText(e)' BY <1>2, <2>1, TextStays DEF BuildInv
  <2> QED BY <1>1, <1>2, <2>2, <2>3, <2>4, SameFile DEF BuildInv
<1> QED BY <1>3, <1>4 DEF BuildStopTail

LEMMA WriteKeeps == ASSUME NEW e, LineEnds(e), BuildInv(e), ChildWrite PROVE BuildInv(e)'
<1>1. BuildRecords /\ BuildControl /\ FileIsWritten BY DEF BuildInv
<1>2. PICK w, n : w = Written /\ n = Len(file) OBVIOUS
<1>3. /\ tail.pc # "none" /\ n < Len(w) /\ file' = Append(file, w[n + 1]) /\ UNCHANGED <<events, run, tail, given, job, kept>>
      /\ file \in Seq(Nat) /\ tail.off \in Nat /\ run.seen \in Nat
  BY <1>1, <1>2 DEF ChildWrite, BuildRecords, Calls, Tails
<1>4. w \in Seq(Nat)
  <2>1. Laid(w, Len(Lines), e) BY <1>2, WrittenIsLaid
  <2> QED BY <2>1 DEF Laid
<1>5. n \in Nat /\ Len(w) \in Nat /\ w[n + 1] \in Nat
  <2>1. n \in Nat /\ Len(w) \in Nat BY <1>2, <1>3, <1>4
  <2>2. n + 1 \in 1..Len(w) BY <1>3, <2>1
  <2> QED BY <1>4, <2>1, <2>2
<1>6. file' \in Seq(Nat) /\ Len(file') = n + 1 /\ file'[n + 1] = w[n + 1] /\ \A i \in 1..n : file'[i] = file[i]
  <2>1. PICK x, f : x = w[n + 1] /\ f = file OBVIOUS
  <2>2. f \in Seq(Nat) /\ x \in Nat /\ Len(f) = n /\ n \in Nat BY <1>2, <1>3, <1>5, <2>1
  <2>3. Append(f, x) \in Seq(Nat) /\ Len(Append(f, x)) = n + 1 /\ Append(f, x)[n + 1] = x /\ \A i \in 1..n : Append(f, x)[i] = f[i]
    BY <2>2
  <2> QED BY <1>3, <2>1, <2>3
<1>7. FileIsWritten'
  <2>1. \A i \in 1..n : file[i] = w[i] BY <1>1, <1>2 DEF FileIsWritten
  <2>2. ASSUME NEW i \in 1..(n + 1) PROVE file'[i] = w[i]
    <3>1. CASE i = n + 1 BY <1>6, <3>1
    <3>2. CASE i # n + 1
      <4>1. i \in 1..n BY <1>5, <3>2
      <4> QED BY <1>6, <2>1, <4>1
    <3> QED BY <3>1, <3>2
  <2>3. n + 1 <= Len(w) BY <1>3, <1>5
  <2> QED BY <1>2, <1>6, <2>2, <2>3 DEF FileIsWritten
<1>8. BuildRecords' BY <1>1, <1>3, <1>6 DEF BuildRecords
<1>9. BuildControl'
  <2>1. tail.off <= n /\ run.seen <= n BY <1>1, <1>2 DEF BuildControl
  <2>2. tail'.off <= Len(file') /\ run'.seen <= Len(file') BY <1>3, <1>5, <1>6, <2>1
  <2>3. run.pc \notin {"idle", "probe"} BY <1>1, <1>3 DEF BuildControl
  <2> QED BY <1>1, <1>3, <2>2, <2>3 DEF BuildControl
<1>10. BuildText(e)' BY <1>3, TextStays DEF BuildInv
<1> QED BY <1>7, <1>8, <1>9, <1>10 DEF BuildInv

LEMMA OutcomeIsKnown ==
  ASSUME run.exit \in ExitCodes, NEW readable \in BOOLEAN, NEW matched \in BOOLEAN, NEW voice
  PROVE  Outcome(readable, voice, matched) \in {"cancelled", "ok", "own", "not debark", "rule", "cli", "class", "killed", "unknown"}
BY DEF Outcome, ErrResolve, ErrNotDebark, ErrFloor, ErrInTable, ErrDescribed, ExitCodes, Success, NoExit, Unclean

LEMMA ReturnKeeps == ASSUME NEW e, BuildInv(e), BuildReturn PROVE BuildInv(e)'
<1>1. BuildRecords /\ BuildControl BY DEF BuildInv
<1>2. run' = NoRun /\ file' = <<>> /\ tail' = NoTail /\ UNCHANGED <<events, given, kept>> /\ run.exit \in ExitCodes /\ job \in BuildJobs
  BY <1>1 DEF BuildReturn, BuildRecords, Calls
<1>3. PICK readable \in BOOLEAN, matched \in BOOLEAN, voice \in {"silent", "noise", "debark", "foreign"} :
        job' = [job EXCEPT !.running = FALSE, !.outcome = Outcome(readable, voice, matched)]
  BY DEF BuildReturn
<1>4. job' \in BuildJobs /\ job'.running = FALSE
  <2>1. PICK o : o = Outcome(readable, voice, matched) OBVIOUS
  <2>2. o \in {"cancelled", "ok", "own", "not debark", "rule", "cli", "class", "killed", "unknown"} BY <1>2, <2>1, OutcomeIsKnown
  <2>3. job' = [job EXCEPT !.running = FALSE, !.outcome = o] BY <1>3, <2>1
  <2> QED BY <1>2, <2>2, <2>3 DEF BuildJobs
<1>5. <<>> \in Seq(Nat) /\ Len(<<>>) = 0 OBVIOUS
<1>6. run' \in Calls BY <1>2 DEF NoRun, Calls, ExitCodes, Success
<1>7. tail' \in Tails BY <1>2, <1>5 DEF NoTail, Tails
<1>8. BuildRecords' BY <1>1, <1>2, <1>4, <1>5, <1>6, <1>7 DEF BuildRecords
<1>9. FileIsWritten'
  <2>1. Len(file') = 0 /\ 1..0 = {} BY <1>2, <1>5
  <2> QED BY <1>2, <2>1, WrittenLength DEF FileIsWritten
<1>10. BuildControl' BY <1>2, <1>4, <1>5 DEF BuildControl, NoRun, NoTail
<1>11. BuildText(e)' BY <1>2 DEF BuildText, NoTail
<1> QED BY <1>8, <1>9, <1>10, <1>11 DEF BuildInv

LEMMA StartBuildKeeps == ASSUME NEW e, BuildInv(e), StartBuild PROVE BuildInv(e)'
<1>1. BuildRecords /\ BuildControl BY DEF BuildInv
<1>2. /\ ~job.running /\ job.gen < MaxRuns /\ job' = [gen |-> job.gen + 1, running |-> TRUE, outcome |-> "none"]
      /\ run' = [NoRun EXCEPT !.pc = "probe"] /\ given' = <<>> /\ kept' = 0 /\ UNCHANGED <<events, file, tail>>
      /\ job.gen \in 0..MaxRuns
  BY <1>1 DEF StartBuild, BuildRecords, BuildJobs
<1>3. tail = NoTail /\ file = <<>> BY <1>1, <1>2 DEF BuildControl
<1>4. job' \in BuildJobs /\ job'.running = TRUE
  <2>1. job.gen + 1 \in 0..MaxRuns BY <1>2, TailerAssumption
  <2> QED BY <1>2, <2>1 DEF BuildJobs
<1>5. run' \in Calls /\ run'.pc = "probe" /\ run'.seen = 0 BY <1>2 DEF NoRun, Calls, ExitCodes, Success
<1>6. <<>> \in Seq(1..Len(Lines)) /\ Len(<<>>) = 0 OBVIOUS
<1>7. BuildRecords' BY <1>1, <1>2, <1>4, <1>5, <1>6 DEF BuildRecords
<1>8. BuildControl' BY <1>1, <1>2, <1>3, <1>4, <1>5, <1>6 DEF BuildControl, NoTail
<1>9. BuildText(e)' BY <1>2, <1>3 DEF BuildText, NoTail
<1> QED BY <1>2, <1>7, <1>8, <1>9, SameFile DEF BuildInv

LEMMA FirstBuild == ASSUME NEW e, BuildInit PROVE BuildInv(e)
<1>1. /\ events \in {"unasked", "yes", "no"} /\ run = NoRun /\ file = <<>> /\ tail = NoTail /\ given = <<>> /\ kept = 0
      /\ job = [gen |-> 0, running |-> FALSE, outcome |-> "none"]
  BY DEF BuildInit
<1>2. <<>> \in Seq(Nat) /\ <<>> \in Seq(1..Len(Lines)) /\ Len(<<>>) = 0 /\ 1..0 = {} OBVIOUS
<1>3. run \in Calls BY <1>1 DEF NoRun, Calls, ExitCodes, Success
<1>4. tail \in Tails BY <1>1, <1>2 DEF NoTail, Tails
<1>5. job \in BuildJobs
  <2>1. 0 \in 0..MaxRuns BY TailerAssumption
  <2> QED BY <1>1, <2>1 DEF BuildJobs
<1>6. BuildRecords BY <1>1, <1>2, <1>3, <1>4, <1>5 DEF BuildRecords
<1>7. FileIsWritten
  <2>1. Len(file) = 0 BY <1>1, <1>2
  <2> QED BY <1>2, <2>1, WrittenLength DEF FileIsWritten
<1>8. BuildControl BY <1>1, <1>2 DEF BuildControl, NoRun, NoTail
<1>9. BuildText(e) BY <1>1 DEF BuildText, NoTail
<1> QED BY <1>6, <1>7, <1>8, <1>9 DEF BuildInv

LEMMA BuildKeeps == ASSUME NEW e, LineEnds(e), BuildInv(e), [BuildNext]_bvars PROVE BuildInv(e)'
<1>1. CASE UNCHANGED bvars
  <2>1. BuildRecords' BY <1>1 DEF BuildInv, BuildRecords, bvars
  <2>2. BuildControl' BY <1>1 DEF BuildInv, BuildControl, bvars
  <2>3. BuildText(e)' BY <1>1, TextStays DEF BuildInv, bvars
  <2>4. FileIsWritten' BY <1>1, SameFile DEF BuildInv, bvars
  <2> QED BY <2>1, <2>2, <2>3, <2>4 DEF BuildInv
<1>2. CASE Tailer BY <1>2, PollKeeps, ReadKeeps, EOFKeeps DEF Tailer
<1>3. CASE Adapter BY <1>3, ProbeKeeps, StartKeeps, WaitKeeps, StopKeeps, ReturnKeeps DEF Adapter
<1>4. CASE ChildWrite BY <1>4, WriteKeeps
<1>5. CASE ChildExit \/ OrphanExit \/ CancelBuild BY <1>5, ExitsKeep
<1>6. CASE StartBuild BY <1>6, StartBuildKeeps
<1> QED BY <1>1, <1>2, <1>3, <1>4, <1>5, <1>6 DEF BuildNext

LEMMA BuildShows == ASSUME NEW e, LineEnds(e), BuildInv(e) PROVE GivenIsTheFile
<1>1. BuildRecords /\ BuildControl /\ FileIsWritten /\ BuildText(e) BY DEF BuildInv
<1>2. SUFFICES ASSUME tail.pc # "none"
      PROVE  /\ \A i, j \in DOMAIN given : i < j => given[i] < given[j]
             /\ \A k \in 1..Len(Lines) :
                  /\ (k \notin Bad /\ Lines[k] <= MaxLine /\ EndsWithin(k, tail.off)) => Contains(given, k)
                  /\ Contains(given, k) => k \notin Bad /\ Lines[k] <= MaxLine + Chunk /\ EndsWithin(k, tail.off)
             /\ run.pc = "decode" => tail.off >= run.seen /\ kept = Len(given)
  BY DEF GivenIsTheFile
<1>3. PICK p : p = tail.off OBVIOUS
<1>4. Delivered(given, p, e) /\ given \in Seq(Nat) /\ DOMAIN given = 1..Len(given)
  <2>1. Delivered(given, p, e) /\ given \in Seq(1..Len(Lines)) BY <1>1, <1>2, <1>3 DEF BuildText, BuildRecords
  <2>2. 1..Len(Lines) \subseteq Nat OBVIOUS
  <2> QED BY <2>1, <2>2
<1>5. p \in 0..Len(file) /\ Len(file) \in Nat /\ Len(file) <= Len(Written) /\ \A i \in 1..Len(file) : file[i] = Written[i]
  <2>1. p \in Nat /\ file \in Seq(Nat) /\ p <= Len(file) BY <1>1, <1>3 DEF BuildRecords, Tails, BuildControl
  <2>2. Len(file) \in Nat BY <2>1
  <2> QED BY <1>1, <2>1, <2>2 DEF FileIsWritten
<1>6. ASSUME NEW m \in 1..Len(Lines) PROVE EndsWithin(m, p) <=> 1 <= Lines[m] /\ e[m] <= p BY <1>5, EndsWithinIs
<1>7. ASSUME NEW k \in 1..Len(Lines), k \notin Bad, Lines[k] <= MaxLine, EndsWithin(k, p) PROVE Contains(given, k)
  <2>1. Fits(k) /\ e[k] <= p BY <1>6, <1>7 DEF Fits
  <2>2. \E i \in DOMAIN given : given[i] = k BY <1>4, <1>7, <2>1 DEF Delivered
  <2> QED BY <1>4, <2>2 DEF Contains
<1>8. ASSUME NEW k \in 1..Len(Lines), Contains(given, k) PROVE k \notin Bad /\ Lines[k] <= MaxLine + Chunk /\ EndsWithin(k, p)
  <2>1. PICK i \in DOMAIN given : given[i] = k BY <1>4, <1>8 DEF Contains
  <2>2. Fits(k) /\ Lines[k] <= MaxLine + Chunk /\ e[k] <= p BY <1>4, <2>1 DEF Delivered
  <2> QED BY <1>6, <2>2 DEF Fits
<1>9. ASSUME run.pc = "decode" PROVE tail.off >= run.seen /\ kept = Len(given)
  <2>1. tail.pc = "done" /\ job.running BY <1>1, <1>2, <1>9 DEF BuildControl
  <2> QED BY <1>1, <2>1 DEF BuildControl
<1>10. \A i, j \in DOMAIN given : i < j => given[i] < given[j] BY <1>4 DEF Delivered
<1> QED BY <1>3, <1>7, <1>8, <1>9, <1>10

(* The records of a Build call keep their types (cliadapter Build, eventsTailer; *)
(* the application's build job).                                                *)
THEOREM BuildTyped == BuildSpec => []BuildTypeOK
<1>1. PICK e : LineEnds(e) BY LinesEnd
<1>2. BuildInit => BuildInv(e) BY FirstBuild
<1>3. BuildInv(e) /\ [BuildNext]_bvars => BuildInv(e)' BY <1>1, BuildKeeps
<1>4. BuildInv(e) => BuildTypeOK
  <2>1. SUFFICES ASSUME BuildInv(e) PROVE BuildTypeOK OBVIOUS
  <2>2. BuildRecords /\ BuildControl /\ FileIsWritten BY <2>1 DEF BuildInv
  <2>3. file \in Seq(Nat) /\ tail.off \in Nat BY <2>2 DEF BuildRecords, Tails
  <2>4. Len(file) \in Nat BY <2>3
  <2>5. tail.off \in 0..Len(file) BY <2>2, <2>3, <2>4 DEF BuildControl
  <2>6. file = SubSeq(Written, 1, Len(file))
    <3>1. PICK w, n : w = Written /\ n = Len(file) OBVIOUS
    <3>2. w \in Seq(Nat)
      <4>1. Laid(w, Len(Lines), e) BY <1>1, <3>1, WrittenIsLaid
      <4> QED BY <4>1 DEF Laid
    <3>3. n \in Nat /\ n <= Len(w) /\ \A i \in 1..n : file[i] = w[i] BY <2>2, <2>4, <3>1 DEF FileIsWritten
    <3>4. SubSeq(w, 1, n) = [i \in 1..n |-> w[i]]
      <4>1. SubSeq(w, 1, n) = [i \in 1..(n - 1 + 1) |-> w[1 + i - 1]] BY <3>2, <3>3
      <4>2. n - 1 + 1 = n /\ \A i \in 1..n : 1 + i - 1 = i BY <3>3
      <4> QED BY <4>1, <4>2
    <3>5. file \in [1..n -> Nat] BY <2>3, <3>1
    <3>6. file = [i \in 1..n |-> w[i]] BY <3>3, <3>5
    <3> QED BY <3>1, <3>4, <3>6
  <2>7. run.pc \in {"idle", "probe", "start", "wait", "stop", "decode", "returned"} /\ run.child \in {"none", "running", "gone"}
    BY <2>2 DEF BuildRecords, Calls
  <2>8. tail.pc \in {"none", "poll", "drain", "done"} BY <2>2 DEF BuildRecords, Tails
  <2>9. job.gen \in 0..MaxRuns /\ job.outcome \in {"none", "cancelled", "ok", "own", "not debark", "rule", "cli",
                                                    "class", "killed", "unknown"}
    BY <2>2 DEF BuildRecords, BuildJobs
  <2> QED BY <2>2, <2>5, <2>6, <2>7, <2>8, <2>9 DEF BuildTypeOK, BuildRecords
<1> QED BY <1>2, <1>3, <1>4, PTL DEF BuildSpec

(* However the events file is cut into reads, the sink gets its decodable lines  *)
(* in order, each once, and all of them by the time Build decodes its outcome    *)
(* (consume, stash, deliver, drain; stopTail before the outcome).                *)
THEOREM EventsAreTheFile == BuildSpec => []GivenIsTheFile
<1>1. PICK e : LineEnds(e) BY LinesEnd
<1>2. BuildInit => BuildInv(e) BY FirstBuild
<1>3. BuildInv(e) /\ [BuildNext]_bvars => BuildInv(e)' BY <1>1, BuildKeeps
<1>4. BuildInv(e) => GivenIsTheFile BY <1>1, BuildShows
<1> QED BY <1>2, <1>3, <1>4, PTL DEF BuildSpec
=============================================================================
