---------------------------- MODULE EventTailer ----------------------------
(***************************************************************************)
(* One Build call of the CLI adapter (gui/internal/cliadapter): it starts  *)
(* debark with --json-events FILE, tails FILE while the child runs and     *)
(* hands every event to the application's sink (gui/internal/app), which   *)
(* keeps it only while the build is the running one.                       *)
(*                                                                         *)
(* The file is a sequence of line numbers, one per unit of text, with NL   *)
(* ending a line; the numbers in Bad stand for lines that are no JSON      *)
(* object.  Lines is what the child writes, as the lengths of its lines.   *)
(***************************************************************************)
EXTENDS Integers, Sequences, FiniteSets, SequencesExt

CONSTANTS Lines,      \* lengths of the lines the child writes
          Bad,        \* numbers of the lines that cannot be decoded
          MaxLine,    \* eventsMaxLineBytes
          Chunk,      \* eventsReadChunkBytes
          MaxRuns     \* bound: builds started

(* Exit statuses: success, an exit class of debark, another program's, a signal's; *)
(* NoExit where the process has none, Unclean where it succeeded and its pipes     *)
(* stayed open (exec.ErrWaitDelay).                                                *)
Success == 0
NoExit == -1
Unclean == -2
ExitCodes == {Success, 1, 99, NoExit, Unclean}

ASSUME TailerAssumption == Lines \in Seq(Nat) /\ MaxLine \in Nat /\ Chunk \in Nat \ {0} /\ MaxRuns \in Nat

NL == 0
NoTail == [pc |-> "none", stop |-> FALSE, last |-> FALSE, off |-> 0, line |-> <<>>, skipping |-> FALSE]

VARIABLES
  events,  \* adapter.jsonEvents: does this debark have --json-events?
  run,     \* the Build call: pc, ctx cancelled, child, its exit, a grandchild, length at Wait
  file,    \* the temporary events file
  tail,    \* eventsTailer
  given,   \* ghost: lines handed to the sink in this run
  job,     \* the application's build job: gen, running, outcome
  kept     \* eventRing.total: events recorded in this run

bvars == <<events, run, file, tail, given, job, kept>>

NoRun == [pc |-> "idle", cancelled |-> FALSE, child |-> "none", exit |-> 0,
          orphan |-> FALSE, seen |-> 0]

Text == [i \in 1..Len(Lines) |-> [j \in 1..(Lines[i] + 1) |-> IF j <= Lines[i] THEN i ELSE NL]]
Written == FlattenSeq(Text)

BuildTypeOK ==
  /\ events \in {"unasked", "yes", "no"}
  /\ run.pc \in {"idle", "probe", "start", "wait", "stop", "decode", "returned"}
  /\ run.child \in {"none", "running", "gone"}
  /\ file = SubSeq(Written, 1, Len(file))
  /\ tail.pc \in {"none", "poll", "drain", "done"} /\ tail.off \in 0..Len(file)
  /\ given \in Seq(1..Len(Lines)) /\ kept \in Nat
  /\ job.gen \in 0..MaxRuns
  /\ job.outcome \in {"none", "cancelled", "ok", "own", "not debark", "rule", "cli",
                     "class", "killed", "unknown"}

BuildInit ==
  /\ events \in {"unasked", "yes", "no"}
  /\ run = NoRun /\ file = <<>> /\ tail = NoTail /\ given = <<>> /\ kept = 0
  /\ job = [gen |-> 0, running |-> FALSE, outcome |-> "none"]

-----------------------------------------------------------------------------
(* Tailing the events file.                                                *)

(* deliver: a blank line is nothing, an undecodable one is counted and dropped. *)
Decodable(line) == line # <<>> /\ Head(line) \notin Bad

\* Mutant of Consume: the rest of a chunk is not kept for the next one.
ConsumeNoStash(t, chunk) ==
  LET step(acc, u) ==
        IF u # NL THEN [acc EXCEPT !.rest = Append(@, u)]
        ELSE [out |-> IF Decodable(acc.rest) THEN Append(acc.out, Head(acc.rest)) ELSE acc.out,
              rest |-> <<>>]
      end == FoldLeft(step, [rest |-> <<>>, out |-> <<>>], chunk)
  IN [out |-> end.out, skipping |-> FALSE, line |-> <<>>]

(* consume, for one unit: a newline ends a line, which is delivered unless it *)
(* is being skipped.                                                          *)
ConsumeUnit(acc, u) ==
  IF u # NL THEN [acc EXCEPT !.rest = Append(@, u)]
  ELSE IF acc.skipping THEN [acc EXCEPT !.skipping = FALSE, !.line = <<>>, !.rest = <<>>]
  ELSE [acc EXCEPT !.out = IF Decodable(acc.line \o acc.rest)
                           THEN Append(@, Head(acc.line \o acc.rest)) ELSE @,
                   !.line = <<>>, !.rest = <<>>]

(* consume and stash, for one chunk: whole lines are delivered, the rest is kept *)
(* for the next chunk; a rest that makes the line too long is skipped up to its  *)
(* newline.                                                                      *)
Consume(t, chunk) ==
  LET end == FoldLeft(ConsumeUnit, [line |-> t.line, rest |-> <<>>, skipping |-> t.skipping, out |-> <<>>], chunk)
      tooLong == Len(end.line) + Len(end.rest) > MaxLine
  IN [out      |-> end.out,
      skipping |-> end.skipping \/ (end.rest # <<>> /\ tooLong),
      line     |-> IF end.skipping \/ end.rest = <<>> THEN end.line
                   ELSE IF tooLong THEN <<>> ELSE end.line \o end.rest]

(* run: on a tick, or once more after stop was called, read what is there. *)
TailPoll ==
  /\ tail.pc = "poll"
  /\ tail' = [tail EXCEPT !.pc = "drain", !.last = tail.stop]
  /\ UNCHANGED <<events, run, file, given, job, kept>>

(* drain: one Read of at most a chunk and what follows from it, down to the *)
(* sink: recordBuildEvent drops the event of a run that is over.              *)
TailRead ==
  /\ tail.pc = "drain" /\ tail.off < Len(file)
  /\ LET n == IF Len(file) - tail.off < Chunk THEN Len(file) - tail.off ELSE Chunk
         c == Consume(tail, SubSeq(file, tail.off + 1, tail.off + n))
     IN /\ tail' = [tail EXCEPT !.off = @ + n, !.line = c.line, !.skipping = c.skipping]
        /\ given' = given \o c.out
        /\ kept' = IF job.running THEN kept + Len(c.out) ELSE kept   \* recordBuildEvent
  /\ UNCHANGED <<events, run, file, job>>

(* The end of the file: wait for the next tick, or finish. *)
TailEOF ==
  /\ tail.pc = "drain" /\ tail.off = Len(file)
  /\ tail' = [tail EXCEPT !.pc = IF tail.last THEN "done" ELSE "poll"]
  /\ UNCHANGED <<events, run, file, given, job, kept>>

-----------------------------------------------------------------------------
(* The adapter's Build.                                                    *)

(* invokeJSONEventsSupported: asks --help once; an answer that cannot be had is *)
(* taken as yes and asked for again next time.  Then the events file and its    *)
(* tailer, or an error that ends the call.                                      *)
BuildProbe ==
  /\ run.pc = "probe"
  /\ \E answer \in IF events # "unasked" THEN {events}
                   ELSE IF run.cancelled THEN {"unasked"} ELSE {"yes", "no", "unasked"} :
       /\ events' = answer
       /\ IF answer = "no"
          THEN run' = [run EXCEPT !.pc = "start"] /\ UNCHANGED tail
          ELSE \/ run' = [run EXCEPT !.pc = "start"] /\ tail' = [NoTail EXCEPT !.pc = "poll"]
               \/ run' = [run EXCEPT !.pc = "returned", !.exit = NoExit] /\ UNCHANGED tail  \* no temporary file
  /\ UNCHANGED <<file, given, job, kept>>

(* cmd.Start, which refuses a cancelled context; a failure still stops the     *)
(* tailer, by the deferred stopTail.                                           *)
BuildStart ==
  /\ run.pc = "start"
  /\ \/ ~run.cancelled /\ run' = [run EXCEPT !.pc = "wait", !.child = "running"]
     \/ run' = [run EXCEPT !.pc = "stop", !.exit = NoExit]
  /\ UNCHANGED <<events, file, tail, given, job, kept>>

(* The child, or a grandchild that outlived it, writes the next unit. *)
ChildWrite ==
  /\ run.child = "running" \/ run.orphan
  /\ tail.pc # "none" /\ Len(file) < Len(Written)
  /\ file' = Append(file, Written[Len(file) + 1])
  /\ UNCHANGED <<events, run, tail, given, job, kept>>

(* The child exits by itself, or is killed when the context is cancelled; a   *)
(* grandchild may keep the pipes and the events file open.                    *)
ChildExit ==
  /\ run.child = "running"
  /\ \E code \in ExitCodes \ {Unclean}, orphan \in BOOLEAN :
       run' = [run EXCEPT !.child = "gone", !.exit = code, !.orphan = orphan]
  /\ UNCHANGED <<events, file, tail, given, job, kept>>

OrphanExit ==
  /\ run.orphan
  /\ run' = [run EXCEPT !.orphan = FALSE]
  /\ UNCHANGED <<events, file, tail, given, job, kept>>

\* Mutant of BuildWait: no WaitDelay, so a grandchild's pipes are waited for.
BuildWaitForPipes ==
  /\ run.pc = "wait" /\ run.child = "gone" /\ ~run.orphan
  /\ run' = [run EXCEPT !.pc = "stop", !.seen = Len(file)]
  /\ UNCHANGED <<events, file, tail, given, job, kept>>

(* cmd.Wait returns when the pipes are closed, or WaitDelay after the child,   *)
(* which is an error even if the child succeeded.                              *)
BuildWait ==
  /\ run.pc = "wait" /\ run.child = "gone"
  /\ run' = [run EXCEPT !.pc = "stop", !.seen = Len(file),
                        !.exit = IF run.orphan /\ run.exit = Success THEN Unclean ELSE @]
  /\ UNCHANGED <<events, file, tail, given, job, kept>>

(* stopTail closes the tailer's channel and waits for it. *)
BuildStopTail ==
  /\ run.pc = "stop"
  /\ IF tail.pc = "none" THEN run' = [run EXCEPT !.pc = "decode"] /\ UNCHANGED tail
     ELSE IF ~tail.stop THEN tail' = [tail EXCEPT !.stop = TRUE] /\ UNCHANGED run
     ELSE tail.pc = "done" /\ run' = [run EXCEPT !.pc = "decode"] /\ UNCHANGED tail
  /\ UNCHANGED <<events, file, given, job, kept>>

(* Which text explains a failure.  A status of the documented table is a      *)
(* dferr class; others come from the system or from a program that is not      *)
(* debark.                                                                     *)
ErrInTable(code) == code \in 0..7
ErrDescribed(code) == code \in {126, 127}

(* errNotDebark: words that are not debark's, under a status debark never uses. *)
ErrNotDebark(code, voice) ==
  voice = "foreign" /\ code > 0 /\ ~ErrInTable(code) /\ ~ErrDescribed(code)

(* errFloor and errExitFloor: what is said when nothing better is known. *)
ErrFloor(code) ==
  IF ErrInTable(code) THEN "class" ELSE IF ErrDescribed(code) THEN "exit"
  ELSE IF code < 0 THEN "killed" ELSE IF code \in 129..192 THEN "signal" ELSE "unknown"

(* errResolve: the child's own words, replaced by a rule's where one matches; *)
(* rules are for the documented statuses only.                                *)
ErrResolve(code, voice, matched) ==
  IF ErrNotDebark(code, voice) THEN "not debark"
  ELSE IF ErrInTable(code) /\ matched THEN "rule"
  ELSE IF voice \in {"debark", "foreign"} THEN "cli" ELSE ErrFloor(code)

(* The outcome: cancelled whatever else happened, success with a readable   *)
(* document, or a failure with its text.                                    *)
Outcome(readable, voice, matched) ==
  IF run.cancelled THEN "cancelled"
  ELSE IF run.exit = Success /\ readable THEN "ok"
  ELSE IF run.exit \in {Success, Unclean} \/ run.child = "none" THEN "own"
  ELSE ErrResolve(run.exit, voice, matched)

(* Build returns; the goroutine ends the run under the lock. *)
BuildReturn ==
  /\ run.pc \in {"decode", "returned"}
  /\ \E readable, matched \in BOOLEAN, voice \in {"silent", "noise", "debark", "foreign"} :
       job' = [job EXCEPT !.running = FALSE, !.outcome = Outcome(readable, voice, matched)]
  /\ run' = NoRun /\ file' = <<>> /\ tail' = NoTail   \* removeEvents
  /\ UNCHANGED <<events, given, kept>>

(* App.StartBuild: refused while a build runs, else a new run. *)
StartBuild ==
  /\ ~job.running /\ job.gen < MaxRuns
  /\ job' = [gen |-> job.gen + 1, running |-> TRUE, outcome |-> "none"]
  /\ run' = [NoRun EXCEPT !.pc = "probe"]
  /\ given' = <<>> /\ kept' = 0
  /\ UNCHANGED <<events, file, tail>>

(* CancelBuild *)
CancelBuild ==
  /\ job.running /\ ~run.cancelled
  /\ run' = [run EXCEPT !.cancelled = TRUE]
  /\ UNCHANGED <<events, file, tail, given, job, kept>>

-----------------------------------------------------------------------------
Tailer  == TailPoll \/ TailRead \/ TailEOF
Adapter == BuildProbe \/ BuildStart \/ BuildWait \/ BuildStopTail \/ BuildReturn

BuildNext == Tailer \/ Adapter \/ ChildWrite \/ ChildExit \/ OrphanExit \/ StartBuild \/ CancelBuild

(* Goroutines run on, and a cancelled child is killed.  A child may run, and a *)
(* grandchild stay, forever.                                                   *)
BuildFairness ==
  /\ WF_bvars(TailPoll) /\ WF_bvars(TailRead \/ TailEOF) /\ WF_bvars(Adapter)
  /\ WF_bvars(run.cancelled /\ ChildExit)

BuildSpec == BuildInit /\ [][BuildNext]_bvars /\ BuildFairness

-----------------------------------------------------------------------------
(* Properties.                                                             *)

(* Line k ends within the first n units of the file. *)
EndsWithin(k, n) == \E i \in 1..n : i <= Len(file) /\ file[i] = NL /\ i > 1 /\ file[i - 1] = k

(* However the file is cut into reads, the sink gets the decodable lines in   *)
(* the order they were written, each once: all that fit the limit, none that  *)
(* exceed it by more than a chunk.  When Build returns, all that the child    *)
(* had written before Wait returned was read, and nothing of it refused as    *)
(* late (consume, stash, deliver; Build stops the tailer before it decodes).  *)
GivenIsTheFile ==
  tail.pc # "none" =>
    /\ \A i, j \in DOMAIN given : i < j => given[i] < given[j]
    /\ \A k \in 1..Len(Lines) :
         /\ (k \notin Bad /\ Lines[k] <= MaxLine /\ EndsWithin(k, tail.off)) => Contains(given, k)
         /\ Contains(given, k) => k \notin Bad /\ Lines[k] <= MaxLine + Chunk /\ EndsWithin(k, tail.off)
    /\ run.pc = "decode" => tail.off >= run.seen /\ kept = Len(given)

(* A cancelled build ends although a grandchild holds its pipes, and so does  *)
(* one whose child is gone: neither the tailer nor Wait is waited for forever. *)
BuildEnds == (run.cancelled \/ run.child = "gone") ~> ~job.running
=============================================================================
