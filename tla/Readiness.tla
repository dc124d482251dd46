----------------------------- MODULE Readiness -----------------------------
(***************************************************************************)
(* The system check: the probes of gui/internal/readiness and the verdict   *)
(* derived from them, the readiness job of gui/internal/app/bindings.go,    *)
(* and the screen (gui/frontend/src/screens/readiness.js).                  *)
(*                                                                         *)
(* A row is what a check concluded: ok, skipped, or a problem by its        *)
(* severity, and whether it offers a command the application will run.      *)
(* The probes of a pass answer one by one while the machine may change.     *)
(* A call of the screen is sent, served and answered; events arrive in the  *)
(* order of their emission.  A handler that takes a new number              *)
(* (++reportEpoch, ++refreshRequest) makes the screen ignore an earlier     *)
(* read, so the model withdraws it.                                         *)
(***************************************************************************)
EXTENDS Integers, Sequences

CONSTANTS Hosts,       \* "linux", "windows", "other"
          Machines,    \* the machines a check may meet
          NoCheck,     \* no row
          MaxMachineChanges,  \* bound: changes of the machine
          MaxPresses   \* bound: what the operator does

(* Of a machine, what the checks and the engine ask.  A file to mount is "ok", *)
(* "wrong" or "absent": the one the environment names, the one the config key   *)
(* self_binary names ("none" for neither), what lies beside the program in the  *)
(* order it is looked at, and the program itself.                               *)
ASSUME ReadinessAssumption ==
  /\ Hosts \subseteq {"linux", "windows", "other"}
  /\ \A m \in Machines :
       /\ DOMAIN m = {"bin", "apt", "docker", "podman", "named", "config", "siblings", "program", "key", "disk", "wsl"}
       /\ Len(m.siblings) \in Nat /\ DOMAIN m.siblings = 1..Len(m.siblings)
  /\ NoCheck \notin {"debark", "container", "signing-key", "disk-space", "apt", "wsl", "self-binary", "build-environment"}

VARIABLES
  host,   \* the operating system
  mach,   \* what the checks ask of the machine; disk and wsl never block
  rd,     \* the application: rows, checking, running, job
  late,   \* what the last job's goroutine has still to emit
  told,   \* events emitted and not delivered
  rs,     \* the screen, with its calls
  spent   \* bounds: changes and presses so far

rvars == <<host, mach, rd, late, told, rs, spent>>

Environment == "build-environment"
Platform(h) == CASE h = "linux" -> {"apt"} [] h = "windows" -> {"wsl", "self-binary"} [] OTHER -> {"self-binary"}
Checks == {"debark", "container", "signing-key", "disk-space"} \cup Platform(host)
NoRows == [id \in {} |-> NoCheck]

-----------------------------------------------------------------------------
(* The checks.  killed: the pass was cancelled before the command answered. *)

RowOk == [is |-> "ok", runs |-> FALSE]
RowSkipped == [is |-> "skipped", runs |-> FALSE]
Problem(severity, runs) == [is |-> severity, runs |-> runs]

DecideBinary(m, killed) ==
  IF m.bin = "absent" THEN Problem("blocking", FALSE)
  ELSE IF m.bin = "mute" \/ killed THEN Problem("degraded", TRUE)
  ELSE RowOk

(* docker and podman are asked in turn under one deadline, which a docker that *)
(* hangs uses up.  The commands offered here need privilege or only show.      *)
DecideContainer(m, killed) ==
  IF ~killed /\ (m.docker = "ok" \/ (m.docker \in {"absent", "off"} /\ m.podman = "ok"))
  THEN RowOk ELSE Problem("degraded", FALSE)

DecideAPT(m, killed) == IF m.apt /\ ~killed THEN RowOk ELSE Problem("degraded", FALSE)
DecideWSL(m, killed) == IF m.wsl /\ ~killed THEN RowOk ELSE Problem("degraded", FALSE)

(* A path the environment names is the only candidate; the first file present    *)
(* decides.  The config key is not read: nothing sets Options.SelfBinaryPath.     *)
SelfCandidates(m) ==
  IF m.named # "none" THEN <<m.named>> ELSE IF m.bin = "absent" THEN <<>> ELSE m.siblings
DecideSelfBinary(m) ==
  LET f == SelfCandidates(m)
      present == {i \in DOMAIN f : f[i] # "absent"}
      first == CHOOSE i \in present : \A j \in present : i <= j
  IN IF m.named = "none" /\ m.bin = "absent" THEN Problem("degraded", FALSE)
     ELSE IF present # {} /\ f[first] = "ok" THEN RowOk ELSE Problem("degraded", TRUE)

DecideSigningKey(m) == IF m.key THEN RowOk ELSE Problem("info", TRUE)
DecideDisk(m) ==
  CASE m.disk = "unmeasured" -> RowSkipped [] m.disk = "low" -> Problem("degraded", FALSE) [] OTHER -> RowOk

Decide(id, m, killed) ==
  CASE id = "debark" -> DecideBinary(m, killed)
    [] id = "container" -> DecideContainer(m, killed)
    [] id = "apt" -> DecideAPT(m, killed)
    [] id = "wsl" -> DecideWSL(m, killed)
    [] id = "self-binary" -> DecideSelfBinary(m)
    [] id = "signing-key" -> DecideSigningKey(m)
    [] OTHER -> DecideDisk(m)

IsProblem(rows, id) == id \in DOMAIN rows /\ rows[id].is \in {"info", "degraded", "blocking"}
IsOk(rows, id) == id \in DOMAIN rows /\ rows[id].is = "ok"

(* Native apt, or a container a Linux debark can run in; WSL is no route. *)
DeriveBuildEnvironment(rows) ==
  IF DOMAIN rows \cap {"apt", "container"} = {} THEN RowSkipped
  ELSE IF IsOk(rows, "apt") \/ (IsOk(rows, "container") /\ ~IsProblem(rows, "self-binary")) THEN RowOk
  ELSE Problem("blocking", FALSE)
Derived(rows) ==
  [id \in DOMAIN rows \cup {Environment} |-> IF id = Environment THEN DeriveBuildEnvironment(rows) ELSE rows[id]]

(* Mutant of ReportWith: the verdict keeps its old value. *)
ReportWithOldVerdict(rows, id, row) == [rows EXCEPT ![id] = row]
(* Report.With: one row replaced and the verdict derived again. *)
ReportWith(rows, id, row) == Derived([rows EXCEPT ![id] = row])

(* What recount and bindRemoteBuilder read off the rows. *)
CanBuild(rows) == rows # NoRows /\ \A id \in DOMAIN rows : rows[id].is # "blocking"
RemoteBuilder(rows) ==
  \/ IsProblem(rows, Environment)
  \/ host = "windows" /\ \E id \in {"container", "self-binary"} : IsProblem(rows, id)

-----------------------------------------------------------------------------
(* The job.                                                                *)

Nothing == [is |-> "nothing"]
Accepted == [is |-> "ok"]
Refused == [is |-> "refused"]
NoJobRun == [op |-> "none"]
JobOf(op, ids) == [op |-> op, ids |-> ids, answers |-> NoRows, acted |-> op # "act", cancelled |-> FALSE]
Busy == rd.job.op # "none"
EventOf(name, id, rows, cancelled) == [name |-> name, id |-> id, rows |-> rows, cancelled |-> cancelled]

ReadinessInit ==
  /\ host \in Hosts /\ mach \in Machines
  /\ rd = [rows |-> NoRows, checking |-> FALSE, running |-> NoCheck, job |-> NoJobRun]
  /\ late = <<>> /\ told = <<>>
  /\ rs = [mounted |-> FALSE, visible |-> FALSE, rows |-> NoRows, checking |-> FALSE, running |-> NoCheck, starting |-> FALSE,
           started |-> FALSE, cancelled |-> FALSE, consent |-> NoCheck, calls |-> {[op |-> "boot", id |-> NoCheck, got |-> Nothing]}]
  /\ spent = [changes |-> 0, presses |-> 0]

MachineChanges ==
  /\ spent.changes < MaxMachineChanges
  /\ mach' \in Machines \ {mach} /\ spent' = [spent EXCEPT !.changes = @ + 1]
  /\ UNCHANGED <<host, rd, late, told, rs>>

(* The remedy of a row: the key is made, or the command fails or only shows. *)
RunAction ==
  /\ Busy /\ ~rd.job.acted
  /\ mach' \in {mach} \cup IF rd.job.ids = {"signing-key"} /\ ~rd.job.cancelled THEN {[mach EXCEPT !.key = TRUE]} ELSE {}
  /\ rd' = [rd EXCEPT !.job.acted = TRUE]
  /\ UNCHANGED <<host, late, told, rs, spent>>

Probe(id) ==
  /\ Busy /\ rd.job.acted /\ id \in rd.job.ids \ DOMAIN rd.job.answers
  /\ rd' = [rd EXCEPT !.job.answers = [i \in DOMAIN @ \cup {id} |-> IF i = id THEN Decide(id, mach, rd.job.cancelled) ELSE @[i]]]
  /\ UNCHANGED <<host, mach, late, told, rs, spent>>

(* The goroutine finishes under the lock and emits after it; a goroutine emits *)
(* before the next job has run its course.                                      *)
AllAnswered == Busy /\ rd.job.acted /\ DOMAIN rd.job.answers = rd.job.ids /\ late = <<>>
FinishPass ==
  /\ AllAnswered /\ rd.job.op = "pass"
  /\ rd' = [rd EXCEPT !.rows = Derived(rd.job.answers), !.checking = FALSE, !.running = NoCheck, !.job = NoJobRun]
  /\ late' = <<EventOf("finished", NoCheck, rd'.rows, rd.job.cancelled)>>
  /\ UNCHANGED <<host, mach, told, rs, spent>>
FinishOne ==
  /\ AllAnswered /\ rd.job.op # "pass"
  /\ \E id \in rd.job.ids :
       /\ rd' = [rd EXCEPT !.rows = ReportWith(@, id, rd.job.answers[id]), !.running = NoCheck, !.job = NoJobRun]
       /\ late' = <<EventOf("done", id, NoRows, FALSE), EventOf("finished", id, rd'.rows, rd.job.cancelled)>>
  /\ UNCHANGED <<host, mach, told, rs, spent>>
EmitLate ==
  /\ late # <<>> /\ told' = Append(told, Head(late)) /\ late' = Tail(late)
  /\ UNCHANGED <<host, mach, rd, rs, spent>>

-----------------------------------------------------------------------------
(* The bound methods, each in one step under the lock.                     *)

Served(c, got) == rs' = [rs EXCEPT !.calls = (@ \ {c}) \cup {[c EXCEPT !.got = got]}]

Readiness(c) ==
  /\ c.op = "read"
  /\ Served(c, [is |-> "report", rows |-> rd.rows, checking |-> rd.checking, running |-> rd.running])
  /\ UNCHANGED <<rd, told>>

StartReadinessCheck(c) ==
  /\ c.op \in {"boot", "start", "startIfEmpty"}
  /\ \/ Busy /\ Served(c, Refused) /\ UNCHANGED <<rd, told>>
     \/ /\ ~Busy /\ Served(c, Accepted)
        /\ rd' = [rd EXCEPT !.checking = TRUE, !.running = NoCheck, !.job = JobOf("pass", Checks)]
        /\ told' = Append(told, EventOf("started", NoCheck, rd.rows, FALSE))

(* A fix is also refused while a build or a copy runs. *)
RunReadiness(c) ==
  /\ c.op \in {"recheck", "act"}
  /\ \/ (Busy \/ c.op = "act") /\ Served(c, Refused) /\ UNCHANGED <<rd, told>>
     \/ /\ ~Busy /\ (c.op = "act" => rd.rows[c.id].runs)
        /\ Served(c, Accepted)
        /\ rd' = [rd EXCEPT !.running = c.id, !.job = JobOf(c.op, {c.id})]
        /\ told' = Append(told, EventOf("progress", c.id, NoRows, FALSE))

CancelReadinessCheck(c) ==
  /\ c.op = "cancel" /\ Served(c, Accepted)
  /\ rd' = IF Busy THEN [rd EXCEPT !.job.cancelled = TRUE] ELSE rd
  /\ UNCHANGED told

Serve(c) ==
  /\ c.got = Nothing
  /\ Readiness(c) \/ StartReadinessCheck(c) \/ RunReadiness(c) \/ CancelReadinessCheck(c)
  /\ UNCHANGED <<host, mach, late, spent>>

-----------------------------------------------------------------------------
(* The screen.                                                             *)

Ask(s, op, id) == [s EXCEPT !.calls = @ \cup {[op |-> op, id |-> id, got |-> Nothing]}]
Withdraw(s) == [s EXCEPT !.calls = {c \in @ : c.op # "read"}]
RefreshFromBackend(s) == Ask(Withdraw(s), "read", NoCheck)
InUse(s) == s.checking \/ s.running # NoCheck \/ s.starting
FailedStart(s) == [s EXCEPT !.starting = FALSE, !.checking = FALSE, !.running = NoCheck]
SetRunning(s, id) == [s EXCEPT !.cancelled = FALSE, !.running = id, !.consent = NoCheck]

Press(s) ==
  /\ spent.presses < MaxPresses /\ spent' = [spent EXCEPT !.presses = @ + 1]
  /\ rs' = s /\ UNCHANGED <<host, mach, rd, late, told>>

ShowScreen ==
  ~rs.visible /\ Press(RefreshFromBackend([rs EXCEPT !.mounted = TRUE, !.visible = TRUE, !.starting = @ \/ (~rs.started /\ rs.rows = NoRows)]))
HideScreen == rs.visible /\ Press([rs EXCEPT !.visible = FALSE, !.consent = NoCheck])

OnRecheck(id) ==
  /\ rs.visible /\ ~InUse(rs) /\ rs.consent = NoCheck /\ id \in DOMAIN rs.rows \ {Environment}
  /\ Press(Ask(SetRunning(rs, id), "recheck", id))
OnRun(id) ==
  /\ rs.visible /\ ~InUse(rs) /\ rs.consent = NoCheck /\ id \in DOMAIN rs.rows /\ rs.rows[id].runs
  /\ Press([rs EXCEPT !.consent = id])
RunConsented == rs.consent # NoCheck /\ Press(Ask(SetRunning(rs, rs.consent), "act", rs.consent))
CloseConsent == rs.consent # NoCheck /\ Press([rs EXCEPT !.consent = NoCheck])
OnCancel == rs.visible /\ InUse(rs) /\ Press(Ask(rs, "cancel", NoCheck))
OnRecheckAll ==
  /\ rs.visible /\ ~InUse(rs) /\ rs.consent = NoCheck
  /\ Press(Ask([rs EXCEPT !.cancelled = FALSE, !.starting = TRUE, !.checking = TRUE], "start", NoCheck))

OnStarted(s, e) ==
  LET t == [s EXCEPT !.cancelled = FALSE, !.starting = TRUE, !.checking = TRUE]
  IN IF e.rows = NoRows THEN t ELSE [t EXCEPT !.rows = e.rows, !.running = NoCheck]
OnRowProgress(s, e) == [s EXCEPT !.running = IF e.name = "done" THEN NoCheck ELSE e.id]
OnFinished(s, e) ==
  [s EXCEPT !.consent = IF e.id \in {NoCheck, @} THEN NoCheck ELSE @, !.started = TRUE, !.starting = FALSE, !.cancelled = e.cancelled,
            !.rows = e.rows, !.checking = FALSE, !.running = NoCheck]
Handled(s, e) ==
  CASE e.name = "started" -> OnStarted(s, e) [] e.name = "finished" -> OnFinished(s, e) [] OTHER -> OnRowProgress(s, e)

(* Mutant of Heard: an event leaves a read in flight valid. *)
HeardKeepsRead(s, e) == Handled(s, e)
(* reportEpoch moves with every event. *)
Heard(s, e) == Withdraw(Handled(s, e))

(* A screen that was never shown hears nothing. *)
HearEvent ==
  /\ told # <<>> /\ told' = Tail(told)
  /\ rs' = IF rs.mounted THEN Heard(rs, Head(told)) ELSE rs
  /\ UNCHANGED <<host, mach, rd, late, spent>>

(* refreshFromBackend, once Readiness has answered; an empty report starts a pass. *)
ReadAnswer(s, got) ==
  LET known == got.rows # NoRows
      t == [s EXCEPT !.rows = got.rows, !.checking = got.checking, !.running = got.running, !.started = known,
                     !.starting = IF known THEN got.checking ELSE @]
  IN IF ~known /\ ~t.cancelled /\ ~got.checking /\ got.running = NoCheck
     THEN Ask([t EXCEPT !.starting = TRUE], "startIfEmpty", NoCheck) ELSE t
HearAnswer(c) ==
  /\ c.got # Nothing
  /\ LET s == [rs EXCEPT !.calls = @ \ {c}]
     IN rs' = CASE c.op = "read" -> ReadAnswer(s, c.got)
                [] c.op \in {"start", "recheck", "act"} /\ c.got = Refused -> FailedStart(s)
                [] OTHER -> s
  /\ UNCHANGED <<host, mach, rd, late, told, spent>>

-----------------------------------------------------------------------------
ReadinessNext ==
  \/ MachineChanges \/ RunAction \/ FinishPass \/ FinishOne \/ EmitLate
  \/ \E id \in Checks : Probe(id)
  \/ ShowScreen \/ HideScreen \/ RunConsented \/ CloseConsent \/ OnCancel \/ OnRecheckAll
  \/ \E id \in DOMAIN rs.rows : OnRecheck(id) \/ OnRun(id)
  \/ HearEvent \/ \E c \in rs.calls : Serve(c) \/ HearAnswer(c)

ReadinessSpec == ReadinessInit /\ [][ReadinessNext]_rvars

-----------------------------------------------------------------------------
(* What the engine needs of a machine: the command, and native apt or the   *)
(* first runtime on the PATH answering, with a Linux build of debark to mount *)
(* in it: the named one, else the first beside the program, else the program. *)
Engine(m) == IF m.docker # "absent" THEN m.docker ELSE m.podman
FirstBeside(m, is) == \E i \in DOMAIN m.siblings : m.siblings[i] = is /\ \A j \in 1..(i - 1) : m.siblings[j] = "absent"
MountFits(m) ==
  \/ m.named = "ok"
  \/ m.named = "none" /\ m.config = "ok"
  \/ m.named = "none" /\ m.config = "none" /\ FirstBeside(m, "ok")
  \/ /\ m.named = "none" /\ m.config = "none" /\ \A i \in DOMAIN m.siblings : m.siblings[i] = "absent"
     /\ host = "linux" /\ m.program = "ok"
EngineBuilds(m) == m.bin # "absent" /\ ((host = "linux" /\ m.apt) \/ (Engine(m) = "ok" /\ MountFits(m)))

(* Where the checks and the engine part: a runtime that is off hides the one  *)
(* behind it from the engine alone; a Linux host has no check of the file, and *)
(* none reads the config key.                                                  *)
OtherRuntime(m) == m.docker = "off" /\ m.podman = "ok"
ByConfig(m) == m.named = "none" /\ m.config # "none"

(* The build button follows the machine, however its rows came to be: once   *)
(* every row says what its check would find now, whether by one pass or by   *)
(* re-checking row after row while the machine changed and checks were       *)
(* cancelled, a build that the engine cannot run is offered only where the    *)
(* engine takes another runtime than the one that answered, or mounts a file  *)
(* that no check looks at and that does not fit; and where the engine can     *)
(* build, the button is up and building elsewhere is not advised, unless it   *)
(* is the config key, off Linux, that names the file (readiness.go:502 says   *)
(* that the application reads that key for the check; bindings.go:450 does    *)
(* not).                                                                      *)
VerdictIsOfTheMachine ==
  rd.rows # NoRows /\ (\A id \in Checks : rd.rows[id] = Decide(id, mach, FALSE)) =>
    IF EngineBuilds(mach)
    THEN (CanBuild(rd.rows) /\ ~RemoteBuilder(rd.rows)) \/ (host # "linux" /\ ByConfig(mach))
    ELSE CanBuild(rd.rows) => OtherRuntime(mach) \/ ((host = "linux" \/ ByConfig(mach)) /\ ~MountFits(mach))

(* Once nothing is under way, a screen that was opened shows the rows the    *)
(* application keeps and waits for nothing: no late answer puts an older      *)
(* report back, and no refused or overtaken start leaves a check spinning     *)
(* that refuses every button.                                                *)
QuietReadinessIsTrue ==
  rs.mounted /\ rs.calls = {} /\ told = <<>> /\ late = <<>> /\ ~Busy =>
    rs.rows = rd.rows /\ ~InUse(rs)
=============================================================================
