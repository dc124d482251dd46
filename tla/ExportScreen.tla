---------------------------- MODULE ExportScreen ----------------------------
(***************************************************************************)
(* The screen that copies a bundle to a drive                              *)
(* (gui/frontend/src/screens/export.js) against the bound methods it calls: *)
(* what would be copied, the copy, and the check of the finished copy.      *)
(*                                                                         *)
(* Every call is sent, answered by the backend, and delivered to the        *)
(* screen, each in any order against the others.  Where the screen takes a  *)
(* new number (++planToken, ++statusSeq, ++verifySeq, ++entrySeq) it will   *)
(* ignore the answers to the earlier calls of that kind: a call that only   *)
(* reads is withdrawn then, one that starts something is marked.  The       *)
(* events say only that something happened, and are read again.             *)
(* Destinations already holding a partial copy, the wording and the closing *)
(* of the application are not modelled, nor that a bound method fails.      *)
(***************************************************************************)
EXTENDS Naturals, FiniteSets

CONSTANTS Sources,   \* bundle folders
          Places,    \* destinations
          Drives,    \* the ones that are mounted volumes; the others are folders
          Internal,  \* the drives that are not removable media
          HostOf,    \* the drive each place is on
          Subdirs,   \* what may be typed as the folder name
          Blank, BadName,  \* nothing typed, and a name with a separator in it
          Nothing,   \* no bundle, no destination
          MaxTime,   \* bound: seconds
          MaxCopies, \* bound: copies and checks
          MaxClicks  \* bound: what the operator does

VARIABLES
  copyJob,   \* the export job and its status; n counts copies, first is the first one of its second
  checkJob,  \* the verification job and its status; after is the last copy done when it began
  plugged,   \* the drives that are mounted
  building,  \* a build is running
  now,       \* the clock, in whole seconds
  told,      \* notices that were emitted and not delivered
  xs,        \* the screen, with its calls
  clicks

xvars == <<copyJob, checkJob, plugged, building, now, told, xs, clicks>>

Unanswered == [read |-> FALSE]
NoPlan == [made |-> FALSE]
NoCopy == [shown |-> FALSE]
NoKey == [set |-> FALSE]
NoVerdict == [given |-> FALSE]

ExportOptions(s) == [bundle |-> s.bundle, place |-> s.place, sub |-> s.sub, skip |-> s.skip]
(* exportRequest: a folder left blank is called like the bundle. *)
DestDir(o) == <<o.place, IF o.sub = Blank THEN o.bundle ELSE o.sub>>

Ask(s, op, arg) == [s EXCEPT !.calls = @ \cup {[op |-> op, arg |-> arg, reply |-> Unanswered]}]
Withdraw(s, ops) == [s EXCEPT !.calls = {c \in @ : c.op \notin ops}]

-----------------------------------------------------------------------------
(* What the handlers are made of.                                          *)

(* ++statusSeq: the pending read is ignored, and an entry reads again. *)
NextStatus(s) ==
  [Withdraw(s, {"status"}) EXCEPT !.calls = {IF c.op = "enter" THEN [c EXCEPT !.arg.again = TRUE] ELSE c : c \in @}]
RecoverStatus(s) == Ask(NextStatus(s), "status", Nothing)

VerificationContext(s) ==
  IF s.finished.shown /\ s.finished.copy.verified
    THEN LET j == s.finished.copy IN [set |-> TRUE, opts |-> j.opts, at |-> j.at, done |-> j.done]
    ELSE NoKey
ResetVerification(s) ==
  [Withdraw(s, {"checkStatus"}) EXCEPT
     !.calls = {IF c.op = "check" THEN [c EXCEPT !.arg.current = FALSE] ELSE c : c \in @},
     !.checkedCopy = NoKey, !.verdict = NoVerdict, !.checking = FALSE, !.starting = FALSE]
RecoverVerifyStatus(s) ==
  LET t == Withdraw(s, {"checkStatus"})
  IN IF VerificationContext(s).set THEN Ask(t, "checkStatus", VerificationContext(s)) ELSE t

PollVolumes(s) == IF s.running THEN s ELSE Ask(s, "volumes", Nothing)
StartPolling(s) == IF ~s.visible \/ s.running THEN [s EXCEPT !.polling = FALSE] ELSE [PollVolumes(s) EXCEPT !.polling = TRUE]

RunPlan(s) ==
  IF s.place = Nothing \/ s.bundle = Nothing \/ s.running THEN s
  ELSE LET t == Withdraw(s, {"plan"})
       IN IF s.sub = BadName THEN [t EXCEPT !.planning = FALSE, !.plan = NoPlan]
          ELSE Ask([t EXCEPT !.planning = TRUE, !.planError = FALSE], "plan", ExportOptions(s))

SelectDestination(s, p) ==
  IF s.running \/ (s.place = p /\ s.isVolume = (p \in Drives)) THEN s
  ELSE RunPlan(ResetVerification([s EXCEPT !.place = p, !.isVolume = p \in Drives, !.missing = FALSE, !.confirmed = FALSE,
                                           !.plan = NoPlan, !.planError = FALSE, !.finished = NoCopy]))

ResetForAnotherCopy(s) ==
  IF s.running THEN s
  ELSE ResetVerification([Withdraw(NextStatus(s), {"plan"}) EXCEPT
         !.accept = FALSE, !.jobAt = 0, !.planning = FALSE, !.skip = FALSE, !.sub = Blank, !.missing = FALSE, !.finished = NoCopy,
         !.plan = NoPlan, !.planError = FALSE, !.place = Nothing, !.isVolume = FALSE, !.confirmed = FALSE])
SetSource(s, b) ==
  [NextStatus(ResetForAnotherCopy(s)) EXCEPT !.accept = FALSE, !.jobAt = 0, !.bundle = b]

OnExportFinished(s, j) ==
  StartPolling([s EXCEPT !.running = FALSE, !.finished = [shown |-> TRUE, copy |-> j], !.cancelling = FALSE])
ApplyExportStatus(s, j) ==
  IF j.running
    THEN [ResetVerification([s EXCEPT !.bundle = j.opts.bundle, !.jobAt = j.at, !.accept = TRUE, !.running = TRUE, !.finished = NoCopy,
                                      !.place = j.opts.place]) EXCEPT !.polling = FALSE]
  ELSE IF j.done > 0 /\ s.accept /\ s.bundle \in {Nothing, j.opts.bundle} /\ s.jobAt \in {0, j.at}
    THEN OnExportFinished([s EXCEPT !.bundle = j.opts.bundle, !.place = j.opts.place, !.jobAt = j.at], j)
  ELSE s

(* needsInternalConfirm and renderActions. *)
NeedsConfirm(s) == HostOf[s.place] \in s.drives \cap Internal
CanStart(s) ==
  /\ ~s.running /\ ~s.building /\ ~s.choosing /\ s.bundle # Nothing /\ s.place # Nothing /\ ~s.missing
  /\ ~s.planning /\ ~s.planError /\ s.sub # BadName /\ s.plan.made
  /\ ~NeedsConfirm(s) \/ s.confirmed

-----------------------------------------------------------------------------
(* The screen before it is first shown, and the jobs before there was any.  *)
Mounted ==
  [visible |-> FALSE, bundle |-> Nothing, place |-> Nothing, isVolume |-> FALSE, missing |-> FALSE, confirmed |-> FALSE, skip |-> FALSE,
   sub |-> Blank, plan |-> NoPlan, planning |-> FALSE, planError |-> FALSE, running |-> FALSE, finished |-> NoCopy, accept |-> TRUE,
   jobAt |-> 0, cancelling |-> FALSE, verdict |-> NoVerdict, checking |-> FALSE, starting |-> FALSE, checkedCopy |-> NoKey,
   choosing |-> FALSE, building |-> FALSE, drives |-> {}, polling |-> FALSE, calls |-> {}]
NoJob == [n |-> 0, first |-> 0, running |-> FALSE, opts |-> ExportOptions(Mounted), at |-> 0, done |-> 0, verified |-> FALSE, stop |-> FALSE]
NoCheckJob == [n |-> 0, running |-> FALSE, path |-> DestDir(ExportOptions(Mounted)), at |-> 0, done |-> FALSE, after |-> 0]

ScreenInit ==
  /\ copyJob = NoJob /\ checkJob = NoCheckJob /\ plugged = Drives /\ building = FALSE
  /\ now = 1 /\ told = {} /\ xs = Mounted /\ clicks = 0

-----------------------------------------------------------------------------
(* What the operator does.  Setting up is hidden while a copy runs or its    *)
(* outcome is shown.                                                         *)

Click(s) == clicks < MaxClicks /\ clicks' = clicks + 1 /\ xs' = s /\ UNCHANGED <<copyJob, checkJob, plugged, building, now, told>>
SettingUp == xs.visible /\ ~xs.running /\ ~xs.finished.shown

(* show: with a bundle just built, to choose a bundle, or as it was. *)
Show(mode, b) ==
  /\ ~xs.visible
  /\ Click(Ask(NextStatus([Withdraw(xs, {"enter", "folder", "pick", "checkStatus"}) EXCEPT !.visible = TRUE]),
               "enter", [mode |-> mode, bundle |-> b, again |-> FALSE]))
Hide ==
  /\ xs.visible
  /\ Click([Withdraw(xs, {"enter", "folder", "pick", "checkStatus"}) EXCEPT !.visible = FALSE, !.choosing = FALSE, !.polling = FALSE])

ChooseDrive(p) == SettingUp /\ p \in xs.drives /\ Click(SelectDestination(xs, p))
ChooseFolder == SettingUp /\ Click(Ask(xs, "folder", Nothing))
ChooseBundle == xs.visible /\ ~xs.running /\ ~xs.choosing /\ Click(Ask([xs EXCEPT !.choosing = TRUE], "pick", FALSE))
(* Typing the folder name, and leaving the field. *)
TypeSubdir(v) == SettingUp /\ v # xs.sub /\ Click([Withdraw(xs, {"plan"}) EXCEPT !.sub = v, !.planning = FALSE, !.plan = NoPlan])
PlanAgain == SettingUp /\ (xs.planError \/ ~xs.plan.made) /\ Click(RunPlan(xs))
ToggleSkip == SettingUp /\ Click(RunPlan([xs EXCEPT !.skip = ~@]))
Confirm == SettingUp /\ xs.place # Nothing /\ NeedsConfirm(xs) /\ Click([xs EXCEPT !.confirmed = ~@])

StartExport ==
  /\ SettingUp /\ CanStart(xs)
  /\ Click(Ask(ResetVerification([xs EXCEPT !.finished = NoCopy, !.running = TRUE, !.accept = TRUE, !.jobAt = 0, !.polling = FALSE]),
               "start", [opts |-> ExportOptions(xs), plan |-> xs.plan]))
CancelExport == xs.visible /\ xs.running /\ ~xs.cancelling /\ Click(Ask([xs EXCEPT !.cancelling = TRUE], "cancel", Nothing))
CopyAnother == xs.visible /\ xs.finished.shown /\ Click(PollVolumes(ResetForAnotherCopy(xs)))

StartVerify ==
  LET key == VerificationContext(xs)
  IN /\ xs.visible /\ key.set /\ ~xs.checking /\ ~xs.starting
     /\ Click(Ask([Withdraw(xs, {"checkStatus"}) EXCEPT !.checkedCopy = key, !.starting = TRUE, !.checking = TRUE, !.verdict = NoVerdict,
                     !.calls = {IF c.op = "check" THEN [c EXCEPT !.arg.current = FALSE] ELSE c : c \in @}],
                  "check", [path |-> DestDir(key.opts), key |-> key, current |-> TRUE]))

(* The interval of startPolling. *)
Poll ==
  /\ xs.visible /\ xs.polling
  /\ xs' = PollVolumes(xs) /\ UNCHANGED <<copyJob, checkJob, plugged, building, now, told, clicks>>

-----------------------------------------------------------------------------
(* The bound methods.                                                       *)

(* A method that only reads: what it may answer. *)
Reads(c) ==
  CASE c.op = "status" -> {[read |-> TRUE, job |-> copyJob]}
    [] c.op = "enter" -> {[read |-> TRUE, job |-> copyJob, building |-> building]}
    [] c.op = "checkStatus" -> {[read |-> TRUE, job |-> checkJob]}
    [] c.op = "plan" -> {[read |-> TRUE, ok |-> ok] : ok \in BOOLEAN}
    [] c.op = "volumes" -> {[read |-> TRUE, drives |-> plugged]}
    [] c.op = "folder" -> {[read |-> TRUE, path |-> p] : p \in (Places \ Drives) \cup {Nothing}}
    [] c.op = "pick" -> {[read |-> TRUE, path |-> b] : b \in Sources \cup {Nothing}}
Replied(c, r) == xs' = [xs EXCEPT !.calls = (@ \ {c}) \cup {[c EXCEPT !.reply = r]}]
Reply(c) ==
  /\ ~c.reply.read /\ c.op \notin {"start", "check", "cancel"}
  /\ \E r \in Reads(c) : Replied(c, r)
  /\ UNCHANGED <<copyJob, checkJob, plugged, building, now, told, clicks>>

(* StartExport, unless a build or a copy runs; CancelExport; StartVerify. *)
StartsCopy(c) ==
  /\ ~c.reply.read /\ c.op = "start"
  /\ LET ok == ~copyJob.running /\ ~building
     IN /\ Replied(c, [read |-> TRUE, ok |-> ok])
        /\ IF ok THEN /\ copyJob.n < MaxCopies
                      /\ copyJob' = [NoJob EXCEPT !.n = copyJob.n + 1, !.first = IF copyJob.at = now THEN copyJob.first ELSE copyJob.n + 1,
                                              !.running = TRUE, !.opts = c.arg.opts, !.at = now]
                      /\ told' = told \cup {"export"}
                 ELSE UNCHANGED <<copyJob, told>>
  /\ UNCHANGED <<checkJob, plugged, building, now, clicks>>
StopsCopy(c) ==
  /\ ~c.reply.read /\ c.op = "cancel"
  /\ Replied(c, [read |-> TRUE])
  /\ copyJob' = [copyJob EXCEPT !.stop = @ \/ copyJob.running]
  /\ UNCHANGED <<checkJob, plugged, building, now, told, clicks>>
StartsCheck(c) ==
  /\ ~c.reply.read /\ c.op = "check"
  /\ Replied(c, [read |-> TRUE, ok |-> ~checkJob.running])
  /\ IF checkJob.running THEN UNCHANGED <<checkJob, told>>
     ELSE /\ checkJob.n < MaxCopies
          /\ checkJob' = [n |-> checkJob.n + 1, running |-> TRUE, path |-> c.arg.path, at |-> now, done |-> FALSE,
                          after |-> IF copyJob.running THEN copyJob.n - 1 ELSE copyJob.n]
          /\ told' = told \cup {"verify"}
  /\ UNCHANGED <<copyJob, plugged, building, now, clicks>>

(* The jobs, and the machine.  A copy that was not stopped may still fail.  *)
CopyProgress == copyJob.running /\ told' = told \cup {"export"} /\ UNCHANGED <<copyJob, checkJob, plugged, building, now, xs, clicks>>
CopyEnds ==
  /\ copyJob.running
  /\ \E good \in BOOLEAN : copyJob' = [copyJob EXCEPT !.running = FALSE, !.done = now, !.verified = good /\ ~copyJob.opts.skip /\ ~copyJob.stop]
  /\ told' = told \cup {"export"} /\ UNCHANGED <<checkJob, plugged, building, now, xs, clicks>>
CheckEnds ==
  /\ checkJob.running /\ checkJob' = [checkJob EXCEPT !.running = FALSE, !.done = TRUE]
  /\ told' = told \cup {"verify"} /\ UNCHANGED <<copyJob, plugged, building, now, xs, clicks>>
BuildStartsOrEnds ==
  /\ ~copyJob.running /\ building' = ~building /\ told' = (told \ {"building", "built"}) \cup {IF building THEN "built" ELSE "building"}
  /\ UNCHANGED <<copyJob, checkJob, plugged, now, xs, clicks>>
Plug(d) ==
  /\ plugged' = IF d \in plugged THEN plugged \ {d} ELSE plugged \cup {d}
  /\ UNCHANGED <<copyJob, checkJob, building, now, told, xs, clicks>>
Tick == now < MaxTime /\ now' = now + 1 /\ UNCHANGED <<copyJob, checkJob, plugged, building, told, xs, clicks>>

-----------------------------------------------------------------------------
(* What the screen does with an answer.                                     *)

PlanAnswer(s, c) ==
  IF s.running THEN s
  ELSE IF c.reply.ok THEN [s EXCEPT !.planning = FALSE, !.planError = FALSE, !.plan = [made |-> TRUE, opts |-> c.arg]]
  ELSE [s EXCEPT !.planning = FALSE, !.planError = TRUE, !.plan = NoPlan]

StartAnswer(s, c) ==
  IF c.reply.ok THEN RecoverStatus(s)
  ELSE StartPolling([NextStatus(s) EXCEPT !.accept = FALSE, !.running = FALSE, !.planError = TRUE, !.plan = NoPlan])

(* The check that was started for the copy that is shown. *)
CheckAnswer(s, c) ==
  IF ~c.arg.current \/ c.arg.key # VerificationContext(s) THEN s
  ELSE IF c.reply.ok THEN RecoverVerifyStatus([s EXCEPT !.starting = FALSE])
  ELSE [Withdraw(s, {"checkStatus"}) EXCEPT !.starting = FALSE, !.checkedCopy = NoKey, !.checking = FALSE]

\* Mutant of AfterCopy: a check of the second in which the copy ended counts.
AfterCopyOrSame(j, key) == j.at >= key.done
(* started > copied, in whole seconds. *)
AfterCopy(j, key) == j.at > key.done
CheckStatusAnswer(s, c) ==
  LET j == c.reply.job
      key == c.arg
      current == /\ j.n > 0 /\ j.path = DestDir(key.opts)
                 /\ AfterCopy(j, key) \/ (s.checkedCopy = key /\ j.at >= key.done) \/ (j.running /\ j.at >= key.done)
  IN IF key # VerificationContext(s) \/ (s.starting /\ ~j.running) THEN s
     ELSE [s EXCEPT !.checking = current /\ j.running,
                    !.verdict = IF current /\ j.done THEN [given |-> TRUE, check |-> j] ELSE NoVerdict]

VolumesAnswer(s, c) ==
  LET gone == s.place # Nothing /\ s.isVolume /\ s.place \notin c.reply.drives
      t == [s EXCEPT !.drives = c.reply.drives, !.missing = gone]
  IN IF ~s.visible THEN s
     ELSE IF gone /\ ~s.missing THEN [Withdraw(t, {"plan"}) EXCEPT !.planning = FALSE, !.plan = NoPlan, !.planError = FALSE]
     ELSE t

(* The folder and the bundle pickers. *)
FolderAnswer(s, c) == IF s.running \/ c.reply.path = Nothing THEN s ELSE SelectDestination(s, c.reply.path)
PickAnswer(s, c) ==
  LET t == [s EXCEPT !.choosing = FALSE]
  IN IF s.running \/ c.reply.path = Nothing THEN t ELSE SetSource(t, c.reply.path)

(* show, after its reads: again if a newer read or notice came between. *)
EnterAnswer(s, c) ==
  LET t == [s EXCEPT !.building = c.reply.building]
      idle == [t EXCEPT !.running = FALSE]
  IN CASE c.arg.again -> Ask(NextStatus(s), "enter", [c.arg EXCEPT !.again = FALSE])
       [] ~c.arg.again /\ c.reply.job.running -> ApplyExportStatus(t, c.reply.job)
       [] ~c.arg.again /\ ~c.reply.job.running /\ c.arg.mode = "choose" ->
            Ask([StartPolling(SetSource(idle, Nothing)) EXCEPT !.choosing = TRUE], "pick", TRUE)
       [] OTHER -> StartPolling(RecoverVerifyStatus(
            IF c.arg.bundle # Nothing /\ (c.arg.bundle # s.bundle \/ c.arg.mode = "result") THEN SetSource(idle, c.arg.bundle)
            ELSE ApplyExportStatus(idle, c.reply.job)))

Deliver(c) ==
  LET s == [xs EXCEPT !.calls = @ \ {c}]
  IN /\ c.reply.read
     /\ xs' = CASE c.op = "plan" -> PlanAnswer(s, c) [] c.op = "start" -> StartAnswer(s, c) [] c.op = "cancel" -> RecoverStatus(s)
               [] c.op = "status" -> ApplyExportStatus(s, c.reply.job) [] c.op = "check" -> CheckAnswer(s, c)
               [] c.op = "checkStatus" -> CheckStatusAnswer(s, c) [] c.op = "volumes" -> VolumesAnswer(s, c)
               [] c.op = "folder" -> FolderAnswer(s, c) [] c.op = "pick" -> PickAnswer(s, c) [] c.op = "enter" -> EnterAnswer(s, c)
     /\ UNCHANGED <<copyJob, checkJob, plugged, building, now, told, clicks>>

(* The events; a lifecycle event makes an entry read again. *)
OnLifecycle(s, b) == [s EXCEPT !.building = b, !.calls = {IF c.op = "enter" THEN [c EXCEPT !.arg.again = TRUE] ELSE c : c \in @}]
Notice(e) ==
  /\ e \in told /\ told' = told \ {e}
  /\ xs' = CASE e = "export" -> RecoverStatus(xs) [] e = "verify" -> RecoverVerifyStatus(xs)
            [] e = "building" -> OnLifecycle(xs, TRUE) [] e = "built" -> OnLifecycle(xs, FALSE)
  /\ UNCHANGED <<copyJob, checkJob, plugged, building, now, clicks>>

-----------------------------------------------------------------------------
Operator ==
  \/ \E b \in Sources \cup {Nothing}, mode \in {"stay", "result", "choose"} : Show(mode, b)
  \/ Hide \/ ChooseFolder \/ ChooseBundle \/ PlanAgain \/ ToggleSkip \/ Confirm
  \/ \E p \in Drives : ChooseDrive(p)
  \/ \E v \in Subdirs : TypeSubdir(v)
  \/ StartExport \/ CancelExport \/ CopyAnother \/ StartVerify
Answers == \E c \in xs.calls : Reply(c) \/ StartsCopy(c) \/ StopsCopy(c) \/ StartsCheck(c) \/ Deliver(c)
Machine == CopyProgress \/ CopyEnds \/ CheckEnds \/ BuildStartsOrEnds \/ Tick \/ \E d \in Drives : Plug(d)

ScreenNext == Operator \/ Poll \/ Answers \/ Machine \/ \E e \in told : Notice(e)
ScreenSpec == ScreenInit /\ [][ScreenNext]_xvars

-----------------------------------------------------------------------------

(* The screen speaks of this copy.  The options sent with StartExport are the *)
(* ones of the plan that was shown, whichever answers came late and whatever  *)
(* was chosen, typed, unplugged or shown in between; and a verdict is about   *)
(* the copy on the screen: that check looked at its folder and began after    *)
(* this copy had ended, also when calls overtake StartExport (export.js:1724) *)
(* and the earlier copy is shown again meanwhile, when an earlier check of    *)
(* the same folder ends late, and within one second.  The screen knows a copy *)
(* by the second it began in: of copies of one folder begun in one second,    *)
(* the check may have followed an earlier one.  (runPlan, selectDestination,  *)
(* startExport, applyExportStatus, recoverVerifyStatus and                    *)
(* verificationContext in export.js.)                                         *)
ScreenIsOfThisCopy ==
  /\ \A c \in xs.calls : c.op = "start" => c.arg.plan.opts = c.arg.opts
  /\ xs.verdict.given => /\ xs.finished.shown /\ xs.verdict.check.path = DestDir(xs.finished.copy.opts)
                         /\ xs.verdict.check.after >= xs.finished.copy.first
=============================================================================
