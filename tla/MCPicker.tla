------------------------------ MODULE MCPicker ------------------------------
(* Choosing packages and the system check, in six parts: the draft in the     *)
(* application (App with two targets and a build), the virtualised list, the  *)
(* marks and the tray of the picker screen, its status, the verdict on the    *)
(* machine, and the system check's screen.  A behaviour moves one of them.    *)
EXTENDS App, VirtualList, PickerScreen, Readiness, TLC

CONSTANTS t1, t2, vim, url, d1, MarkActs, StatusActs, MaxSearches, MaxEvents, VerdictPresses, ScreenPresses

(* t1 lists vim, t2 does not. *)
MCContent == [t \in {t1, t2} |-> IF t = t1 THEN {vim} ELSE {}]
MCOnce == [k \in Kinds |-> 1]
(* A text that the backend trims; the second build of the catalogue is smaller. *)
MCTrimmed(q) == IF q = "vi " THEN "vi" ELSE q
MCRows(q, v) == IF v = 1 THEN 4 ELSE 2


(* Docker and a Linux debark in the second place looked at; docker off before  *)
(* podman; the same beside apt; a wrong file first; docker hanging before      *)
(* podman, and a named Linux debark; a good and a wrong file that the config    *)
(* key names; no debark.                                                       *)
Good == [bin |-> "ok", apt |-> FALSE, docker |-> "ok", podman |-> "absent", named |-> "none",
         config |-> "none", siblings |-> <<"absent", "ok">>, program |-> "wrong", key |-> FALSE, disk |-> "ok", wsl |-> TRUE]
MCMachines ==
  {Good, [Good EXCEPT !.docker = "off", !.podman = "ok"], [Good EXCEPT !.docker = "off", !.apt = TRUE], [Good EXCEPT !.siblings = <<"wrong", "ok">>, !.disk = "low"],
   [Good EXCEPT !.docker = "hung", !.podman = "ok", !.named = "ok"],
   [Good EXCEPT !.siblings = <<"absent", "absent">>, !.config = "ok"], [Good EXCEPT !.config = "wrong"], [Good EXCEPT !.bin = "absent", !.disk = "unmeasured"]}
(* An order for the probes of a pass, which does not matter to them. *)
ProbeOrder == <<"disk-space", "signing-key", "apt", "wsl", "self-binary", "debark", "container">>

VARIABLE part   \* what this behaviour moves

MCInit ==
  /\ Init /\ ListInit /\ PickerInit /\ ReadinessInit
  /\ part \in {"draft", "list", "marks", "status", "verdict", "check"}
  /\ part # "verdict" => host = "linux" /\ mach = Good
  /\ host = "linux" => mach.siblings = Good.siblings
  /\ part # "marks" => back.sel = {}
  /\ part # "status" => back.state = "ready"

(* What a part is not about is answered before anything else happens. *)
Prompt(ops, names) ==
  LET calls(s) == {c \in s.calls : c.op \in ops}
      notices(E) == {e \in E : e.name \in names}
  IN calls(scr) # {} \/ notices(events) # {} => calls(scr') # calls(scr) \/ notices(events') # notices(events)
MarksStep ==
  /\ back'.tgen = back.tgen /\ back'.state = back.state /\ scr'.visible /\ scr'.pending = {}
  /\ back'.acts <= MarkActs
  /\ Prompt({"status", "newTarget"}, {"target"})
StatusStep ==
  /\ scr'.toggles = {} /\ ~scr'.opBusy /\ back'.acts <= StatusActs /\ Cardinality(events') <= MaxEvents
  /\ Prompt({"keys", "selection", "page"}, {"selection"})

PassStep ==
  Busy /\ rd.job.op = "pass" /\ rd'.job.op = "pass" =>
    \A i, j \in DOMAIN ProbeOrder :
      i < j /\ ProbeOrder[j] \in DOMAIN rd'.job.answers /\ ProbeOrder[i] \in Checks => ProbeOrder[i] \in DOMAIN rd'.job.answers
VerdictStep ==
  /\ PassStep /\ spent'.presses <= VerdictPresses /\ (rs.visible => rs'.visible)
  /\ rs'.running \notin {"disk-space", "signing-key"} /\ rs'.consent = NoCheck
  /\ rs.calls # {} \/ told # <<>> \/ late # <<>> => <<rs.calls, told, late>>' # <<rs.calls, told, late>>
CheckStep ==
  /\ PassStep /\ spent'.presses <= ScreenPresses /\ spent'.changes = 0
  /\ rs'.running \in {NoCheck, "signing-key"}
  /\ Busy /\ DOMAIN rd.job.answers \notin {{}, rd.job.ids} => rd'.job # rd.job

MCNext ==
  \/ part = "draft" /\ Next /\ life' = life /\ UNCHANGED <<lvars, pvars, rvars, part>>
  \/ part = "list" /\ ListNext /\ Cardinality(searches') <= MaxSearches /\ UNCHANGED <<vars, pvars, rvars, part>>
  \/ part = "marks" /\ PickerNext /\ MarksStep /\ UNCHANGED <<vars, lvars, rvars, part>>
  \/ part = "status" /\ PickerNext /\ StatusStep /\ UNCHANGED <<vars, lvars, rvars, part>>
  \/ part = "verdict" /\ ReadinessNext /\ VerdictStep /\ UNCHANGED <<vars, lvars, pvars, part>>
  \/ part = "check" /\ ReadinessNext /\ CheckStep /\ UNCHANGED <<vars, lvars, pvars, part>>

MCSpec == MCInit /\ [][MCNext]_<<vars, lvars, pvars, rvars, part>>

Symmetry == Permutations(Names)
=============================================================================
