------------------------------ MODULE MCExport ------------------------------
(* Copying a bundle to a drive, in four parts: the copy itself, the drives    *)
(* that are offered, the plan on the screen, and the check of the finished    *)
(* copy.  A behaviour moves one of them.                                      *)
EXTENDS Export, Volumes, ExportScreen

CONSTANTS f1, f2, c1, c2, c3, b1, stick, hard, folder, PlanClicks

\* c1 and c2 have the same length.
MCSize == [c \in {c1, c2, c3} |-> IF c = c3 THEN 2 ELSE 1]

(* A disk with two subvolumes bound elsewhere, a stick mounted below /run and *)
(* elsewhere, a share, and a filesystem of the kernel over a mount point.     *)
Line(dev, root, point, fs, bus) == [dev |-> dev, root |-> root, point |-> point, fs |-> fs, bus |-> bus, flag |-> FALSE]
MCEntries ==
  {Line(1, <<>>, <<>>, "disk", "pci"), Line(1, <<7>>, <<9>>, "disk", "pci"), Line(1, <<8>>, <<3, 4>>, "disk", "pci"),
   Line(2, <<>>, <<5, 3, 4>>, "disk", "usb"), Line(2, <<>>, <<9>>, "disk", "usb"), Line(2, <<7>>, <<1>>, "disk", "usb"),
   Line(3, <<>>, <<9>>, "pseudo", "none"), Line(4, <<>>, <<9>>, "network", "none")}

(* The folder is on the internal disk. *)
MCHost == [p \in Places |-> IF p = stick THEN stick ELSE hard]

VARIABLE part   \* what this behaviour moves

(* The screen after a bundle was given to it, and after it copied that to the stick. *)
Given == [Mounted EXCEPT !.visible = TRUE, !.bundle = b1, !.accept = FALSE, !.drives = Drives, !.polling = TRUE]
FirstCopy ==
  [NoJob EXCEPT !.n = 1, !.first = 1, !.opts = [bundle |-> b1, place |-> stick, sub |-> Blank, skip |-> FALSE], !.at = 1, !.done = 1, !.verified = TRUE]
Copied == [Given EXCEPT !.accept = TRUE, !.jobAt = 1, !.place = stick, !.isVolume = TRUE, !.finished = [shown |-> TRUE, copy |-> FirstCopy]]

MCInit ==
  /\ Init
  /\ part \in {"copy", "drives", "plan", "check"}
  /\ part # "copy" => src = [n \in Names |-> c1]
  /\ IF part = "drives" THEN VolumesInit ELSE mounts = <<>> /\ looks = [p \in Points |-> "dir"] /\ vols = [listed |-> FALSE, rows |-> <<>>]
  /\ checkJob = NoCheckJob /\ plugged = Drives /\ building = FALSE /\ now = 1 /\ told = {} /\ clicks = 0
  /\ IF part = "check" THEN copyJob = FirstCopy /\ xs = Copied ELSE copyJob = NoJob /\ xs = Given

Asked(s, op) == {c \in s.calls : c.op = op}
(* In the part about the plan StartExport does not begin a copy: it is under   *)
(* way, whatever overtakes it, or refused.                                     *)
PlanStep ==
  /\ hard \in plugged'
  /\ UNCHANGED <<copyJob, now>> /\ xs'.visible /\ clicks' <= PlanClicks
  /\ Cardinality(Asked(xs', "volumes")) <= 1
(* The part about checks: one destination, and the drives stay.  Any call may  *)
(* overtake StartExport.                                                       *)
CheckStep ==
  /\ UNCHANGED <<plugged, building>> /\ ~xs'.skip /\ xs'.sub = Blank /\ xs'.place \in {stick, Nothing} /\ ~xs'.choosing
  /\ Asked(xs, "volumes") # {} => Asked(xs', "volumes") # Asked(xs, "volumes")
  /\ Cardinality(Asked(xs', "volumes")) <= 1

MCNext ==
  \/ part = "copy" /\ Next /\ UNCHANGED <<dvars, xvars, part>>
  \/ part = "drives" /\ VolumesNext /\ UNCHANGED <<vars, xvars, part>>
  \/ part = "plan" /\ ScreenNext /\ PlanStep /\ UNCHANGED <<vars, dvars, part>>
  \/ part = "check" /\ ScreenNext /\ CheckStep /\ UNCHANGED <<vars, dvars, part>>

MCSpec == MCInit /\ [][MCNext]_<<vars, dvars, xvars, part>>
=============================================================================
