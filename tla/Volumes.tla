------------------------------- MODULE Volumes -------------------------------
(***************************************************************************)
(* The drives an export may go to (gui/internal/export/volumes.go and       *)
(* volumes_linux.go): what of the kernel's mount table is a destination, and *)
(* in which order the operator is offered them.                             *)
(*                                                                         *)
(* A path is the sequence of its components; components are numbers, so     *)
(* that their order is the order of the names, and equally long.  Labels,   *)
(* capacities and permissions are not modelled.                             *)
(***************************************************************************)
EXTENDS Naturals, Sequences, SequencesExt

CONSTANTS Entries,   \* lines of the mount table: dev, root, point, fs, bus, flag
          Media, RunDir, Boot,  \* components
          MaxMounts  \* bound: lines of the mount table

\* Filesystems and components are ordered, as their numbers and names are.
ASSUME VolumesAssumption ==
  /\ \A e \in Entries : e.dev \in Nat /\ e.root \in Seq(Nat) /\ e.point \in Seq(Nat)
  /\ MaxMounts \in Nat

VARIABLES mounts,  \* /proc/self/mountinfo, oldest mount first
          looks,   \* what statfs and stat say of each mount point
          vols     \* the answer of ListVolumes, once listed

dvars == <<mounts, looks, vols>>

(* "empty" has no blocks, "hung" does not answer within the budget. *)
Looks == {"dir", "file", "empty", "gone", "hung"}
Points == {e.point : e \in Entries}

-----------------------------------------------------------------------------
(* removableMountDirs and systemPathPrefixes; a removable drive may lie below *)
(* /run.                                                                     *)
IsUnderRemovableMountDir(p) == IsStrictPrefix(<<Media>>, p) \/ IsStrictPrefix(<<RunDir, Media>>, p)
UnderSystemPath(p) == IsPrefix(<<RunDir>>, p) \/ IsPrefix(<<Boot>>, p)

(* pseudoFSTypes and networkFSTypes. *)
Pseudo(e) == e.fs = "pseudo"
Network(e) == e.fs = "network"

\* Mutant of RejectMount: the system paths come first, so /run/media is one.
RejectMountSystemFirst(e) ==
  Pseudo(e) \/ UnderSystemPath(e.point)
RejectMount(e) ==
  \/ Pseudo(e)
  \/ ~IsUnderRemovableMountDir(e.point) /\ UnderSystemPath(e.point)

(* Of the mounts on one mount point, the last. *)
ByPoint(table) ==
  LET kept == {i \in DOMAIN table : ~RejectMount(table[i])}
  IN {table[i] : i \in {i \in kept : \A j \in kept : j > i => table[j].point # table[i].point}}

(* The order of paths as strings, and the order selectMounts looks at them in. *)
PathLess(p, q) ==
  \E i \in DOMAIN q : /\ \A j \in 1..(i - 1) : j <= Len(p) /\ p[j] = q[j]
                      /\ i > Len(p) \/ p[i] < q[i]
Slashes(p) == IF p = <<>> THEN 1 ELSE Len(p)
Earlier(a, b) ==
  \/ a.dev < b.dev
  \/ /\ a.dev = b.dev
     /\ \/ Slashes(a.root) < Slashes(b.root)
        \/ /\ Slashes(a.root) = Slashes(b.root)
           /\ \/ PathLess(a.root, b.root)
              \/ /\ a.root = b.root
                 /\ \/ Len(a.point) < Len(b.point)
                    \/ Len(a.point) = Len(b.point) /\ PathLess(a.point, b.point)

\* The elements of S in the order of Less.
Sorted(S, Less(_, _)) == CHOOSE f \in SetToSeqs(S) : \A i, j \in DOMAIN f : i < j => Less(f[i], f[j])

(* e lies within what r, of the same filesystem, already offers. *)
Duplicates(e, r) == r.dev = e.dev /\ IsPrefix(r.root, e.root)
SelectMounts(table) ==
  FoldLeft(LAMBDA out, e : IF \E i \in DOMAIN out : Duplicates(e, out[i]) THEN out ELSE Append(out, e),
           <<>>, Sorted(ByPoint(table), Earlier))

(* deviceRemovable, kindFor, rank and sortVolumes: a device on the bus of a   *)
(* stick is removable whatever its own flag says.                             *)
DeviceRemovable(e) == e.bus = "usb" \/ e.flag
KindOf(e) ==
  IF Network(e) THEN "network" ELSE IF DeviceRemovable(e) \/ IsUnderRemovableMountDir(e.point) THEN "removable" ELSE "fixed"
RankOf(v) == IF v.kind = "removable" THEN 0 ELSE IF v.path = <<>> THEN 3 ELSE IF v.kind = "network" THEN 2 ELSE 1
VolumeLess(v, w) == IF RankOf(v) # RankOf(w) THEN RankOf(v) < RankOf(w) ELSE PathLess(v.path, w.path)

(* listVolumes: a mount that did not answer in time is offered, one that is  *)
(* gone, without blocks or not a directory is not.                           *)
ListVolumes(table, look) ==
  LET offered == {e \in Range(SelectMounts(table)) : look[e.point] \in {"dir", "hung"}}
  IN Sorted({[path |-> e.point, kind |-> KindOf(e), dev |-> e.dev, root |-> e.root] : e \in offered}, VolumeLess)

-----------------------------------------------------------------------------
(* What is mounted is the kernel's; one mount point may look odd. *)
VolumesInit ==
  /\ mounts \in UNION {[1..n -> Entries] : n \in 0..MaxMounts}
  /\ \E p \in Points, l \in Looks : looks = [q \in Points |-> IF q = p THEN l ELSE "dir"]
  /\ vols = [listed |-> FALSE, rows |-> <<>>]

List == vols' = [listed |-> TRUE, rows |-> ListVolumes(mounts, looks)] /\ UNCHANGED <<mounts, looks>>

VolumesNext == List
VolumesSpec == VolumesInit /\ [][VolumesNext]_dvars

-----------------------------------------------------------------------------
(* The drive chooser shows every filesystem once: the rows never offer one    *)
(* part of a filesystem twice, however it is mounted and bound, and whatever  *)
(* is mounted on a place that may be offered, a stick below /run/media and    *)
(* the subvolumes of a disk included, lies within a row, as long as the row   *)
(* answered.  (selectMounts, listVolumes.)                                    *)
Offered(e) == ~Pseudo(e) /\ (IsUnderRemovableMountDir(e.point) \/ ~UnderSystemPath(e.point))
Within(e, v) == v.dev = e.dev /\ IsPrefix(v.root, e.root)
EveryDriveOnce ==
  vols.listed =>
    /\ \A i, j \in DOMAIN vols.rows : i # j => ~Within(vols.rows[j], vols.rows[i])
    /\ (\A p \in Points : looks[p] \in {"dir", "hung"}) =>
         \A i \in DOMAIN mounts :
           Offered(mounts[i]) /\ (\A j \in DOMAIN mounts : j > i => mounts[j].point # mounts[i].point) =>
             \E k \in DOMAIN vols.rows : Within(mounts[i], vols.rows[k])
=============================================================================
