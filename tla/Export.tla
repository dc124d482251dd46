------------------------------- MODULE Export -------------------------------
(***************************************************************************)
(* The export of a finished bundle folder onto a removable drive            *)
(* (gui/internal/export): Plan, Run and Verify as Export drives them, and   *)
(* the file that marks the destination incomplete while they are at it.     *)
(*                                                                         *)
(* The process may be killed, the drive pulled out, a medium may keep       *)
(* something other than what was written to it, and the bundle may be       *)
(* rebuilt at any moment.  A file's data and its name are taken to be on    *)
(* the medium once the file was fsync'd, and a removal once the folder was. *)
(***************************************************************************)
EXTENDS Naturals

CONSTANTS Names,        \* the files a bundle may have
          Contents,     \* what they may contain
          Size,         \* and how long each content is
          Torn,         \* a file that is not what was meant to be written
          None,         \* no file
          MaxChanges    \* bound: how often the bundle is rebuilt

ASSUME ConstantsAssumption ==
    /\ Size \in [Contents -> Nat]
    /\ None \notin Contents \cup Names \cup Nat
    /\ Torn \notin Contents /\ None # Torn
    /\ MaxChanges \in Nat

VARIABLES
    src,        \* the bundle folder
    changes,    \* how often it was rebuilt
    touched,    \* history: it was rebuilt since Plan read it
    disk,       \* the destination folder, but for the marker
    marker,     \* the marker file is "present", or how it came not to be
    durable,    \* what of that is on the medium for certain
    vouched,    \* history: what Run had read of the copy it finished last
    pc,
    plan,       \* Plan.Files: the size of each file, or None
    skip,       \* Options.SkipVerify
    todo,       \* the files the loop under way has not come to
    current,    \* the file copyFile has open
    sums,       \* RunReport.Files: the content that was read of each file
    bad,        \* VerifyReport.Mismatches
    answer      \* what Export returned

vars == <<src, changes, touched, disk, marker, durable, vouched, pc, plan, skip, todo,
          current, sums, bad, answer>>
drive == <<disk, marker, durable, vouched>>
call == <<plan, skip, todo, current, sums, bad>>
bundle == <<src, changes, touched>>

Markers == {"present",      \* the destination is marked incomplete
            "never",        \* nothing was ever exported to it
            "replacing",    \* openDestFile removed it to write it anew
            "verified", "skipped"}

Empty == [n \in Names |-> None]
Bundles == [Names -> Contents \cup {None}] \ {Empty}
Listed == {n \in Names : plan[n] # None}

Init ==
    /\ src \in Bundles
    /\ changes = 0
    /\ touched = FALSE
    /\ disk = Empty
    /\ marker = "never" /\ durable = "never"
    /\ vouched = Empty
    /\ pc = "idle"
    /\ plan = Empty
    /\ skip = FALSE
    /\ todo = {}
    /\ current = None
    /\ sums = Empty
    /\ bad = {}
    /\ answer = "none"

Goto(next) == pc' = next /\ UNCHANGED answer

Return(result) ==
    /\ pc' = "idle"
    /\ answer' = result
    /\ plan' = Empty /\ skip' = FALSE /\ todo' = {} /\ current' = None
    /\ sums' = Empty /\ bad' = {}
-----------------------------------------------------------------------------
(* Plan and Run. *)

\* checkDestinationEntries: nothing is there that this bundle does not have.
EntriesAllowed(listed) == {n \in Names : disk[n] # None} \subseteq listed

\* Plan walks the bundle and notes the size of every file.
Plan(s) ==
    /\ pc = "idle"
    /\ EntriesAllowed({n \in Names : src[n] # None})
    /\ plan' = [n \in Names |-> IF src[n] = None THEN None ELSE Size[src[n]]]
    /\ skip' = s
    /\ touched' = FALSE
    /\ pc' = "planned"
    /\ answer' = "none"
    /\ UNCHANGED <<src, changes, drive, todo, current, sums, bad>>

\* Run checks the destination again and makes the folder.  writeMarker calls
\* openDestFile, which removes a marker that an earlier export left ...
RemoveMarker ==
    /\ pc = "planned"
    /\ EntriesAllowed(Listed)
    /\ marker' = IF marker = "present" THEN "replacing" ELSE marker
    /\ Goto("marker")
    /\ UNCHANGED <<bundle, disk, durable, vouched, call>>

\* ... before it creates the new one ...
CreateMarker ==
    /\ pc = "marker"
    /\ marker' = "present"
    /\ Goto("sync")
    /\ UNCHANGED <<bundle, disk, durable, vouched, call>>

\* ... that is written and fsync'd before Run touches anything else.
SyncMarker ==
    /\ pc = "sync"
    /\ durable' = marker
    /\ todo' = Listed
    /\ Goto("copy")
    /\ UNCHANGED <<bundle, disk, marker, vouched, plan, skip, current, sums, bad>>

\* Mutant of OpenFile: a file that is there with the right length is kept.
OpenFileResumes(n) ==
    /\ pc = "copy" /\ current = None
    /\ n \in todo
    /\ IF disk[n] \in Contents /\ Size[disk[n]] = plan[n]
       THEN /\ sums' = [sums EXCEPT ![n] = disk[n]]
            /\ todo' = todo \ {n}
            /\ UNCHANGED <<disk, current>>
       ELSE /\ src[n] # None
            /\ disk' = [disk EXCEPT ![n] = Torn]
            /\ current' = n
            /\ UNCHANGED <<sums, todo>>
    /\ Goto("copy")
    /\ UNCHANGED <<bundle, marker, durable, vouched, plan, skip, bad>>

\* copyFile opens the source and replaces what is at the destination.
OpenFile(n) ==
    /\ pc = "copy" /\ current = None
    /\ n \in todo
    /\ src[n] # None
    /\ disk' = [disk EXCEPT ![n] = Torn]
    /\ current' = n
    /\ Goto("copy")
    /\ UNCHANGED <<bundle, marker, durable, vouched, plan, skip, todo, sums, bad>>

\* It copies, hashing what it reads, counts the bytes against the plan, syncs
\* and closes.  The medium need not keep what it was given.
CopyFile ==
    /\ pc = "copy" /\ current # None
    /\ src[current] # None /\ Size[src[current]] = plan[current]
    /\ \E kept \in {src[current], Torn} : disk' = [disk EXCEPT ![current] = kept]
    /\ sums' = [sums EXCEPT ![current] = src[current]]
    /\ todo' = todo \ {current}
    /\ current' = None
    /\ Goto("copy")
    /\ UNCHANGED <<bundle, marker, durable, vouched, plan, skip, bad>>

\* The folders are flushed; a failure that is not the drive's end is noted.
Flush ==
    /\ pc = "copy" /\ todo = {}
    /\ IF skip THEN Goto("clear") /\ UNCHANGED todo
               ELSE Goto("verify") /\ todo' = Listed
    /\ UNCHANGED <<bundle, drive, plan, skip, current, sums, bad>>

\* SkipVerify: Run itself removes the marker, and nobody flushes that.
ClearUnverified ==
    /\ pc = "clear"
    /\ marker' = "skipped"
    /\ vouched' = sums
    /\ Return("skipped")
    /\ UNCHANGED <<bundle, disk, durable>>
-----------------------------------------------------------------------------
(* Verify. *)

\* Mutant of Matches: a file that is there is good.
MatchesIfThere(n) == sums[n] # None /\ disk[n] # None

\* verifyOne: the file was copied, is there, has the length and the digest of
\* what was read of the source.
Matches(n) == sums[n] # None /\ disk[n] = sums[n]

\* One file is read back; one that cannot be read is a mismatch too.
VerifyOne(n) ==
    /\ pc = "verify"
    /\ n \in todo
    /\ todo' = todo \ {n}
    /\ \/ Matches(n) /\ UNCHANGED bad
       \/ bad' = bad \cup {n}
    /\ Goto("verify")
    /\ UNCHANGED <<bundle, drive, plan, skip, current, sums>>

\* Every file matched: the marker goes ...
ClearVerified ==
    /\ pc = "verify" /\ todo = {} /\ bad = {}
    /\ marker' = "verified"
    /\ vouched' = sums
    /\ Goto("removed")
    /\ UNCHANGED <<bundle, disk, durable, call>>

\* ... and the folder is flushed, if the drive can do that.
Complete ==
    /\ pc = "removed"
    /\ durable' \in {marker, durable}
    /\ Return("complete")
    /\ UNCHANGED <<bundle, disk, marker, vouched>>
-----------------------------------------------------------------------------
(* Every way to stop short. *)

\* An error or the end of the context: Run or Verify returns.  copyFile removes
\* the file it was writing, if it can; one that it could not create is gone.
Fails ==
    /\ pc # "idle"
    /\ disk' \in {disk, IF current # None THEN [disk EXCEPT ![current] = None] ELSE disk}
    /\ Return("error")
    /\ UNCHANGED <<bundle, marker, durable, vouched>>

\* The process is killed.
Killed ==
    /\ pc # "idle"
    /\ Return("none")
    /\ UNCHANGED <<bundle, drive>>

\* The drive is pulled out and plugged in again: what was not flushed may be
\* undone, and the export under way ends with an error.
PulledOut ==
    /\ marker' \in {marker, durable}
    /\ durable' = marker'
    /\ disk' \in {disk, IF current # None THEN [disk EXCEPT ![current] = None] ELSE disk}
    /\ Return(IF pc = "idle" THEN answer ELSE "error")
    /\ UNCHANGED <<bundle, vouched>>

\* The operator empties the destination.
Wipe ==
    /\ pc = "idle"
    /\ disk' = Empty
    /\ marker' = "never" /\ durable' = "never"
    /\ vouched' = Empty
    /\ UNCHANGED <<bundle, pc, call, answer>>

\* A build replaces the bundle.
Rebuild(b) ==
    /\ changes < MaxChanges
    /\ src' = b
    /\ changes' = changes + 1
    /\ touched' = TRUE
    /\ UNCHANGED <<drive, pc, call, answer>>

Run == RemoveMarker \/ CreateMarker \/ SyncMarker \/ CopyFile \/ Flush \/ ClearUnverified
          \/ \E n \in Names : OpenFile(n)

Verify == ClearVerified \/ Complete \/ \E n \in Names : VerifyOne(n)

Next ==
    \/ \E s \in BOOLEAN : Plan(s)
    \/ Run \/ Verify
    \/ Fails \/ Killed \/ PulledOut \/ Wipe
    \/ \E b \in Bundles : Rebuild(b)

Spec == Init /\ [][Next]_vars
-----------------------------------------------------------------------------
TypeOK ==
    /\ src \in Bundles
    /\ changes \in 0 .. MaxChanges
    /\ touched \in BOOLEAN
    /\ disk \in [Names -> Contents \cup {Torn, None}]
    /\ marker \in Markers /\ durable \in Markers
    /\ vouched \in [Names -> Contents \cup {None}]
    /\ pc \in {"idle", "planned", "marker", "sync", "copy", "clear", "verify", "removed"}
    /\ plan \in [Names -> Nat \cup {None}]
    /\ skip \in BOOLEAN
    /\ todo \subseteq Names
    /\ current \in Names \cup {None}
    /\ sums \in [Names -> Contents \cup {None}]
    /\ bad \subseteq Names
    /\ answer \in {"none", "complete", "skipped", "error"}

\* Whatever is killed, cancelled, pulled out or repeated over what is already
\* there: a destination that has no marker is one that was never exported to,
\* or it lost the marker to a verification and holds exactly the files that
\* were read of the bundle, or to SkipVerify and has every one of them, and no
\* other.  The one exception is a destination that was marked when Run began
\* again, killed or failing between openDestFile's Remove and its create
\* (copy.go:334-343): any half copy may then stay unmarked, where export.go:371
\* says that every outcome but a verified copy leaves the marker.  But no file is
\* being changed, and Export did not answer that a copy was complete.
UnmarkedIsWhole ==
    marker # "present" =>
        \/ marker = "never" /\ disk = Empty
        \/ marker = "verified" /\ disk = vouched
        \/ marker = "skipped" /\ \A n \in Names : disk[n] = None <=> vouched[n] = None
        \/ marker = "replacing" /\ pc \in {"idle", "planned", "marker"} /\ answer \in {"none", "error"}

\* Run writes the marker before its first byte, and for good: no file at the
\* destination changes unless the drive would come back marked if it were
\* pulled out at that moment.
FilesChangeUnderMarker ==
    [][disk' # disk /\ ~Wipe => marker = "present" /\ durable = "present"]_vars

\* Export answers complete only of a copy of the bundle as it is, unless it was
\* rebuilt meanwhile: what an earlier export left there, of another bundle or
\* half a copy of this one, is gone.
CompleteIsTheBundle ==
    [][pc # "idle" /\ answer' = "complete" /\ ~touched => disk' = src]_vars
=============================================================================
