--------------------------- MODULE ExternalInputs ---------------------------
(***************************************************************************)
(* The .debs an operator names beside packages: local files and URLs        *)
(* (core/engine/inputs.go stageExternals), downloaded by one goroutine per  *)
(* URL behind a semaphore (core/fetch FetchAll), each with its own retries, *)
(* then staged by base name into one directory that apt sees as a           *)
(* repository.                                                              *)
(*                                                                         *)
(* A server may answer every attempt differently, and may name the file.    *)
(* A .deb is its content; SHA-256 is the identity on contents.  The reasons *)
(* a download fails for are kept as far as the code acts on them.           *)
(***************************************************************************)
EXTENDS Naturals, Sequences, FiniteSets

CONSTANTS Locals,       \* base names of the local .debs, in order
          Wants,        \* for each URL, in order, its stated digest or None
          Names,        \* base names a download may be given
          Contents,     \* what a .deb may contain
          Readable,     \* those whose control data can be read
          Concurrency,  \* defaultConcurrency
          Retries,      \* Options.Retries
          None

\* The inputs, in the order they are staged: local files, then URLs.
Files == 1 .. Len(Locals)
Urls == Len(Locals) + 1 .. Len(Locals) + Len(Wants)
Inputs == Files \cup Urls

ASSUME ConstantsAssumption ==
    /\ Locals \in Seq(Names)
    /\ Wants \in Seq(Contents \cup {None})
    /\ Readable \subseteq Contents
    /\ None \notin Contents \cup Inputs
    /\ Concurrency \in Nat \ {0}
    /\ Retries \in Nat

Want(i) == Wants[i - Len(Locals)]

VARIABLES
    main,       \* where stageExternals is
    at,         \* the input its loop has reached
    cancelled,  \* ctx.Done
    pc,         \* where each URL's goroutine is
    attempt,    \* which attempt each goroutine is making
    lastErr,    \* why its last attempt failed
    result,     \* the entry of each input in FetchAll's results
    dir,        \* the staging directory: base name -> content
    staged,     \* the inputs that were materialised there
    origins,    \* base name -> the input its bytes are attributed to
    failures    \* fetchFailures

vars == <<main, at, cancelled, pc, attempt, lastErr, result, dir, staged, origins, failures>>
stagingVars == <<dir, staged, origins, failures>>
fetchVars == <<pc, attempt, lastErr, result>>

Reasons == {"transient", "fatal", "mismatch", "cancelled"}
Results == [kind : {"ok"}, name : Names, content : Contents]
              \cup [kind : {"failed"}, reason : Reasons]
Pending == [kind |-> "pending"]
Failed(reason) == [kind |-> "failed", reason |-> reason]

Attempts == IF Retries < 1 THEN 1 ELSE Retries

\* A goroutine has the semaphore from its first attempt until it returns.
Holders == {i \in Urls : pc[i] \in {"request", "download", "backoff"}}

Init ==
    /\ main = "files"
    /\ at = 1
    /\ cancelled = FALSE
    /\ pc = [i \in Urls |-> "new"]
    /\ attempt = [i \in Urls |-> 0]
    /\ lastErr = [i \in Urls |-> "none"]
    /\ result = [i \in Inputs |-> Pending]
    /\ dir = [n \in Names |-> None]
    /\ staged = <<>>
    /\ origins = [n \in Names |-> None]
    /\ failures = {}
-----------------------------------------------------------------------------
(* One goroutine of FetchAll. *)

Finish(i, r) ==
    /\ result' = [result EXCEPT ![i] = r]
    /\ pc' = [pc EXCEPT ![i] = "done"]
    /\ UNCHANGED attempt

Move(i, next) == pc' = [pc EXCEPT ![i] = next] /\ UNCHANGED <<attempt, result>>

Try(i, n) ==
    /\ pc' = [pc EXCEPT ![i] = "request"]
    /\ attempt' = [attempt EXCEPT ![i] = n]
    /\ UNCHANGED <<lastErr, result>>

\* The end of an attempt that failed.
GiveUpOrRetry(i, reason, retryable) ==
    /\ lastErr' = [lastErr EXCEPT ![i] = reason]
    /\ IF ~retryable \/ attempt[i] = Attempts
       THEN Finish(i, Failed(reason))
       ELSE Move(i, "backoff")

Others == UNCHANGED <<main, at, cancelled, stagingVars>>

\* select: a slot, or the end of the context, whichever it picks.  fetch then
\* refuses a malformed input before its first attempt.
Acquire(i) ==
    /\ pc[i] = "start"
    /\ \/ /\ Cardinality(Holders) < Concurrency
          /\ Try(i, 1) \/ (Finish(i, Failed("fatal")) /\ UNCHANGED lastErr)
       \/ cancelled /\ Finish(i, Failed("cancelled")) /\ UNCHANGED lastErr
    /\ Others

\* client.Do: a refused redirect, an untrusted certificate, a status below 500
\* or too long a body is final; a lost connection or a status from 500 is not.
\* A connection lost because the context was cancelled is reported as that; an
\* answer that came before may still be used.
Request(i) ==
    /\ pc[i] = "request"
    /\ \/ Move(i, "download") /\ UNCHANGED lastErr
       \/ GiveUpOrRetry(i, "fatal", FALSE)
       \/ GiveUpOrRetry(i, "transient", TRUE)
       \/ cancelled /\ GiveUpOrRetry(i, "cancelled", FALSE)
    /\ Others

\* Mutant of Download: the digest is compared on the first attempt only.
DownloadCheckedOnce(i) ==
    /\ pc[i] = "download"
    /\ \/ GiveUpOrRetry(i, "transient", TRUE)
       \/ \E c \in Contents, n \in Names :
             IF Want(i) \notin {None, c} /\ attempt[i] = 1
             THEN GiveUpOrRetry(i, "mismatch", FALSE)
             ELSE /\ Finish(i, [kind |-> "ok", name |-> n, content |-> c])
                  /\ UNCHANGED lastErr
    /\ Others

\* download: copy the body, sniff it, hash it, compare, PutFile.  Losing the
\* connection, closing the scratch file and PutFile may be retried.
Download(i) ==
    /\ pc[i] = "download"
    /\ \/ GiveUpOrRetry(i, "fatal", FALSE)
       \/ GiveUpOrRetry(i, "transient", TRUE)
       \/ cancelled /\ GiveUpOrRetry(i, "cancelled", FALSE)
       \/ \E c \in Contents, n \in Names :
             IF Want(i) \notin {None, c}
             THEN GiveUpOrRetry(i, "mismatch", FALSE)
             ELSE /\ Finish(i, [kind |-> "ok", name |-> n, content |-> c])
                  /\ UNCHANGED lastErr
    /\ Others

\* sleepBackoff: the timer, or the end of the context.
Backoff(i) ==
    /\ pc[i] = "backoff"
    /\ \/ Try(i, attempt[i] + 1)
       \/ cancelled /\ Finish(i, Failed("cancelled")) /\ UNCHANGED lastErr
    /\ Others
-----------------------------------------------------------------------------
(* stageExternals. *)

Goto(next) == main' = next /\ at' = 1
Advance == main' = main /\ at' = at + 1

\* Materialise into the staging directory, under the base name, over whatever
\* is there; if that fails so does the build.
StageFile(i, n, c) ==
    \/ /\ dir' = [dir EXCEPT ![n] = c]
       /\ staged' = Append(staged, i)
       /\ Advance
       /\ UNCHANGED <<failures, origins>>
    \/ Goto("error") /\ UNCHANGED stagingVars

Report(i) ==
    /\ failures' = failures \cup {i}
    /\ Advance
    /\ UNCHANGED <<dir, staged, origins>>

\* A local file is ingested and staged, or reported.
LocalFile ==
    /\ main = "files" /\ at \in Files
    /\ \/ \E c \in Contents :
             /\ result' = [result EXCEPT ![at] =
                              [kind |-> "ok", name |-> Locals[at], content |-> c]]
             /\ StageFile(at, Locals[at], c)
       \/ /\ \E reason \in {"fatal", "cancelled"} :
                result' = [result EXCEPT ![at] = Failed(reason)]
          /\ Report(at)
    /\ UNCHANGED <<cancelled, pc, attempt, lastErr>>

\* FetchAll starts one goroutine per URL ...
FetchAll ==
    /\ main = "files" /\ at \notin Files
    /\ Goto("fetch")
    /\ pc' = [i \in Urls |-> "start"]
    /\ UNCHANGED <<cancelled, attempt, lastErr, result, stagingVars>>

\* ... and returns when every one of them has.
FetchedAll ==
    /\ main = "fetch"
    /\ \A i \in Urls : pc[i] = "done"
    /\ main' = "stage" /\ at' = Len(Locals) + 1
    /\ UNCHANGED <<cancelled, fetchVars, stagingVars>>

\* Its results are staged, or reported, in the order of the inputs.
StageResult ==
    /\ main = "stage" /\ at \in Urls
    /\ IF result[at].kind = "ok"
       THEN StageFile(at, result[at].name, result[at].content)
       ELSE Report(at)
    /\ UNCHANGED <<cancelled, fetchVars>>

StagedAll ==
    /\ main = "stage" /\ at \notin Urls
    /\ IF staged = <<>> THEN Goto("done") ELSE Goto("index")
    /\ UNCHANGED <<cancelled, fetchVars, stagingVars>>

\* The package name is read from each staged file; one that is no .deb, or
\* cannot be read, is removed with a warning, and not reported.
Index ==
    /\ main = "index" /\ at \in DOMAIN staged
    /\ LET i == staged[at]
           n == result[i].name
       IN \/ dir[n] \in Readable /\ origins' = [origins EXCEPT ![n] = i] /\ UNCHANGED dir
          \/ dir' = [dir EXCEPT ![n] = None] /\ UNCHANGED origins
    /\ Advance
    /\ UNCHANGED <<cancelled, fetchVars, staged, failures>>

\* The staging directory becomes a repository, if any name was read; a file that
\* was read under one input and removed under another is missed then.
WriteRepository ==
    /\ main = "index" /\ at \notin DOMAIN staged
    /\ \/ (\A n \in Names : origins[n] # None => dir[n] # None) /\ Goto("done")
       \/ (\E n \in Names : origins[n] # None) /\ Goto("error")
    /\ UNCHANGED <<cancelled, fetchVars, stagingVars>>

Cancel ==
    /\ ~cancelled
    /\ main \notin {"done", "error"}
    /\ cancelled' = TRUE
    /\ UNCHANGED <<main, at, fetchVars, stagingVars>>

Goroutine(i) == Acquire(i) \/ Request(i) \/ Download(i) \/ Backoff(i)

Main ==
    LocalFile \/ FetchAll \/ FetchedAll \/ StageResult \/ StagedAll \/ Index \/ WriteRepository

Next == Main \/ (\E i \in Urls : Goroutine(i)) \/ Cancel

Spec == Init /\ [][Next]_vars
-----------------------------------------------------------------------------

\* Where an input that was had is lost all the same: its name's file was removed
\* as no .deb, or another input staged after it has that name.
Overtaken(i) ==
    LET n == result[i].name
    IN origins[n] = None \/ \E k, l \in DOMAIN staged :
                              k < l /\ staged[k] = i /\ origins[n] = staged[l]

\* However many attempts it took and whatever each of them was answered, no
\* more downloads than slots are under way, and what is taken for a URL with a
\* stated digest has that digest.  FetchAll leaves no hole in its results, and
\* stageExternals reports every input that could not be had, cancelled ones
\* included.  Once the repository is written each input is accounted for: it is
\* reported, and then nothing is attributed to it; or its base name is
\* attributed to it; or it was lost to a later input of its base name, or with
\* a file that was not read (inputs.go:128, :199, :230-236: with a warning at
\* most, where docs/formats.md:742 has every input that did not make it into the
\* bundle under fetch_failed).  A name is attributed to the input whose bytes are there.
InputsAreAccountedFor ==
    /\ Cardinality(Holders) <= Concurrency
    /\ \A i \in Urls : result[i].kind = "ok" => Want(i) \in {None, result[i].content}
    /\ main \in {"index", "done"} =>
          \A i \in Inputs : result[i].kind # "ok" => i \in failures
    /\ main = "done" =>
          /\ \A i \in Inputs : \/ i \in failures /\ \A n \in Names : origins[n] # i
                               \/ result[i].kind = "ok" /\ (origins[result[i].name] = i \/ Overtaken(i))
          /\ \A n \in Names :
                /\ dir[n] = None <=> origins[n] = None
                /\ origins[n] # None => result[origins[n]] = [kind |-> "ok", name |-> n,
                                                              content |-> dir[n]]
=============================================================================
