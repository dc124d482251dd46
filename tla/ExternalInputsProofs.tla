------------------------ MODULE ExternalInputsProofs ------------------------
(***************************************************************************)
(* Proofs about ExternalInputs, for any number of local files and URLs,    *)
(* any number of slots and any number of attempts; about SignVerifier, for *)
(* any keys, sources and blocks; and about Signing, for any plugin.        *)
(***************************************************************************)
EXTENDS ExternalInputs, Signing, FiniteSetTheorems, TLAPS

Places == {"new", "start", "request", "download", "backoff", "done"}
Stages == {"files", "fetch", "stage", "index", "done", "error"}
Taken == [kind : {"ok"}, name : Names, content : Contents]
Refused == [kind : {"failed"}, reason : Reasons]

Types ==
    /\ main \in Stages /\ at \in Nat
    /\ pc \in [Urls -> Places] /\ attempt \in [Urls -> Nat]
    /\ result \in [Inputs -> Taken \cup Refused \cup {Pending}]
    /\ dir \in [Names -> Contents \cup {None}]
    /\ staged \in Seq(Inputs)
    /\ origins \in [Names -> Inputs \cup {None}]
    /\ failures \subseteq Inputs

(* The semaphore is never over-full. *)
Slots == Cardinality(Holders) <= Concurrency

(* The goroutines run only inside FetchAll, each leaves a result when it      *)
(* returns, and what it takes has the stated digest.                          *)
Goroutines ==
    /\ main = "files" => pc = [i \in Urls |-> "new"]
    /\ main \in {"stage", "index", "done"} => \A i \in Urls : pc[i] = "done"
    /\ \A i \in Urls : pc[i] \in {"new", "done"} \/ main = "fetch"
    /\ \A i \in Urls : pc[i] = "done" => result[i].kind \in {"ok", "failed"}
    /\ \A i \in Urls : result[i].kind = "ok" => Want(i) \in {None, result[i].content}

(* How far the loops have come. *)
Processed(i) ==
    \/ main = "files" /\ i < at
    \/ main = "fetch" /\ i \in Files
    \/ main = "stage" /\ i < at
    \/ main \in {"index", "done"}
Reach ==
    /\ main = "files" => at \in 1 .. Len(Locals) + 1
    /\ main = "stage" => at \in Len(Locals) + 1 .. Len(Locals) + Len(Wants) + 1
    /\ main = "index" => at \in 1 .. Len(staged) + 1

(* An input is reported exactly if it was processed and could not be had. *)
Reports ==
    main # "error" =>
        \A i \in Inputs : /\ Processed(i) => result[i].kind \in {"ok", "failed"}
                          /\ i \in failures <=> Processed(i) /\ result[i].kind = "failed"

(* An input that was processed and had is among the staged ones. *)
HadIsStaged ==
    main # "error" =>
        \A i \in Inputs : Processed(i) /\ result[i].kind = "ok" => \E k \in DOMAIN staged : staged[k] = i

(* The last staged input of a base name has its bytes in the directory, until *)
(* the file is removed; and a file there was staged.                           *)
NameOf(k) == result[staged[k]].name
LastOfName(k) == \A l \in DOMAIN staged : l > k => NameOf(l) # NameOf(k)
Directory ==
    main # "error" =>
        /\ \A k \in DOMAIN staged : /\ result[staged[k]].kind = "ok" /\ Processed(staged[k])
                                    /\ LastOfName(k) => dir[NameOf(k)] \in {None, result[staged[k]].content}
        /\ \A n \in Names : dir[n] # None => \E k \in DOMAIN staged : NameOf(k) = n

(* Its name is attributed to no input, or to it, or to one staged after it. *)
LaterOrGone(k) ==
    \/ origins[NameOf(k)] = None
    \/ \E l \in DOMAIN staged : k <= l /\ origins[NameOf(k)] = staged[l]

(* While the files are read, a name whose file is still there is attributed to *)
(* the last input of that name that was visited.                               *)
Attribution ==
    /\ main \in {"files", "fetch", "stage"} => origins = [n \in Names |-> None]
    /\ main = "index" =>
          \A n \in Names : dir[n] # None =>
             \/ \A k \in DOMAIN staged : k < at => NameOf(k) # n
             \/ \E k \in DOMAIN staged : /\ k < at /\ NameOf(k) = n /\ origins[n] = staged[k]
                                         /\ \A l \in DOMAIN staged : k < l /\ l < at => NameOf(l) # n
    /\ main = "done" =>
          \A n \in Names :
              /\ dir[n] = None <=> origins[n] = None
              /\ origins[n] # None => result[origins[n]] = [kind |-> "ok", name |-> n, content |-> dir[n]]
    /\ main = "done" => \A k \in DOMAIN staged : LaterOrGone(k)

InputsInv == Types /\ Slots /\ Goroutines /\ Reach /\ Reports /\ HadIsStaged /\ Directory /\ Attribution

-----------------------------------------------------------------------------
(* Facts about the inputs.                                                 *)

LEMMA Sizes ==
  /\ Len(Locals) \in Nat /\ Len(Wants) \in Nat
  /\ Files \cap Urls = {} /\ Inputs \subseteq Nat /\ None \notin Inputs
  /\ \A i \in Files : Locals[i] \in Names
  /\ \A i \in Inputs : i \in Files <=> i < Len(Locals) + 1
BY ConstantsAssumption DEF Files, Urls, Inputs

LEMMA FiniteHolders ==
  /\ IsFiniteSet(Holders)
  /\ Cardinality(Holders) \in Nat
<1>1. IsFiniteSet(Urls)
  BY Sizes, FS_Interval DEF Urls
<1>2. Holders \subseteq Urls
  BY DEF Holders
<1> QED  BY <1>1, <1>2, FS_Subset, FS_CardinalityType

LEMMA SlotsKept ==
  ASSUME Slots, Holders' \subseteq Holders
  PROVE  Slots'
<1>1. /\ IsFiniteSet(Holders') /\ Cardinality(Holders') <= Cardinality(Holders)
  BY FiniteHolders, FS_Subset
<1>2. Cardinality(Holders') \in Nat
  BY <1>1, FS_CardinalityType
<1> QED  BY <1>1, <1>2, FiniteHolders, ConstantsAssumption DEF Slots

LEMMA SlotTaken ==
  ASSUME NEW i \in Urls, Cardinality(Holders) < Concurrency, Holders' \subseteq Holders \cup {i}
  PROVE  Slots'
<1>1. IsFiniteSet(Holders \cup {i}) /\ Cardinality(Holders \cup {i}) <= Cardinality(Holders) + 1
  <2> DEFINE H == Holders
  <2>0. IsFiniteSet(H) /\ Cardinality(H) \in Nat
    BY FiniteHolders
  <2> HIDE DEF H
  <2>1. /\ IsFiniteSet(H \cup {i})
        /\ Cardinality(H \cup {i}) = IF i \in H THEN Cardinality(H) ELSE Cardinality(H) + 1
    BY <2>0, FS_AddElement
  <2>2. IsFiniteSet(H \cup {i}) /\ Cardinality(H \cup {i}) <= Cardinality(H) + 1
    BY <2>0, <2>1
  <2> QED  BY <2>2 DEF H
<1>2. Cardinality(Holders') <= Cardinality(Holders \cup {i}) /\ Cardinality(Holders') \in Nat
  BY <1>1, FS_Subset, FS_CardinalityType
<1>3. Cardinality(Holders \cup {i}) \in Nat
  BY <1>1, FS_CardinalityType
<1> QED  BY <1>1, <1>2, <1>3, FiniteHolders, ConstantsAssumption DEF Slots

-----------------------------------------------------------------------------
(* A step of a goroutine.                                                  *)

(* What it may do: move on to another place, or return with a result that is *)
(* a refusal or has the stated digest.                                        *)
Stated(i, r) == r.kind = "ok" => Want(i) \in {None, r.content}
LEMMA GoroutineMoves ==
  ASSUME InputsInv, NEW i \in Urls, Goroutine(i)
  PROVE  /\ main = "fetch" /\ UNCHANGED <<main, at, cancelled, stagingVars>>
         /\ attempt' \in [Urls -> Nat]
         /\ \/ pc[i] \in {"request", "download", "backoff"} \/ Cardinality(Holders) < Concurrency \/ pc'[i] = "done"
         /\ \/ /\ \E q \in {"request", "download", "backoff"} : pc' = [pc EXCEPT ![i] = q]
               /\ result' = result
            \/ /\ pc' = [pc EXCEPT ![i] = "done"]
               /\ \E r \in Taken \cup Refused : result' = [result EXCEPT ![i] = r] /\ Stated(i, r)
<1>t. pc \in [Urls -> Places] /\ attempt \in [Urls -> Nat] /\ attempt[i] \in Nat
  BY DEF InputsInv, Types
<1>1. pc[i] \in {"start", "request", "download", "backoff"} /\ Others
  BY DEF Goroutine, Acquire, Request, Download, Backoff
<1>2. main = "fetch"
  BY <1>1 DEF InputsInv, Goroutines
<1>3. \A reason \in Reasons : Failed(reason) \in Refused /\ Failed(reason).kind = "failed"
  BY DEF Refused, Failed
<1>4. ASSUME NEW n \in Nat, Try(i, n)
      PROVE  attempt' \in [Urls -> Nat] /\ pc' = [pc EXCEPT ![i] = "request"] /\ result' = result
  BY <1>t, <1>4 DEF Try
<1>5. ASSUME NEW reason \in Reasons, Finish(i, Failed(reason))
      PROVE  /\ attempt' \in [Urls -> Nat] /\ pc' = [pc EXCEPT ![i] = "done"] /\ pc'[i] = "done"
             /\ \E r \in Taken \cup Refused : result' = [result EXCEPT ![i] = r] /\ Stated(i, r)
  BY <1>t, <1>3, <1>5 DEF Finish, Stated
<1>6. ASSUME NEW reason \in Reasons, NEW retryable \in BOOLEAN, GiveUpOrRetry(i, reason, retryable)
      PROVE  \/ Finish(i, Failed(reason))
             \/ attempt' \in [Urls -> Nat] /\ pc' = [pc EXCEPT ![i] = "backoff"] /\ result' = result
  BY <1>t, <1>6 DEF GiveUpOrRetry, Move
<1>7. ASSUME NEW c \in Contents, NEW n \in Names, Want(i) \in {None, c},
             Finish(i, [kind |-> "ok", name |-> n, content |-> c])
      PROVE  /\ attempt' \in [Urls -> Nat] /\ pc' = [pc EXCEPT ![i] = "done"]
             /\ \E r \in Taken \cup Refused : result' = [result EXCEPT ![i] = r] /\ Stated(i, r)
  <2> DEFINE r == [kind |-> "ok", name |-> n, content |-> c]
  <2>1. r \in Taken /\ r.content = c
    BY DEF Taken
  <2> HIDE DEF r
  <2>2. Finish(i, r)
    BY <1>7 DEF r
  <2>3. Stated(i, r)
    BY <1>7, <2>1 DEF Stated
  <2> QED  BY <1>t, <1>7, <2>1, <2>2, <2>3 DEF Finish
<1>8. CASE Acquire(i)
  <2>1. \/ Cardinality(Holders) < Concurrency /\ Try(i, 1)
        \/ \E reason \in {"fatal", "cancelled"} : Finish(i, Failed(reason))
    BY <1>8 DEF Acquire
  <2> QED  BY <1>1, <1>2, <1>4, <1>5, <2>1 DEF Others, Reasons
<1>9. CASE Request(i)
  <2>1. pc[i] = "request"
    BY <1>9 DEF Request
  <2>2. \/ Move(i, "download")
        \/ \E reason \in Reasons, retryable \in BOOLEAN : GiveUpOrRetry(i, reason, retryable)
    BY <1>9 DEF Request, Reasons
  <2> QED  BY <1>t, <1>1, <1>2, <1>5, <1>6, <2>1, <2>2 DEF Others, Move
<1>10. CASE Download(i)
  <2>1. pc[i] = "download"
    BY <1>10 DEF Download
  <2>2. \/ \E reason \in Reasons, retryable \in BOOLEAN : GiveUpOrRetry(i, reason, retryable)
        \/ \E c \in Contents, n \in Names :
              Want(i) \in {None, c} /\ Finish(i, [kind |-> "ok", name |-> n, content |-> c])
    BY <1>10 DEF Download, Reasons
  <2> QED  BY <1>t, <1>1, <1>2, <1>5, <1>6, <1>7, <2>1, <2>2 DEF Others
<1>11. CASE Backoff(i)
  <2>1. pc[i] = "backoff" /\ attempt[i] + 1 \in Nat
    BY <1>t, <1>11 DEF Backoff
  <2>2. Try(i, attempt[i] + 1) \/ Finish(i, Failed("cancelled"))
    BY <1>11 DEF Backoff
  <2> QED  BY <1>1, <1>2, <1>4, <1>5, <2>1, <2>2 DEF Others, Reasons
<1> QED  BY <1>8, <1>9, <1>10, <1>11 DEF Goroutine

(* A step of a goroutine touches only the result of its own URL, which has not *)
(* been staged yet.                                                            *)
LEMMA GoroutineStep ==
  ASSUME InputsInv, NEW i \in Urls, Goroutine(i)
  PROVE  InputsInv'
<1>t. Types
  BY DEF InputsInv
<1>1. /\ main = "fetch" /\ main' = "fetch" /\ at' = at /\ dir' = dir /\ staged' = staged
      /\ origins' = origins /\ failures' = failures
  BY GoroutineMoves DEF stagingVars
<1>2. /\ attempt' \in [Urls -> Nat] /\ pc' \in [Urls -> Places]
      /\ \A j \in Urls \ {i} : pc'[j] = pc[j]
      /\ pc'[i] \in {"request", "download", "backoff", "done"}
  BY <1>t, GoroutineMoves DEF Types, Places
<1>3. /\ result' \in [Inputs -> Taken \cup Refused \cup {Pending}]
      /\ \A j \in Inputs \ {i} : result'[j] = result[j]
      /\ pc'[i] = "done" => result'[i].kind \in {"ok", "failed"}
      /\ result'[i].kind = "ok" => Want(i) \in {None, result'[i].content}
  <2>0. i \in Inputs
    BY DEF Inputs
  <2>1. CASE \E q \in {"request", "download", "backoff"} : pc' = [pc EXCEPT ![i] = q] /\ result' = result
    BY <1>t, <2>1 DEF Types, InputsInv, Goroutines
  <2>2. \/ \E q \in {"request", "download", "backoff"} : pc' = [pc EXCEPT ![i] = q] /\ result' = result
        \/ \E r \in Taken \cup Refused : result' = [result EXCEPT ![i] = r] /\ Stated(i, r)
    BY GoroutineMoves, Zenon
  <2>3. CASE \E r \in Taken \cup Refused : result' = [result EXCEPT ![i] = r] /\ Stated(i, r)
    <3>1. PICK r \in Taken \cup Refused : result' = [result EXCEPT ![i] = r] /\ Stated(i, r)
      BY <2>3, Zenon
    <3>2. r.kind \in {"ok", "failed"}
      BY DEF Taken, Refused
    <3>3. result \in [Inputs -> Taken \cup Refused \cup {Pending}]
      BY <1>t DEF Types
    <3>4. result' = [result EXCEPT ![i] = r]
      BY <3>1
    <3>5. result' \in [Inputs -> Taken \cup Refused \cup {Pending}]
      BY <3>3, <3>4
    <3>6. result'[i] = r /\ \A j \in Inputs \ {i} : result'[j] = result[j]
      BY <2>0, <3>3, <3>4
    <3> QED  BY <3>1, <3>2, <3>5, <3>6 DEF Stated
  <2> QED  BY <2>1, <2>2, <2>3
<1>4. Types'
  BY <1>t, <1>1, <1>2, <1>3 DEF Types
<1>5. Slots'
  <2>1. CASE pc[i] \in {"request", "download", "backoff"} \/ pc'[i] = "done"
    <3>1. Holders' \subseteq Holders
      BY <1>2, <2>1 DEF Holders
    <3> QED  BY <3>1, SlotsKept DEF InputsInv
  <2>2. CASE Cardinality(Holders) < Concurrency
    <3>1. Holders' \subseteq Holders \cup {i}
      BY <1>2 DEF Holders
    <3> QED  BY <2>2, <3>1, SlotTaken
  <2> QED  BY <2>1, <2>2, GoroutineMoves
<1>6. Goroutines'
  <2>1. \A j \in Urls : j \in Inputs
    BY DEF Inputs
  <2> QED  BY <1>1, <1>2, <1>3, <2>1 DEF InputsInv, Goroutines
<1>7. Reach'
  BY <1>1 DEF Reach
<1>8. i \notin Files
  BY Sizes
<1>9. \A j \in Inputs : Processed(j) => j # i
  BY <1>1, <1>8 DEF Processed
<1>10. \A j : Processed(j)' <=> Processed(j)
  BY <1>1 DEF Processed
<1>11. Reports'
  BY <1>1, <1>3, <1>9, <1>10 DEF InputsInv, Reports
<1>h. HadIsStaged'
  <2>1. \A j \in Inputs : Processed(j) => result'[j] = result[j]
    BY <1>3, <1>9
  <2> QED  BY <1>1, <1>10, <2>1 DEF InputsInv, HadIsStaged
<1>12. \A k \in DOMAIN staged : staged[k] \in Inputs /\ Processed(staged[k]) /\ result'[staged[k]] = result[staged[k]]
  BY <1>t, <1>1, <1>3, <1>9 DEF InputsInv, Directory, Types
<1>13. Directory'
  <2>1. \A k \in DOMAIN staged : NameOf(k)' = NameOf(k)
    BY <1>1, <1>12 DEF NameOf
  <2>2. \A k \in DOMAIN staged : LastOfName(k)' => LastOfName(k)
    BY <1>1, <2>1 DEF LastOfName
  <2>3. DOMAIN staged' = DOMAIN staged /\ \A k \in DOMAIN staged : staged'[k] = staged[k]
    BY <1>1
  <2> HIDE DEF NameOf, LastOfName
  <2> QED  BY <1>1, <1>10, <1>12, <2>1, <2>2, <2>3 DEF InputsInv, Directory
<1>14. Attribution'
  BY <1>1 DEF InputsInv, Attribution
<1> QED  BY <1>4, <1>5, <1>6, <1>7, <1>11, <1>h, <1>13, <1>14 DEF InputsInv

-----------------------------------------------------------------------------
(* The steps of stageExternals.                                            *)

(* What a step outside FetchAll leaves to be shown. *)
LEMMA MainKeeps ==
  ASSUME InputsInv, UNCHANGED pc, main # "fetch",
         result' \in [Inputs -> Taken \cup Refused \cup {Pending}], \A j \in Urls : result'[j] = result[j],
         main' = main \/ main' = "error" \/ (main \in {"stage", "index"} /\ main' \in {"index", "done"})
  PROVE  Slots' /\ Goroutines'
<1>1. Slots'
  BY SlotsKept DEF InputsInv, Holders
<1>2. Goroutines'
  BY DEF InputsInv, Goroutines
<1> QED  BY <1>1, <1>2

LEMMA ErrorStep ==
  ASSUME InputsInv, UNCHANGED <<pc, attempt, stagingVars>>, main # "fetch", Goto("error"),
         result' \in [Inputs -> Taken \cup Refused \cup {Pending}], \A j \in Urls : result'[j] = result[j]
  PROVE  InputsInv'
<1>1. main' = "error" /\ at' = 1
  BY DEF Goto
<1>2. Slots' /\ Goroutines'
  BY <1>1, MainKeeps
<1>3. Types'
  BY <1>1 DEF InputsInv, Types, stagingVars, Stages
<1>4. Reach' /\ Reports' /\ HadIsStaged' /\ Directory' /\ Attribution'
  BY <1>1 DEF Reach, Reports, HadIsStaged, Directory, Attribution
<1> QED  BY <1>2, <1>3, <1>4 DEF InputsInv

(* The input the loops of files and of results have reached. *)
Reached == \/ main = "files" /\ at \in Files
           \/ main = "stage" /\ at \in Urls

(* An input is staged over whatever has its base name. *)
LEMMA StageStep ==
  ASSUME InputsInv, Reached, UNCHANGED <<pc, attempt>>,
         result' \in [Inputs -> Taken \cup Refused \cup {Pending}],
         \A j \in Inputs \ {at} : result'[j] = result[j], at \in Urls => result'[at] = result[at],
         result'[at] \in Taken, StageFile(at, result'[at].name, result'[at].content)
  PROVE  InputsInv'
<1>p. PICK i, n, c, z : i = at /\ n = result'[at].name /\ c = result'[at].content /\ z = Len(staged) + 1
  OBVIOUS
<1>t. Types
  BY DEF InputsInv
<1>0. i \in Inputs /\ n \in Names /\ c \in Contents /\ result'[i].kind = "ok" /\ main \in {"files", "stage"}
  BY <1>p DEF Reached, Inputs, Taken
<1>u. \A j \in Urls : result'[j] = result[j]
  BY DEF Inputs
<1>1. CASE Goto("error") /\ UNCHANGED stagingVars
  BY <1>p, <1>0, <1>1, <1>u, ErrorStep
<1>2. CASE /\ dir' = [dir EXCEPT ![n] = c] /\ staged' = Append(staged, i)
           /\ main' = main /\ at' = at + 1 /\ UNCHANGED <<failures, origins>>
  <2>1. Slots' /\ Goroutines'
    BY <1>p, <1>0, <1>2, <1>u, MainKeeps
  <2>2. Types'
    BY <1>p, <1>t, <1>0, <1>2 DEF Types
  <2>3. \A j \in Inputs : Processed(j)' <=> Processed(j) \/ j = i
    <3>1. i \in Nat /\ \A j \in Inputs : j \in Nat
      BY <1>p, <1>0, Sizes
    <3>2. \A j \in Inputs : j < i + 1 <=> j < i \/ j = i
      BY <3>1
    <3> QED  BY <1>p, <1>0, <1>2, <3>2 DEF Processed
  <2>4. ~Processed(i)
    <3>1. i \in Nat
      BY <1>p, <1>0, Sizes
    <3> QED  BY <1>p, <1>0, <3>1 DEF Processed
  <2>5. Reach'
    <3>1. Len(Locals) \in Nat /\ Len(Wants) \in Nat /\ i \in Nat
      BY <1>p, <1>0, Sizes
    <3>2. CASE main = "files"
      BY <1>2, <3>1, <3>2, Sizes DEF Reached, Files, Urls, Reach
    <3>3. CASE main = "stage"
      BY <1>2, <3>1, <3>3, Sizes DEF Reached, Files, Urls, Reach
    <3> QED  BY <1>p, <1>0, <3>2, <3>3
  <2>6. Reports'
    BY <1>p, <1>0, <1>2, <2>3, <2>4 DEF InputsInv, Reports
  <2> DEFINE K == DOMAIN staged
  <2>7. /\ K = 1 .. Len(staged) /\ Len(staged) \in Nat /\ DOMAIN staged' = 1 .. z
        /\ staged'[z] = i /\ \A k \in K : staged'[k] = staged[k] /\ staged[k] \in Inputs
    BY <1>p, <1>t, <1>0, <1>2 DEF Types
  <2>8. \A k \in K : /\ Processed(staged[k]) /\ staged[k] # i /\ result'[staged[k]] = result[staged[k]]
                     /\ result[staged[k]].kind = "ok" /\ staged[k] \in Inputs
    BY <1>p, <1>0, <2>4, <2>7 DEF InputsInv, Directory
  <2>9. NameOf(z)' = n /\ \A k \in K : NameOf(k)' = NameOf(k) /\ NameOf(k) \in Names
    <3>1. \A k \in K : result[staged[k]] \in Taken
      BY <1>p, <1>t, <2>8 DEF Types, Taken, Refused, Pending
    <3> QED  BY <2>7, <2>8, <3>1, <1>p DEF NameOf, Taken
  <2>10. \A k \in K : LastOfName(k)' => LastOfName(k) /\ NameOf(k) # n
    BY <1>p, <2>7, <2>9 DEF LastOfName
  <2>11. \A m \in Names : dir'[m] = IF m = n THEN c ELSE dir[m]
    BY <1>p, <1>t, <1>0, <1>2 DEF Types
  <2>12. Directory'
    <3>1. \A k \in DOMAIN staged' : k \in K \/ k = z
      BY <1>p, <2>7
    <3>2. ASSUME NEW k \in K
          PROVE  /\ result'[staged'[k]].kind = "ok" /\ Processed(staged[k])'
                 /\ LastOfName(k)' => dir'[NameOf(k)'] \in {None, result'[staged'[k]].content}
      BY <1>p, <1>0, <2>3, <2>7, <2>8, <2>9, <2>10, <2>11 DEF InputsInv, Directory, K
    <3>3. /\ result'[staged'[z]].kind = "ok" /\ Processed(i)'
          /\ dir'[NameOf(z)'] \in {None, result'[staged'[z]].content}
      BY <1>p, <1>0, <2>3, <2>7, <2>9, <2>11 
    <3>4. \A m \in Names : dir'[m] # None => \E k \in DOMAIN staged' : NameOf(k)' = m
      <4>1. ASSUME NEW m \in Names, m # n, dir'[m] # None  PROVE \E k \in DOMAIN staged' : NameOf(k)' = m
        <5>1. PICK k \in K : NameOf(k) = m
          BY <1>p, <1>0, <2>11, <4>1 DEF InputsInv, Directory, K
        <5> QED  BY <1>p, <2>7, <2>9, <5>1
      <4>2. z \in DOMAIN staged'
        BY <1>p, <2>7
      <4> QED  BY <2>9, <4>1, <4>2
    <3> QED  BY <2>7, <3>1, <3>2, <3>3, <3>4 DEF Directory
  <2>h. HadIsStaged'
    <3>1. z \in DOMAIN staged' /\ \A k \in DOMAIN staged : k \in DOMAIN staged' /\ staged'[k] = staged[k]
      BY <1>p, <2>7
    <3>2. ASSUME NEW j \in Inputs, j # i, Processed(j)', result'[j].kind = "ok"
          PROVE  \E k \in DOMAIN staged' : staged'[k] = j
      <4>1. Processed(j) /\ result[j].kind = "ok" /\ main # "error"
        BY <1>p, <1>0, <2>3, <3>2
      <4>2. \E k \in DOMAIN staged : staged[k] = j
        BY <4>1 DEF InputsInv, HadIsStaged
      <4> QED  BY <3>1, <4>2
    <3>3. \E k \in DOMAIN staged' : staged'[k] = i
      BY <2>7, <3>1
    <3> QED  BY <3>2, <3>3 DEF HadIsStaged
  <2>13. Attribution'
    BY <1>p, <1>0, <1>2 DEF InputsInv, Attribution
  <2> QED  BY <2>1, <2>2, <2>5, <2>6, <2>h, <2>12, <2>13 DEF InputsInv
<1> QED  BY <1>p, <1>1, <1>2 DEF StageFile, Advance

(* An input that could not be had is reported. *)
LEMMA ReportStep ==
  ASSUME InputsInv, Reached, UNCHANGED <<pc, attempt>>,
         result' \in [Inputs -> Taken \cup Refused \cup {Pending}],
         \A j \in Inputs \ {at} : result'[j] = result[j], at \in Urls => result'[at] = result[at],
         result'[at].kind = "failed", Report(at)
  PROVE  InputsInv'
<1>p. PICK i : i = at
  OBVIOUS
<1>t. Types
  BY DEF InputsInv
<1>0. i \in Inputs /\ i \in Nat /\ main \in {"files", "stage"} /\ \A j \in Inputs : j \in Nat
  BY <1>p, Sizes DEF Reached, Inputs
<1>1. /\ failures' = failures \cup {i} /\ main' = main /\ at' = at + 1
      /\ dir' = dir /\ staged' = staged /\ origins' = origins
  BY <1>p DEF Report, Advance
<1>u. \A j \in Urls : result'[j] = result[j]
  BY <1>p DEF Inputs
<1>2. Slots' /\ Goroutines'
  BY <1>p, <1>0, <1>1, <1>u, MainKeeps
<1>3. Types'
  BY <1>p, <1>t, <1>0, <1>1 DEF Types
<1>4. \A j \in Inputs : Processed(j)' <=> Processed(j) \/ j = i
  <2>1. \A j \in Inputs : j < i + 1 <=> j < i \/ j = i
    BY <1>p, <1>0
  <2> QED  BY <1>p, <1>0, <1>1, <2>1 DEF Processed
<1>5. ~Processed(i)
  BY <1>p, <1>0 DEF Processed
<1>6. Reach'
  <2>1. CASE main = "files"
    BY <1>p, <1>0, <1>1, <2>1, Sizes DEF Reached, Files, Urls, Reach
  <2>2. CASE main = "stage"
    BY <1>p, <1>0, <1>1, <2>2, Sizes DEF Reached, Files, Urls, Reach
  <2> QED  BY <1>p, <1>0, <2>1, <2>2
<1>7. Reports'
  BY <1>p, <1>0, <1>1, <1>4, <1>5 DEF InputsInv, Reports
<1>8. \A k \in DOMAIN staged : staged[k] \in Inputs /\ Processed(staged[k]) /\ result'[staged[k]] = result[staged[k]]
  <2>1. \A k \in DOMAIN staged : staged[k] \in Inputs
    BY <1>t DEF Types
  <2>2. \A k \in DOMAIN staged : Processed(staged[k])
    BY <1>0 DEF InputsInv, Directory
  <2>3. \A k \in DOMAIN staged : staged[k] # i
    BY <1>5, <2>2
  <2> QED  BY <1>p, <2>1, <2>2, <2>3
<1>9. Directory'
  <2>1. \A k \in DOMAIN staged : NameOf(k)' = NameOf(k)
    BY <1>1, <1>8 DEF NameOf
  <2>2. \A k \in DOMAIN staged : LastOfName(k)' => LastOfName(k)
    BY <1>1, <2>1 DEF LastOfName
  <2>3. \A k \in DOMAIN staged : Processed(staged[k])' /\ staged'[k] = staged[k]
    BY <1>1, <1>4, <1>8
  <2> QED  BY <1>p, <1>0, <1>1, <1>8, <2>1, <2>2, <2>3 DEF InputsInv, Directory
<1>h. HadIsStaged'
  <2>1. ASSUME NEW j \in Inputs, Processed(j)', result'[j].kind = "ok"
        PROVE  Processed(j) /\ result[j].kind = "ok"
    BY <1>p, <1>4, <2>1
  <2> QED  BY <1>0, <1>1, <2>1 DEF InputsInv, HadIsStaged
<1>10. Attribution'
  BY <1>p, <1>0, <1>1 DEF InputsInv, Attribution
<1> QED  BY <1>2, <1>3, <1>6, <1>7, <1>9, <1>h, <1>10 DEF InputsInv

(* A step that leaves what was staged and what was processed alone. *)
LEMMA KeepsReports ==
  ASSUME InputsInv, main # "error", UNCHANGED <<result, dir, staged, failures>>,
         \A j \in Inputs : Processed(j)' <=> Processed(j)
  PROVE  Reports' /\ HadIsStaged' /\ Directory'
<1>1. Reports' /\ HadIsStaged'
  BY DEF InputsInv, Reports, HadIsStaged
<1>2. \A k \in DOMAIN staged : staged[k] \in Inputs
  BY DEF InputsInv, Types
<1>3. \A k \in DOMAIN staged : Processed(staged[k])'
  BY <1>2 DEF InputsInv, Directory
<1>4. \A k : NameOf(k)' = NameOf(k)
  BY DEF NameOf
<1>5. \A k : LastOfName(k)' <=> LastOfName(k)
  BY <1>4 DEF LastOfName
<1>6. Directory'
  BY <1>3, <1>4, <1>5 DEF InputsInv, Directory
<1> QED  BY <1>1, <1>6

LEMMA LocalFileStep ==
  ASSUME InputsInv, LocalFile
  PROVE  InputsInv'
<1>0. main = "files" /\ at \in Files /\ Reached /\ at \in Inputs /\ at \notin Urls
  BY Sizes DEF LocalFile, Reached, Inputs
<1>1. result \in [Inputs -> Taken \cup Refused \cup {Pending}]
  BY DEF InputsInv, Types
<1>2. UNCHANGED <<pc, attempt>>
  BY DEF LocalFile
<1>3. ASSUME NEW r \in Taken \cup Refused, result' = [result EXCEPT ![at] = r]
      PROVE  /\ result' \in [Inputs -> Taken \cup Refused \cup {Pending}]
             /\ \A j \in Inputs \ {at} : result'[j] = result[j]
             /\ result'[at] = r
  BY <1>0, <1>1, <1>3
<1>4. ASSUME NEW c \in Contents,
             result' = [result EXCEPT ![at] = [kind |-> "ok", name |-> Locals[at], content |-> c]],
             StageFile(at, Locals[at], c)
      PROVE  InputsInv'
  <2>1. PICK r : r = [kind |-> "ok", name |-> Locals[at], content |-> c]
    OBVIOUS
  <2>2. r \in Taken /\ r.name = Locals[at] /\ r.content = c
    BY <1>0, <2>1, Sizes DEF Taken
  <2>3. /\ result' \in [Inputs -> Taken \cup Refused \cup {Pending}]
        /\ \A j \in Inputs \ {at} : result'[j] = result[j]
        /\ result'[at] = r
    BY <1>3, <1>4, <2>1, <2>2
  <2>4. StageFile(at, result'[at].name, result'[at].content)
    BY <1>4, <2>2, <2>3
  <2> QED  BY <1>0, <1>2, <2>2, <2>3, <2>4, StageStep
<1>5. ASSUME NEW reason \in {"fatal", "cancelled"}, result' = [result EXCEPT ![at] = Failed(reason)], Report(at)
      PROVE  InputsInv'
  <2>1. Failed(reason) \in Refused /\ Failed(reason).kind = "failed"
    BY DEF Failed, Refused, Reasons
  <2>2. /\ result' \in [Inputs -> Taken \cup Refused \cup {Pending}]
        /\ \A j \in Inputs \ {at} : result'[j] = result[j]
        /\ result'[at] = Failed(reason)
    BY <1>3, <1>5, <2>1
  <2> QED  BY <1>0, <1>2, <1>5, <2>1, <2>2, ReportStep
<1> QED  BY <1>4, <1>5 DEF LocalFile

LEMMA FetchAllStep ==
  ASSUME InputsInv, FetchAll
  PROVE  InputsInv'
<1>0. /\ main = "files" /\ at \notin Files /\ main' = "fetch" /\ at' = 1 /\ pc' = [i \in Urls |-> "start"]
      /\ UNCHANGED <<attempt, result, dir, staged, origins, failures>>
  BY DEF FetchAll, Goto, stagingVars
<1>1. at = Len(Locals) + 1
  BY <1>0, Sizes DEF InputsInv, Reach, Files
<1>2. \A j \in Inputs : Processed(j)' <=> Processed(j)
  BY <1>0, <1>1, Sizes DEF Processed
<1>3. Reports' /\ HadIsStaged' /\ Directory'
  BY <1>0, <1>2, KeepsReports
<1>4. Types'
  BY <1>0 DEF InputsInv, Types, Stages, Places
<1>5. Slots'
  <2>1. Holders' \subseteq Holders
    BY <1>0 DEF Holders
  <2> QED  BY <2>1, SlotsKept DEF InputsInv
<1>6. Goroutines'
  BY <1>0 DEF InputsInv, Goroutines
<1>7. Reach' /\ Attribution'
  BY <1>0 DEF InputsInv, Reach, Attribution
<1> QED  BY <1>3, <1>4, <1>5, <1>6, <1>7 DEF InputsInv

LEMMA FetchedAllStep ==
  ASSUME InputsInv, FetchedAll
  PROVE  InputsInv'
<1>0. /\ main = "fetch" /\ main' = "stage" /\ at' = Len(Locals) + 1 /\ \A i \in Urls : pc[i] = "done"
      /\ UNCHANGED <<pc, attempt, result, dir, staged, origins, failures>>
  BY DEF FetchedAll, fetchVars, stagingVars
<1>2. \A j \in Inputs : Processed(j)' <=> Processed(j)
  BY <1>0, Sizes DEF Processed
<1>3. Reports' /\ HadIsStaged' /\ Directory'
  BY <1>0, <1>2, KeepsReports
<1>4. Types'
  BY <1>0, Sizes DEF InputsInv, Types, Stages
<1>5. Slots'
  <2>1. Holders' \subseteq Holders
    BY <1>0 DEF Holders
  <2> QED  BY <2>1, SlotsKept DEF InputsInv
<1>6. Goroutines'
  BY <1>0 DEF InputsInv, Goroutines
<1>7. Reach' /\ Attribution'
  BY <1>0, Sizes DEF InputsInv, Reach, Attribution
<1> QED  BY <1>3, <1>4, <1>5, <1>6, <1>7 DEF InputsInv

LEMMA StageResultStep ==
  ASSUME InputsInv, StageResult
  PROVE  InputsInv'
<1>0. /\ main = "stage" /\ at \in Urls /\ Reached /\ at \in Inputs
      /\ UNCHANGED <<pc, attempt, result>>
  BY DEF StageResult, Reached, Inputs, fetchVars
<1>1. result \in [Inputs -> Taken \cup Refused \cup {Pending}]
  BY DEF InputsInv, Types
<1>2. result[at].kind \in {"ok", "failed"}
  BY <1>0 DEF InputsInv, Goroutines
<1>3. result[at].kind = "ok" => result[at] \in Taken
  BY <1>0, <1>1 DEF Taken, Refused, Pending
<1>4. CASE result[at].kind = "ok"
  <2>1. StageFile(at, result'[at].name, result'[at].content)
    BY <1>0, <1>4 DEF StageResult
  <2> QED  BY <1>0, <1>1, <1>3, <1>4, <2>1, StageStep
<1>5. CASE result[at].kind = "failed"
  <2>1. Report(at)
    BY <1>5 DEF StageResult
  <2> QED  BY <1>0, <1>1, <1>5, <2>1, ReportStep
<1> QED  BY <1>2, <1>4, <1>5

LEMMA StagedAllStep ==
  ASSUME InputsInv, StagedAll
  PROVE  InputsInv'
<1>0. /\ main = "stage" /\ at \notin Urls /\ at' = 1
      /\ main' = IF staged = <<>> THEN "done" ELSE "index"
      /\ UNCHANGED <<pc, attempt, result, dir, staged, origins, failures>>
  BY DEF StagedAll, Goto, fetchVars, stagingVars
<1>t. staged \in Seq(Inputs) /\ Len(staged) \in Nat /\ main' \in {"done", "index"}
  BY <1>0 DEF InputsInv, Types
<1>1. at = Len(Locals) + Len(Wants) + 1
  BY <1>0, Sizes DEF InputsInv, Reach, Urls
<1>2. \A j \in Inputs : j < at
  BY <1>1, Sizes DEF Inputs, Files, Urls
<1>3. \A j \in Inputs : Processed(j)' <=> Processed(j)
  BY <1>0, <1>2, <1>t DEF Processed
<1>4. Reports' /\ HadIsStaged' /\ Directory'
  BY <1>0, <1>3, KeepsReports
<1>5. Types'
  BY <1>0, <1>t DEF InputsInv, Types, Stages
<1>6. Slots' /\ Goroutines'
  <2>1. result' \in [Inputs -> Taken \cup Refused \cup {Pending}]
    BY <1>0 DEF InputsInv, Types
  <2> QED  BY <1>0, <1>t, <2>1, MainKeeps
<1>7. Reach'
  BY <1>0, <1>t DEF Reach
<1>8. origins = [n \in Names |-> None]
  BY <1>0 DEF InputsInv, Attribution
<1>9. Attribution'
  <2>1. CASE main' = "done"
    <3>1. staged = <<>>
      BY <1>0, <2>1
    <3>2. \A n \in Names : dir[n] = None
      BY <1>0, <3>1 DEF InputsInv, Directory
    <3>3. \A n \in Names : origins'[n] = None /\ dir'[n] = None
      BY <1>0, <1>8, <3>2
    <3>4. DOMAIN staged' = {}
      BY <1>0, <3>1
    <3> QED  BY <2>1, <3>3, <3>4 DEF Attribution
  <2>2. CASE main' = "index"
    <3>1. \A k \in DOMAIN staged' : ~(k < at')
      BY <1>0, <1>t
    <3> QED  BY <2>2, <3>1 DEF Attribution
  <2> QED  BY <1>t, <2>1, <2>2
<1> QED  BY <1>4, <1>5, <1>6, <1>7, <1>9 DEF InputsInv

(* One staged file is read, or removed. *)
LEMMA IndexStep ==
  ASSUME InputsInv, Index
  PROVE  InputsInv'
<1>p. PICK i, n, a : a = at /\ i = staged[at] /\ n = result[i].name
  OBVIOUS
<1>0. /\ main = "index" /\ a \in DOMAIN staged /\ main' = "index" /\ at' = a + 1
      /\ UNCHANGED <<pc, attempt, result, staged, failures>>
      /\ \/ origins' = [origins EXCEPT ![n] = i] /\ dir' = dir
         \/ dir' = [dir EXCEPT ![n] = None] /\ origins' = origins
  BY <1>p DEF Index, Advance, fetchVars
<1>t. /\ staged \in Seq(Inputs) /\ Len(staged) \in Nat /\ DOMAIN staged = 1 .. Len(staged)
      /\ a \in Nat /\ i \in Inputs /\ \A k \in DOMAIN staged : staged[k] \in Inputs
  BY <1>0, <1>p DEF InputsInv, Types
<1>1. \A k \in DOMAIN staged : result[staged[k]] \in Taken /\ NameOf(k) \in Names
  <2>1. \A k \in DOMAIN staged : result[staged[k]].kind = "ok"
    BY <1>0 DEF InputsInv, Directory
  <2>2. result \in [Inputs -> Taken \cup Refused \cup {Pending}]
    BY DEF InputsInv, Types
  <2>3. \A k \in DOMAIN staged : result[staged[k]] \in Taken
    BY <1>t, <2>1, <2>2 DEF Taken, Refused, Pending
  <2> QED  BY <2>3 DEF NameOf, Taken
<1>2. NameOf(a) = n /\ n \in Names
  BY <1>0, <1>1, <1>p DEF NameOf
<1>3. \A m \in Names : /\ dir'[m] \in {None, dir[m]}
                       /\ m # n => dir'[m] = dir[m] /\ origins'[m] = origins[m]
                       /\ m = n /\ dir'[m] # None => origins'[m] = i
  BY <1>0, <1>2 DEF InputsInv, Types
<1>4. Types'
  <2>1. dir' \in [Names -> Contents \cup {None}] /\ origins' \in [Names -> Inputs \cup {None}]
    BY <1>0, <1>t, <1>2 DEF InputsInv, Types
  <2>2. at' \in Nat
    BY <1>0, <1>t
  <2> QED  BY <1>0, <2>1, <2>2 DEF InputsInv, Types
<1>5. Slots' /\ Goroutines'
  <2>1. result' \in [Inputs -> Taken \cup Refused \cup {Pending}]
    BY <1>0 DEF InputsInv, Types
  <2> QED  BY <1>0, <2>1, MainKeeps
<1>6. Reach'
  BY <1>0, <1>t DEF Reach
<1>7. \A j : Processed(j)' /\ Processed(j)
  BY <1>0 DEF Processed
<1>8. Reports' /\ HadIsStaged'
  BY <1>0, <1>7 DEF InputsInv, Reports, HadIsStaged
<1>9. \A k : NameOf(k)' = NameOf(k)
  BY <1>0 DEF NameOf
<1>10. \A k : LastOfName(k)' <=> LastOfName(k)
  BY <1>0, <1>9 DEF LastOfName
<1>11. Directory'
  <2>1. \A k \in DOMAIN staged : /\ result[staged[k]].kind = "ok"
                                 /\ LastOfName(k) => dir'[NameOf(k)] \in {None, result[staged[k]].content}
    BY <1>0, <1>1, <1>3 DEF InputsInv, Directory
  <2>2. \A m \in Names : dir'[m] # None => \E k \in DOMAIN staged : NameOf(k) = m
    BY <1>0, <1>3 DEF InputsInv, Directory
  <2> QED  BY <1>0, <1>7, <1>9, <1>10, <2>1, <2>2 DEF Directory
<1>12. Attribution'
  <2>1. SUFFICES ASSUME NEW m \in Names, dir'[m] # None
                 PROVE  \/ \A k \in DOMAIN staged : k < a + 1 => NameOf(k) # m
                        \/ \E k \in DOMAIN staged :
                              /\ k < a + 1 /\ NameOf(k) = m /\ origins'[m] = staged[k]
                              /\ \A l \in DOMAIN staged : k < l /\ l < a + 1 => NameOf(l) # m
    BY <1>0, <1>9 DEF Attribution
  <2>2. \A k \in DOMAIN staged : k \in Nat /\ (k < a + 1 <=> k < a \/ k = a)
    BY <1>t
  <2>3. CASE m = n
    <3>1. origins'[m] = staged[a]
      BY <1>3, <1>p, <2>1, <2>3
    <3>2. a < a + 1 /\ \A l \in DOMAIN staged : ~(a < l /\ l < a + 1)
      BY <1>t, <2>2
    <3> QED  BY <1>0, <1>2, <2>3, <3>1, <3>2
  <2>4. CASE m # n
    <3>1. dir[m] # None /\ origins'[m] = origins[m]
      BY <1>3, <2>1, <2>4
    <3>2. \/ \A k \in DOMAIN staged : k < a => NameOf(k) # m
          \/ \E k \in DOMAIN staged :
                /\ k < a /\ NameOf(k) = m /\ origins[m] = staged[k]
                /\ \A l \in DOMAIN staged : k < l /\ l < a => NameOf(l) # m
      BY <1>0, <1>p, <3>1 DEF InputsInv, Attribution
    <3>3. NameOf(a) # m
      BY <1>2, <2>4
    <3> QED  BY <2>2, <3>1, <3>2, <3>3
  <2> QED  BY <2>3, <2>4
<1> QED  BY <1>4, <1>5, <1>6, <1>8, <1>11, <1>12 DEF InputsInv

(* The directory becomes a repository: by then a file that is still there is  *)
(* attributed to the last input of its name, which is the one that wrote it.   *)
LEMMA WriteRepositoryStep ==
  ASSUME InputsInv, WriteRepository
  PROVE  InputsInv'
<1>0. /\ main = "index" /\ at \notin DOMAIN staged
      /\ UNCHANGED <<pc, attempt, result, stagingVars>>
      /\ \/ (\A n \in Names : origins[n] # None => dir[n] # None) /\ Goto("done")
         \/ Goto("error")
  BY DEF WriteRepository, fetchVars
<1>t. /\ staged \in Seq(Inputs) /\ Len(staged) \in Nat /\ DOMAIN staged = 1 .. Len(staged)
      /\ \A k \in DOMAIN staged : staged[k] \in Inputs
      /\ result \in [Inputs -> Taken \cup Refused \cup {Pending}]
  BY DEF InputsInv, Types
<1>1. at = Len(staged) + 1
  BY <1>0, <1>t DEF InputsInv, Reach
<1>2. CASE Goto("error")
  BY <1>0, <1>t, <1>2, ErrorStep
<1>3. CASE (\A n \in Names : origins[n] # None => dir[n] # None) /\ Goto("done")
  <2>0. /\ main' = "done" /\ at' = 1
        /\ UNCHANGED <<pc, attempt, result, dir, staged, origins, failures>>
    BY <1>0, <1>3 DEF Goto, stagingVars
  <2>1. \A j \in Inputs : Processed(j)' <=> Processed(j)
    BY <1>0, <2>0 DEF Processed
  <2>2. Reports' /\ HadIsStaged' /\ Directory'
    BY <1>0, <2>0, <2>1, KeepsReports
  <2>3. Types'
    BY <2>0 DEF InputsInv, Types, Stages
  <2>4. Slots' /\ Goroutines'
    BY <1>0, <1>t, <2>0, MainKeeps
  <2>5. Reach'
    BY <2>0 DEF Reach
  <2>6. ASSUME NEW n \in Names, dir[n] # None
        PROVE  /\ origins[n] # None
               /\ result[origins[n]] = [kind |-> "ok", name |-> n, content |-> dir[n]]
    <3>1. \A k \in DOMAIN staged : k < at
      BY <1>1, <1>t
    <3>2. \E k \in DOMAIN staged : NameOf(k) = n
      BY <1>0, <2>6 DEF InputsInv, Directory
    <3>3. PICK k \in DOMAIN staged : /\ NameOf(k) = n /\ origins[n] = staged[k]
                                     /\ \A l \in DOMAIN staged : k < l => NameOf(l) # n
      BY <1>0, <2>6, <3>1, <3>2 DEF InputsInv, Attribution
    <3>4. LastOfName(k)
      <4>1. k \in Nat /\ \A l \in DOMAIN staged : l \in Nat
        BY <1>t
      <4> QED  BY <3>3, <4>1 DEF LastOfName
    <3>5. result[staged[k]].kind = "ok" /\ dir[n] = result[staged[k]].content
      BY <1>0, <2>6, <3>3, <3>4 DEF InputsInv, Directory
    <3>6. result[staged[k]] \in Taken
      BY <1>t, <3>5 DEF Taken, Refused, Pending
    <3>7. result[staged[k]].name = n
      BY <3>3 DEF NameOf
    <3>8. result[staged[k]] = [kind |-> "ok", name |-> n, content |-> dir[n]]
      BY <3>5, <3>6, <3>7 DEF Taken
    <3> QED  BY <1>t, <3>3, <3>8, Sizes
  <2>8. ASSUME NEW j \in DOMAIN staged  PROVE LaterOrGone(j)
    <3>0. result[staged[j]].kind = "ok"
      BY <1>0 DEF InputsInv, Directory
    <3>1. result[staged[j]] \in Taken
      BY <1>t, <3>0 DEF Taken, Refused, Pending
    <3>2. NameOf(j) \in Names
      BY <3>1 DEF Taken, NameOf
    <3>3. CASE dir[NameOf(j)] = None
      BY <1>3, <3>2, <3>3 DEF LaterOrGone
    <3>4. CASE dir[NameOf(j)] # None
      <4>1. \A k \in DOMAIN staged : k < at /\ k \in Nat
        BY <1>1, <1>t
      <4>2. PICK k \in DOMAIN staged : /\ NameOf(k) = NameOf(j) /\ origins[NameOf(j)] = staged[k]
                                       /\ \A l \in DOMAIN staged : k < l => NameOf(l) # NameOf(j)
        BY <1>0, <3>2, <3>4, <4>1 DEF InputsInv, Attribution
      <4>3. j <= k
        BY <4>1, <4>2
      <4> QED  BY <4>2, <4>3 DEF LaterOrGone
    <3> QED  BY <3>3, <3>4
  <2>7. Attribution'
    <3>1. \A k \in DOMAIN staged' : LaterOrGone(k)'
      BY <2>0, <2>8 DEF LaterOrGone, NameOf
    <3> QED  BY <1>3, <2>0, <2>6, <3>1 DEF Attribution
  <2> QED  BY <2>2, <2>3, <2>4, <2>5, <2>7 DEF InputsInv
<1> QED  BY <1>0, <1>2, <1>3

-----------------------------------------------------------------------------
LEMMA Initially ==
  ASSUME Init
  PROVE  InputsInv
<1>1. Types
  BY Sizes DEF Init, Types, Stages, Places
<1>2. Slots
  <2>1. Holders = {}
    BY DEF Init, Holders
  <2> QED  BY <2>1, FS_EmptySet, ConstantsAssumption DEF Slots
<1>3. \A i \in Inputs : result[i].kind = "pending"
  BY DEF Init, Pending
<1>4. Goroutines
  BY <1>3 DEF Init, Goroutines, Inputs
<1>5. Reach
  BY Sizes DEF Init, Reach
<1>6. \A i \in Inputs : ~Processed(i)
  BY Sizes DEF Init, Processed, Inputs, Files, Urls
<1>7. Reports /\ HadIsStaged
  BY <1>6 DEF Init, Reports, HadIsStaged
<1>8. Directory
  BY DEF Init, Directory
<1>9. Attribution
  BY DEF Init, Attribution
<1> QED  BY <1>1, <1>2, <1>4, <1>5, <1>7, <1>8, <1>9 DEF InputsInv

LEMMA Preserved ==
  ASSUME InputsInv, [Next]_vars
  PROVE  InputsInv'
<1>1. CASE UNCHANGED <<main, at, pc, attempt, result, dir, staged, origins, failures>>
  BY <1>1 DEF InputsInv, Types, Slots, Holders, Goroutines, Reach, Reports, HadIsStaged, Directory, Attribution,
              Processed, NameOf, LastOfName, LaterOrGone
<1>2. CASE Main
  BY <1>2, LocalFileStep, FetchAllStep, FetchedAllStep, StageResultStep, StagedAllStep, IndexStep,
     WriteRepositoryStep DEF Main
<1>3. CASE \E i \in Urls : Goroutine(i)
  BY <1>3, GoroutineStep
<1>4. CASE Cancel \/ UNCHANGED vars
  BY <1>1, <1>4 DEF Cancel, vars, fetchVars, stagingVars
<1> QED  BY <1>2, <1>3, <1>4 DEF Next

(* For any number of inputs, whichever share a base name, for any number of     *)
(* slots and retries, whatever each attempt is answered and whenever the context *)
(* ends, stageExternals (core/engine/inputs.go, core/fetch/fetcher.go) accounts  *)
(* for every input: reported and not attributed, attributed, or lost to a later  *)
(* input of its base name or with a file that was not read.                      *)
THEOREM InputsAccountedFor == Spec => []InputsAreAccountedFor
<1>1. InputsInv => InputsAreAccountedFor
  <2>1. ASSUME InputsInv, main \in {"index", "done"}
        PROVE  \A i \in Inputs : /\ result[i].kind \in {"ok", "failed"}
                                 /\ i \in failures <=> result[i].kind = "failed"
                                 /\ result[i].kind = "ok" => \E k \in DOMAIN staged : staged[k] = i
    BY <2>1 DEF InputsInv, Reports, HadIsStaged, Processed
  <2>2. ASSUME InputsInv, main = "done", NEW i \in Inputs
        PROVE  \/ i \in failures /\ \A n \in Names : origins[n] # i
               \/ result[i].kind = "ok" /\ (origins[result[i].name] = i \/ Overtaken(i))
    <3>1. CASE result[i].kind = "failed"
      <4>1. ASSUME NEW n \in Names, origins[n] # None  PROVE result[origins[n]].kind = "ok"
        <5>1. result[origins[n]] = [kind |-> "ok", name |-> n, content |-> dir[n]]
          BY <2>2, <4>1 DEF InputsInv, Attribution
        <5> QED  BY <5>1
      <4> QED  BY <2>1, <2>2, <3>1, <4>1, Sizes
    <3>2. CASE result[i].kind = "ok"
      <4>1. PICK k \in DOMAIN staged : staged[k] = i
        BY <2>1, <2>2, <3>2
      <4>2. LaterOrGone(k) /\ NameOf(k) = result[i].name
        BY <2>2, <4>1 DEF InputsInv, Attribution, NameOf
      <4>3. \A l \in DOMAIN staged : k \in Nat /\ l \in Nat
        BY <2>2 DEF InputsInv, Types
      <4>4. \A l \in DOMAIN staged : k <= l => l = k \/ k < l
        BY <4>3
      <4> QED  BY <3>2, <4>1, <4>2, <4>4 DEF LaterOrGone, Overtaken
    <3> QED  BY <2>1, <2>2, <3>1, <3>2
  <2> QED  BY <2>1, <2>2 DEF InputsInv, Slots, Goroutines, Attribution, InputsAreAccountedFor
<1> QED  BY <1>1, Initially, Preserved, PTL DEF Spec

-----------------------------------------------------------------------------
(* The verdict on a signature block.                                          *)

(* A directory that lies above another, by identity, contains it. *)
LEMMA PrefixContains ==
  ASSUME NEW p \in Existing, NEW q \in Existing, IsPrefix(Identity(p), Identity(q))
  PROVE  PathContains(p, q)
<1>1. p \in Seq(DOMAIN Fold) /\ q \in Seq(DOMAIN Fold)
  BY SourcesAssumption
<1> DEFINE C == {Fold[c] : c \in DOMAIN Fold}
<1>2. Identity(p) \in Seq(C) /\ Identity(q) \in Seq(C) /\ Len(Identity(p)) = Len(p) /\ Len(Identity(q)) = Len(q)
  BY <1>1 DEF Identity
<1>3. Len(p) \in 0..Len(q) /\ \A j \in 1..Len(p) : Identity(p)[j] = Identity(q)[j]
  <2>1. Len(p) \in Nat /\ Len(q) \in Nat /\ Len(p) <= Len(q)
    BY <1>1, <1>2 DEF IsPrefix
  <2>2. SubSeq(Identity(p), 1, Len(p)) = SubSeq(Identity(q), 1, Len(p))
    BY <1>2 DEF IsPrefix
  <2> HIDE DEF C
  <2>3. \A j \in 1..Len(p) : SubSeq(Identity(p), 1, Len(p))[j] = Identity(p)[j] /\ SubSeq(Identity(q), 1, Len(p))[j] = Identity(q)[j]
    BY <1>2, <2>1
  <2> QED  BY <2>1, <2>2, <2>3
<1>4. PICK a : a = SubSeq(q, 1, Len(p))
  OBVIOUS
<1>5. a \in Existing
  BY <1>3, <1>4, SourcesAssumption
<1>6. DOMAIN a = 1..Len(p) /\ DOMAIN p = 1..Len(p) /\ DOMAIN q = 1..Len(q) /\ \A j \in 1..Len(p) : a[j] = q[j]
  BY <1>1, <1>3, <1>4
<1>7. Identity(a) = Identity(p)
  <2>1. \A j \in 1..Len(p) : j \in DOMAIN p /\ j \in DOMAIN q
    BY <1>1, <1>3, <1>6
  <2>2. \A j \in 1..Len(p) : Identity(p)[j] = Fold[p[j]] /\ Identity(q)[j] = Fold[q[j]]
    BY <2>1 DEF Identity
  <2>3. \A j \in 1..Len(p) : Fold[a[j]] = Fold[p[j]]
    BY <1>3, <1>6, <2>2
  <2> QED  BY <1>6, <2>3 DEF Identity
<1> QED  BY <1>3, <1>4, <1>5, <1>7 DEF PathContains, SameFile

(* What VerifierFor made holds the keys the operator can have meant. *)
LEMMA TrustIsMeant ==
  ASSUME VerifierFor(source).err = ""
  PROVE  /\ VerifierFor(source).ed = Meant /\ VerifierFor(source).ring = source.ring
         /\ ~Ambiguous(Meant)
<1>1. /\ VerifierFor(source).ed = LoadPublicKeys(source) /\ VerifierFor(source).ring = source.ring
      /\ ~Ambiguous(LoadPublicKeys(source))
      /\ \A d \in source.dirs : d.path \in Existing /\ (source.allowSameMedia \/ ~SameMedia(d.path))
  BY DEF VerifierFor, NoTrust
<1>2. ASSUME NEW d \in source.dirs, ~source.allowSameMedia PROVE OutOfBand(d.path)
  BY <1>1, <1>2, PrefixContains, SourcesAssumption DEF SameMedia, OutOfBand
<1>3. Meant = LoadPublicKeys(source)
  <2>1. source.dirs = {e \in source.dirs : source.allowSameMedia \/ OutOfBand(e.path)}
    BY <1>2
  <2> QED  BY <2>1 DEF Meant, LoadPublicKeys
<1> QED  BY <1>1, <1>3

LEMMA Ed25519Verdict ==
  ASSUME NEW msg, ~Ambiguous(Meant), NEW sig
  PROVE  /\ VerifyEd25519(Meant, msg, sig) \in {"ok", "untrusted", "verification"}
         /\ VerifyEd25519(Meant, msg, sig) = "ok" => Held(sig.keyID) = {sig.raw.by} /\ sig.raw.over = msg
         /\ VerifyEd25519(Meant, msg, sig) = "untrusted" => Held(sig.keyID) = {}
         /\ VerifyEd25519(Meant, msg, sig) = "verification" =>
              Held(sig.keyID) # {} /\ (~sig.raw.decodes \/ sig.raw.by \notin Held(sig.keyID) \/ sig.raw.over # msg)
<1>1. \A k, l \in Held(sig.keyID) : k = l
  BY DEF Held, Ambiguous
<1> QED  BY <1>1 DEF VerifyEd25519, Held

(* gpg's answer settles the verdict. *)
LEMMA GPGVerdict ==
  ASSUME NEW ring \in SUBSET GPGKeys, NEW msg, NEW sig, NEW st, sig.raw.decodes => st \in GPGAnswers(ring, msg, sig.raw)
  PROVE  /\ VerifyGPG(st, sig) \in {"ok", "untrusted", "verification", "environment"}
         /\ VerifyGPG(st, sig) = "ok" =>
              /\ sig.raw.by \in ring /\ sig.raw.over = msg /\ sig.keyID \in {sig.raw.by, Primary[sig.raw.by]}
              /\ ~st.failed /\ Len(st.lines) = 1
         /\ VerifyGPG(st, sig) = "untrusted" => sig.raw.by \notin ring
<1> DEFINE Line(w) == [word |-> w, key |-> Nobody]
           Valid == [word |-> "VALIDSIG", key |-> sig.raw.by]
           Answer(ls, f) == [lines |-> ls, failed |-> f]
<1>1. VerifyGPG(st, sig) \in {"ok", "untrusted", "verification", "environment"}
  BY DEF VerifyGPG
<1>2. CASE ~sig.raw.decodes
  BY <1>2 DEF VerifyGPG
<1>3. CASE sig.raw.decodes /\ st = Answer(<<>>, TRUE)
  <2>1. VerifyGPG(st, sig) = "environment"
    BY <1>3 DEF VerifyGPG, Rejected, NoPublicKey, ValidSig, Said
  <2> QED  BY <2>1
<1>4. CASE sig.raw.decodes /\ sig.raw.by \notin ring /\ \E w, x \in {"NODATA", "ERRSIG_9", "NO_PUBKEY"} : st \in {Answer(<<Line(w)>>, TRUE), Answer(<<Line(w), Line(x)>>, TRUE)}
  <2>1. \A i \in DOMAIN st.lines : st.lines[i].word # "VALIDSIG"
    <3>1. PICK w \in {"NODATA", "ERRSIG_9", "NO_PUBKEY"}, x \in {"NODATA", "ERRSIG_9", "NO_PUBKEY"} :
            st.lines = <<Line(w)>> \/ st.lines = <<Line(w), Line(x)>>
      BY <1>4
    <3>2. CASE st.lines = <<Line(w)>>
      BY <3>1, <3>2
    <3>3. CASE st.lines = <<Line(w), Line(x)>>
      BY <3>1, <3>3
    <3> QED  BY <3>1, <3>2, <3>3
  <2>2. VerifyGPG(st, sig) # "ok"
    BY <2>1 DEF VerifyGPG, ValidSig, Said
  <2> QED  BY <1>1, <1>4, <2>2
<1>5. CASE sig.raw.decodes /\ \E w \in {"BADSIG", "ERRSIG"} : st = Answer(<<Line(w)>>, TRUE)
  <2>1. Rejected(st)
    BY <1>5 DEF Rejected, Said
  <2>2. VerifyGPG(st, sig) = "verification"
    BY <2>1 DEF VerifyGPG
  <2> QED  BY <2>2
<1>6. CASE sig.raw.decodes /\ \E w \in {"REVKEYSIG", "EXPKEYSIG", "EXPSIG"}, f \in BOOLEAN : st = Answer(<<Line(w), Valid>>, f)
  <2>1. Rejected(st)
    BY <1>6 DEF Rejected, Said
  <2>2. VerifyGPG(st, sig) = "verification"
    BY <2>1 DEF VerifyGPG
  <2> QED  BY <2>2
<1>7. CASE sig.raw.decodes /\ sig.raw.by \in ring /\ sig.raw.over = msg /\ \E f \in BOOLEAN : st = Answer(<<Valid>>, f)
  <2>1. PICK f \in BOOLEAN : st = Answer(<<Valid>>, f)
    BY <1>7
  <2>2. DOMAIN st.lines = {1} /\ st.lines[1] = Valid /\ st.failed = f /\ Len(st.lines) = 1
    BY <2>1
  <2>3. ValidSig(st)
    BY <2>2 DEF ValidSig, Said
  <2>4. SigningKey(st) = sig.raw.by
    BY <2>2 DEF SigningKey
  <2>5. VerifyGPG(st, sig) # "untrusted"
    BY <2>3 DEF VerifyGPG
  <2>6. VerifyGPG(st, sig) = "ok" => ~st.failed /\ sig.keyID \in {sig.raw.by, Primary[sig.raw.by]}
    BY <2>3, <2>4 DEF VerifyGPG, FingerprintMatches
  <2> QED  BY <1>1, <1>7, <2>2, <2>5, <2>6
<1>8. sig.raw.decodes =>
        \/ st = Answer(<<>>, TRUE)
        \/ sig.raw.by \notin ring /\ \E w, x \in {"NODATA", "ERRSIG_9", "NO_PUBKEY"} : st \in {Answer(<<Line(w)>>, TRUE), Answer(<<Line(w), Line(x)>>, TRUE)}
        \/ \E w \in {"BADSIG", "ERRSIG"} : st = Answer(<<Line(w)>>, TRUE)
        \/ \E w \in {"REVKEYSIG", "EXPKEYSIG", "EXPSIG"}, f \in BOOLEAN : st = Answer(<<Line(w), Valid>>, f)
        \/ sig.raw.by \in ring /\ sig.raw.over = msg /\ \E f \in BOOLEAN : st = Answer(<<Valid>>, f)
  <2> SUFFICES ASSUME sig.raw.decodes PROVE
        \/ st = Answer(<<>>, TRUE)
        \/ sig.raw.by \notin ring /\ \E w, x \in {"NODATA", "ERRSIG_9", "NO_PUBKEY"} : st \in {Answer(<<Line(w)>>, TRUE), Answer(<<Line(w), Line(x)>>, TRUE)}
        \/ \E w \in {"BADSIG", "ERRSIG"} : st = Answer(<<Line(w)>>, TRUE)
        \/ \E w \in {"REVKEYSIG", "EXPKEYSIG", "EXPSIG"}, f \in BOOLEAN : st = Answer(<<Line(w), Valid>>, f)
        \/ sig.raw.by \in ring /\ sig.raw.over = msg /\ \E f \in BOOLEAN : st = Answer(<<Valid>>, f)
    OBVIOUS
  <2>1. st \in {Answer(<<>>, TRUE)} \cup
          IF sig.raw.by \notin GPGKeys THEN {Answer(<<Line("NODATA")>>, TRUE)}
          ELSE IF sig.raw.by \notin ring THEN {Answer(<<Line("ERRSIG_9"), Line("NO_PUBKEY")>>, TRUE)}
          ELSE IF sig.raw.over # msg THEN {Answer(<<Line("BADSIG")>>, TRUE)}
          ELSE {Answer(<<Valid>>, f) : f \in BOOLEAN} \cup {Answer(<<Line("ERRSIG")>>, TRUE)}
               \cup {Answer(<<Line(w), Valid>>, f) : w \in {"REVKEYSIG", "EXPKEYSIG", "EXPSIG"}, f \in BOOLEAN}
    BY DEF GPGAnswers
  <2> QED
    <3>1. CASE sig.raw.by \notin ring
      <4>1. ASSUME st = Answer(<<Line("NODATA")>>, TRUE)
            PROVE  \E w, x \in {"NODATA", "ERRSIG_9", "NO_PUBKEY"} : st \in {Answer(<<Line(w)>>, TRUE), Answer(<<Line(w), Line(x)>>, TRUE)}
        BY <4>1
      <4>2. ASSUME st = Answer(<<Line("ERRSIG_9"), Line("NO_PUBKEY")>>, TRUE)
            PROVE  \E w, x \in {"NODATA", "ERRSIG_9", "NO_PUBKEY"} : st \in {Answer(<<Line(w)>>, TRUE), Answer(<<Line(w), Line(x)>>, TRUE)}
        BY <4>2
      <4> QED  BY <2>1, <3>1, <4>1, <4>2
    <3>2. CASE sig.raw.by \in ring /\ sig.raw.over # msg
      <4>1. sig.raw.by \in GPGKeys
        BY <3>2
      <4> QED  BY <2>1, <3>2, <4>1
    <3>3. CASE sig.raw.by \in ring /\ sig.raw.over = msg
      <4>1. sig.raw.by \in GPGKeys
        BY <3>3
      <4>2. \/ st = Answer(<<>>, TRUE) \/ st = Answer(<<Line("ERRSIG")>>, TRUE)
            \/ \E f \in BOOLEAN : st = Answer(<<Valid>>, f)
            \/ \E w \in {"REVKEYSIG", "EXPKEYSIG", "EXPSIG"}, f \in BOOLEAN : st = Answer(<<Line(w), Valid>>, f)
        BY <2>1, <3>3, <4>1
      <4> QED  BY <3>3, <4>2
    <3> QED  BY <3>1, <3>2, <3>3
<1> QED  BY <1>2, <1>3, <1>4, <1>5, <1>6, <1>7, <1>8

(* The trust set is what VerifierFor made of the sources, and gpg's answer is *)
(* one to this block.                                                         *)
VerifierInv ==
  /\ source \in KeySources
  /\ verdict = "" => status = NoStatus
  /\ verdict = "verifier" =>
       /\ trust = VerifierFor(source) /\ trust.err = ""
       /\ status = NoStatus \/ (block.kind = "gpg" /\ status \in GPGAnswers(trust.ring, message, block.raw))
  /\ VerdictIsOfTheKey

LEMMA CheckBlockStep ==
  ASSUME VerifierInv, CheckBlock
  PROVE  VerifierInv'
<1>1. /\ trust = VerifierFor(source) /\ trust.err = "" /\ source \in KeySources
      /\ status = NoStatus \/ (block.kind = "gpg" /\ status \in GPGAnswers(trust.ring, message, block.raw))
  BY DEF VerifierInv, CheckBlock
<1>2. trust.ed = Meant /\ trust.ring = source.ring /\ ~Ambiguous(Meant) /\ source.ring \in SUBSET GPGKeys
  BY <1>1, TrustIsMeant, SourcesAssumption
<1>3. UNCHANGED <<source, block, message, trust, status>> /\ verdict' = Verify(trust, status, message, block)
  BY DEF CheckBlock
<1>4. Meant' = Meant
  BY <1>3 DEF Meant
<1>5. CASE block.kind = "gpg"
  <2>1. verdict' = VerifyGPG(status, block)
    BY <1>3, <1>5 DEF Verify
  <2>2. block.raw.decodes => status \in GPGAnswers(source.ring, message, block.raw)
    BY <1>1, <1>2, <1>5 DEF CheckBlock
  <2>3. /\ VerifyGPG(status, block) \in {"ok", "untrusted", "verification", "environment"}
        /\ VerifyGPG(status, block) = "ok" =>
              /\ block.raw.by \in source.ring /\ block.raw.over = message /\ block.keyID \in {block.raw.by, Primary[block.raw.by]}
              /\ ~status.failed /\ Len(status.lines) = 1
        /\ VerifyGPG(status, block) = "untrusted" => block.raw.by \notin source.ring
    BY <1>2, <2>2, GPGVerdict
  <2>4. VerdictIsOfTheKey'
    BY <1>3, <1>5, <2>1, <2>3 DEF VerdictIsOfTheKey
  <2> QED  BY <1>1, <1>3, <2>1, <2>3, <2>4 DEF VerifierInv
<1>6. CASE block.kind # "gpg"
  <2>1. \/ OfEd25519 /\ block.alg \in {"", "ed25519"} /\ verdict' = VerifyEd25519(Meant, message, block)
        \/ block.kind = "ed25519-file" /\ block.alg \notin {"", "ed25519"} /\ verdict' = "verification"
        \/ ~OfEd25519 /\ verdict' = "untrusted"
    BY <1>2, <1>3, <1>6 DEF Verify, OfEd25519
  <2>2. CASE OfEd25519 /\ block.alg \in {"", "ed25519"} /\ verdict' = VerifyEd25519(Meant, message, block)
    <3>1. /\ verdict' \in {"ok", "untrusted", "verification"}
          /\ verdict' = "ok" => Held(block.keyID) = {block.raw.by} /\ block.raw.over = message
          /\ verdict' = "untrusted" => Held(block.keyID) = {}
          /\ verdict' = "verification" =>
               Held(block.keyID) # {} /\ (~block.raw.decodes \/ block.raw.by \notin Held(block.keyID) \/ block.raw.over # message)
      BY <1>2, <2>2, Ed25519Verdict
    <3>2. OfEd25519' = OfEd25519 /\ Held(block.keyID)' = Held(block.keyID)
      BY <1>3, <1>4 DEF OfEd25519, Held
    <3>3. VerdictIsOfTheKey'
      BY <1>3, <1>6, <2>2, <3>1, <3>2 DEF VerdictIsOfTheKey
    <3> QED  BY <1>1, <1>3, <3>1, <3>3 DEF VerifierInv
  <2>3. CASE block.kind = "ed25519-file" /\ block.alg \notin {"", "ed25519"} /\ verdict' = "verification"
    BY <1>1, <1>3, <2>3 DEF VerifierInv, VerdictIsOfTheKey
  <2>4. CASE ~OfEd25519 /\ verdict' = "untrusted"
    BY <1>1, <1>3, <1>6, <2>4 DEF VerifierInv, VerdictIsOfTheKey, OfEd25519
  <2> QED  BY <2>1, <2>2, <2>3, <2>4
<1> QED  BY <1>5, <1>6

(* For any keys, blocks, key sources and directories, and whatever gpg        *)
(* answers (verifier.go, gpg.go verify): VerifierInv says the trust set is    *)
(* that of the sources and the answer is one to this block.                   *)
THEOREM VerdictsAreDeserved == VerifierSpec => []VerdictIsOfTheKey
<1>1. VerifierInit => VerifierInv
  BY DEF VerifierInit, VerifierInv, VerdictIsOfTheKey
<1>2. VerifierInv /\ [VerifierNext]_vvars => VerifierInv'
  <2> SUFFICES ASSUME VerifierInv, [VerifierNext]_vvars PROVE VerifierInv'
    OBVIOUS
  <2>1. CASE UNCHANGED vvars
    BY <2>1 DEF VerifierInv, vvars, VerdictIsOfTheKey, OfEd25519, Held, Meant
  <2>2. CASE MakeVerifier
    <3>1. VerifierFor(source).err \in {"", "usage", "same-media"}
      BY DEF VerifierFor, NoTrust
    <3>2. source' = source /\ block' = block /\ status' = NoStatus /\ trust' = VerifierFor(source)
          /\ verdict' \in {"verifier", "usage", "same-media"} /\ (verdict' = "verifier" => trust'.err = "")
      BY <2>2, <3>1 DEF MakeVerifier, VerifierInv
    <3>3. VerdictIsOfTheKey'
      BY <3>2 DEF VerdictIsOfTheKey
    <3> QED  BY <3>2, <3>3 DEF VerifierInv
  <2>3. CASE RunGPG
    <3>1. VerdictIsOfTheKey'
      BY <2>3 DEF RunGPG, VerdictIsOfTheKey
    <3> QED  BY <2>3, <3>1 DEF RunGPG, VerifierInv
  <2>4. CASE CheckBlock
    BY <2>4, CheckBlockStep
  <2> QED  BY <2>1, <2>2, <2>3, <2>4 DEF VerifierNext
<1>3. VerifierInv => VerdictIsOfTheKey
  BY DEF VerifierInv
<1> QED  BY <1>1, <1>2, <1>3, PTL DEF VerifierSpec

-----------------------------------------------------------------------------
(* The writing end.  Requests and answers carry the id of a call; an answer   *)
(* of the call under way that the plugin gave as asked is to its message.     *)

RequestSet == [id : Nat, method : {"none", "key_info", "sign", "shutdown"}, msg : Messages \cup {Nobody}]
AnswerSet ==
  [id : Nat, shape : {"error", "key", "signature"}, keyID : {KeyId[k] : k \in Keys \cup {Own}} \cup {Nobody},
   alg : {"", "ed25519", "other"},
   raw : [by : Keys \cup {Own, Nobody}, over : Messages \cup {Nobody}, decodes : BOOLEAN]]
RightAnswer(a, msg) == a.keyID = KeyId[Own] /\ a.alg = "ed25519" /\ a.raw.by = Own /\ a.raw.over = msg
AsAsked(a) == plugin.honest /\ a.shape = "signature"
IsPending == call.state \in {"write", "wait"}

RequestOK(r, n, c) == r.id <= n /\ (c.state \in {"write", "wait"} /\ r.id = c.id => r.msg = c.msg)
AnswerOK(a, n, c, p) ==
  a.id <= n /\ (c.state \in {"write", "wait"} /\ a.id = c.id /\ p.honest /\ a.shape = "signature" => RightAnswer(a, c.msg))
CallInv ==
  /\ DOMAIN call = DOMAIN NoCall
  /\ nextID \in Nat /\ call.id \in Nat /\ call.id <= nextID
  /\ call.msg \in Messages \cup {Nobody} /\ call.method \in {"none", "key_info", "sign", "shutdown"}
  /\ call.state = "answered" => (AsAsked(call.answer) => RightAnswer(call.answer, call.msg))
  /\ call.state # "answered" => call.answer = NoAnswer
PipeInv ==
  /\ stdin \in Seq(RequestSet) /\ seen \subseteq RequestSet /\ stdout \in Seq(AnswerSet)
  /\ \A i \in DOMAIN stdin : RequestOK(stdin[i], nextID, call)
  /\ \A r \in seen : RequestOK(r, nextID, call)
  /\ \A i \in DOMAIN stdout : AnswerOK(stdout[i], nextID, call, plugin)

HostInv ==
  /\ stage \in {"handshake", "calling", "waiting", "draining"} => kind = "plugin"
  /\ kind = "ed25519-file" /\ stage = "idle" => LoadPrivateKeyFile(disk.priv)
  /\ kind # "plugin" => plugin.honest
  /\ stage \in {"keygen", "public", "start", "handshake"} \/ call.method = "key_info" => signed = {}
  /\ call.method = "key_info" => stage = "calling"
  /\ ~keyInfo.known => keyInfo.pub = Nobody

Verifies(s) == Verify([NoTrust EXCEPT !.ed = {s.key}], NoStatus, s.msg, s.block) = "ok"
SignedOK(s) ==
  IF kind = "gpg" THEN s.key = GPGSigner /\ FingerprintMatches(s.block.keyID, s.key) /\ s.block.raw.over = s.msg
  ELSE IF plugin.honest THEN Verifies(s)
  ELSE s.key # Nobody => keyInfo.known /\ (keyInfo.alg = "ed25519" /\ s.block.alg = "ed25519" => Verifies(s))
SignedInv == \A s \in signed : SignedOK(s)

SigningInv == CallInv /\ PipeInv /\ HostInv /\ SignedInv

LEMMA SignedIsVerified ==
  ASSUME NEW s, s.block.kind \in {"ed25519-file", "plugin"}, s.block.alg = "ed25519", s.block.keyID = KeyId[s.key],
         s.block.raw.decodes, s.block.raw.by = s.key, s.block.raw.over = s.msg
  PROVE  Verifies(s)
<1>1. PICK tr : tr = [NoTrust EXCEPT !.ed = {s.key}]
  OBVIOUS
<1>2. tr.ed = {s.key}
  BY <1>1 DEF NoTrust
<1>3. VerifyEd25519({s.key}, s.msg, s.block) = "ok"
  BY DEF VerifyEd25519
<1>4. Verify(tr, NoStatus, s.msg, s.block) = VerifyEd25519({s.key}, s.msg, s.block)
  BY <1>2 DEF Verify
<1> QED  BY <1>1, <1>3, <1>4 DEF Verifies

LEMMA AnswersAreAnswers ==
  ASSUME NEW r \in RequestSet, NEW a \in Answers(r)
  PROVE  a \in AnswerSet /\ a.id = r.id /\ (AsAsked(a) => RightAnswer(a, r.msg))
<1> DEFINE right == SignAnswer(r, KeyId[Own], "ed25519", [by |-> Own, over |-> r.msg, decodes |-> TRUE])
<1>0. r.id \in Nat /\ r.msg \in Messages \cup {Nobody} /\ {KeyId[k] : k \in Keys} \subseteq {KeyId[k] : k \in Keys \cup {Own}}
  BY DEF RequestSet
<1>1. right \in AnswerSet /\ right.id = r.id /\ RightAnswer(right, r.msg)
  BY DEF SignAnswer, RequestSet, AnswerSet, RightAnswer
<1>2. CASE a = Refusal(r)
  BY <1>2 DEF Refusal, NoAnswer, AnswerSet, RequestSet, AsAsked
<1>3. CASE \E alg \in {"ed25519", "other"} : a = KeyAnswer(r, Own, alg)
  <2>1. PICK alg \in {"ed25519", "other"} : a = KeyAnswer(r, Own, alg)
    BY <1>3
  <2>2. a = [id |-> r.id, shape |-> "key", keyID |-> Nobody, alg |-> alg, raw |-> [by |-> Own, over |-> Nobody, decodes |-> FALSE]]
    BY <2>1 DEF KeyAnswer, NoAnswer
  <2>3. [by |-> Own, over |-> Nobody, decodes |-> FALSE] \in [by : Keys \cup {Own, Nobody}, over : Messages \cup {Nobody}, decodes : BOOLEAN]
    OBVIOUS
  <2>4. PICK raw : raw = [by |-> Own, over |-> Nobody, decodes |-> FALSE]
    OBVIOUS
  <2>5. a = [id |-> r.id, shape |-> "key", keyID |-> Nobody, alg |-> alg, raw |-> raw]
    BY <2>2, <2>4
  <2>6. a \in AnswerSet
    <3>1. alg \in {"", "ed25519", "other"} /\ Nobody \in {KeyId[k] : k \in Keys \cup {Own}} \cup {Nobody} /\ "key" \in {"error", "key", "signature"}
      BY <2>1
    <3>2. raw \in [by : Keys \cup {Own, Nobody}, over : Messages \cup {Nobody}, decodes : BOOLEAN]
      BY <2>3, <2>4
    <3>3. PICK Ids : Ids = {KeyId[k] : k \in Keys \cup {Own}} \cup {Nobody}
      OBVIOUS
    <3>4. PICK Raw : Raw = [by : Keys \cup {Own, Nobody}, over : Messages \cup {Nobody}, decodes : BOOLEAN]
      OBVIOUS
    <3>5. a \in [id : Nat, shape : {"error", "key", "signature"}, keyID : Ids, alg : {"", "ed25519", "other"}, raw : Raw]
      BY <1>0, <2>5, <3>1, <3>2, <3>3, <3>4
    <3> QED  BY <3>3, <3>4, <3>5 DEF AnswerSet
  <2>7. a.shape = "key" /\ a.id = r.id
    BY <2>5
  <2> QED  BY <2>6, <2>7 DEF AsAsked
<1>4. CASE a = right
  BY <1>1, <1>4
<1>5. ASSUME ~plugin.honest, \/ \E id \in {KeyId[k] : k \in Keys} \cup {Nobody} : a = [right EXCEPT !.keyID = id]
                             \/ \E alg \in {"", "other"} : a = [right EXCEPT !.alg = alg]
                             \/ \E k \in Keys : a = [right EXCEPT !.raw.by = k]
                             \/ \E m \in Messages : a = [right EXCEPT !.raw.over = m]
                             \/ a = [right EXCEPT !.raw.decodes = FALSE]
      PROVE  a \in AnswerSet /\ a.id = r.id /\ ~AsAsked(a)
  <2> DEFINE make(id, alg, by, over, decodes) ==
               [id |-> r.id, shape |-> "signature", keyID |-> id, alg |-> alg, raw |-> [by |-> by, over |-> over, decodes |-> decodes]]
  <2>0. \A id \in {KeyId[k] : k \in Keys \cup {Own}} \cup {Nobody}, alg \in {"", "ed25519", "other"}, by \in Keys \cup {Own},
           over \in Messages \cup {Nobody}, decodes \in BOOLEAN :
             make(id, alg, by, over, decodes) \in AnswerSet /\ make(id, alg, by, over, decodes).id = r.id
    BY <1>0 DEF AnswerSet
  <2>1. CASE \E id \in {KeyId[k] : k \in Keys} \cup {Nobody} : a = [right EXCEPT !.keyID = id]
    <3>1. PICK id \in {KeyId[k] : k \in Keys} \cup {Nobody} : a = make(id, "ed25519", Own, r.msg, TRUE)
      BY <2>1 DEF SignAnswer
    <3> QED  BY <1>0, <1>5, <2>0, <3>1 DEF AsAsked
  <2>2. CASE \E alg \in {"", "other"} : a = [right EXCEPT !.alg = alg]
    <3>1. PICK alg \in {"", "other"} : a = make(KeyId[Own], alg, Own, r.msg, TRUE)
      BY <2>2 DEF SignAnswer
    <3> QED  BY <1>0, <1>5, <2>0, <3>1 DEF AsAsked
  <2>3. CASE \E k \in Keys : a = [right EXCEPT !.raw.by = k]
    <3>1. PICK k \in Keys : a = make(KeyId[Own], "ed25519", k, r.msg, TRUE)
      BY <2>3 DEF SignAnswer
    <3> QED  BY <1>0, <1>5, <2>0, <3>1 DEF AsAsked
  <2>4. CASE \E m \in Messages : a = [right EXCEPT !.raw.over = m]
    <3>1. PICK m \in Messages : a = make(KeyId[Own], "ed25519", Own, m, TRUE)
      BY <2>4 DEF SignAnswer
    <3> QED  BY <1>0, <1>5, <2>0, <3>1 DEF AsAsked
  <2>5. CASE a = [right EXCEPT !.raw.decodes = FALSE]
    <3>1. a = make(KeyId[Own], "ed25519", Own, r.msg, FALSE)
      BY <2>5 DEF SignAnswer
    <3> QED  BY <1>0, <1>5, <2>0, <3>1 DEF AsAsked
  <2> QED  BY <1>5, <2>1, <2>2, <2>3, <2>4, <2>5
<1>6. \/ a = Refusal(r)
      \/ \E alg \in {"ed25519", "other"} : a = KeyAnswer(r, Own, alg)
      \/ a = right
      \/ ~plugin.honest /\ \/ \E id \in {KeyId[k] : k \in Keys} \cup {Nobody} : a = [right EXCEPT !.keyID = id]
                           \/ \E alg \in {"", "other"} : a = [right EXCEPT !.alg = alg]
                           \/ \E k \in Keys : a = [right EXCEPT !.raw.by = k]
                           \/ \E m \in Messages : a = [right EXCEPT !.raw.over = m]
                           \/ a = [right EXCEPT !.raw.decodes = FALSE]
  <2>1. CASE r.method = "key_info" /\ plugin.exports
    BY <2>1 DEF Answers
  <2>2. CASE r.method = "sign"
    BY <2>2 DEF Answers
  <2>3. CASE r.method # "sign" /\ ~(r.method = "key_info" /\ plugin.exports)
    BY <2>3 DEF Answers
  <2> QED  BY <2>1, <2>2, <2>3
<1> QED  BY <1>2, <1>3, <1>4, <1>5, <1>6

LEMMA NoCallFields ==
  /\ DOMAIN NoCall = {"id", "method", "msg", "state", "answer"}
  /\ NoCall.id = 0 /\ NoCall.method = "none" /\ NoCall.msg = Nobody /\ NoCall.state = "none" /\ NoCall.answer = NoAnswer
  /\ NoAnswer.shape = "none"
BY DEF NoCall, NoAnswer

(* What is in the pipes stays right while no new call begins. *)
LEMMA PipesKeep ==
  ASSUME PipeInv, nextID' = nextID, plugin' = plugin,
         IsPending' => IsPending /\ call'.id = call.id /\ call'.msg = call.msg
  PROVE  /\ \A r : RequestOK(r, nextID, call) => RequestOK(r, nextID', call')
         /\ \A a : AnswerOK(a, nextID, call, plugin) => AnswerOK(a, nextID', call', plugin')
BY DEF RequestOK, AnswerOK, IsPending

(* The parts of PipeInv, after a step. *)
LEMMA PipesAfter ==
  ASSUME stdin' \in Seq(RequestSet), seen' \subseteq RequestSet, stdout' \in Seq(AnswerSet),
         \A i \in DOMAIN stdin' : RequestOK(stdin'[i], nextID', call'),
         \A r \in seen' : RequestOK(r, nextID', call'),
         \A i \in DOMAIN stdout' : AnswerOK(stdout'[i], nextID', call', plugin')
  PROVE  PipeInv'
BY DEF PipeInv, RequestOK, AnswerOK, RightAnswer, RequestSet, AnswerSet

LEMMA PipesSame ==
  ASSUME CallInv, PipeInv, UNCHANGED <<plugin, nextID, call, stdin, seen, stdout>>
  PROVE  CallInv' /\ PipeInv'
<1>1. CallInv'
  BY DEF CallInv, AsAsked, RightAnswer
<1>2. IsPending' = IsPending
  BY DEF IsPending
<1>3. /\ \A r : RequestOK(r, nextID, call) => RequestOK(r, nextID', call')
      /\ \A a : AnswerOK(a, nextID, call, plugin) => AnswerOK(a, nextID', call', plugin')
  BY <1>2, PipesKeep
<1> QED  BY <1>1, <1>3, PipesAfter DEF PipeInv

LEMMA CallBegins ==
  ASSUME CallInv, PipeInv, NEW method \in {"key_info", "sign", "shutdown"}, NEW msg \in Messages \cup {Nobody},
         Begin(method, msg), UNCHANGED <<plugin, stdin, seen, stdout>>
  PROVE  CallInv' /\ PipeInv' /\ call'.method = method
<1>1. /\ nextID' = nextID + 1 /\ nextID \in Nat
      /\ call' = [id |-> nextID + 1, method |-> method, msg |-> msg, state |-> "write", answer |-> NoAnswer]
  BY DEF Begin, CallInv
<1>2. CallInv' /\ call'.method = method
  BY <1>1, NoCallFields DEF CallInv
<1>3. \A r \in RequestSet : RequestOK(r, nextID, call) => RequestOK(r, nextID', call')
  BY <1>1 DEF RequestOK, RequestSet
<1>4. \A a \in AnswerSet : AnswerOK(a, nextID, call, plugin) => AnswerOK(a, nextID', call', plugin')
  <2>1. \A a \in AnswerSet : a.id \in Nat
    BY DEF AnswerSet
  <2> QED  BY <1>1, <2>1 DEF AnswerOK
<1>5. /\ \A i \in DOMAIN stdin : stdin[i] \in RequestSet
      /\ \A i \in DOMAIN stdout : stdout[i] \in AnswerSet
  BY DEF PipeInv
<1>6. PipeInv'
  BY <1>3, <1>4, <1>5, PipesAfter DEF PipeInv
<1> QED  BY <1>2, <1>6

(* A call that ends, or goes on without an answer. *)
LEMMA CallMoves ==
  ASSUME CallInv, PipeInv, UNCHANGED <<plugin, nextID, stdin, seen, stdout>>,
         call' = NoCall \/ (IsPending /\ \E x \in {"wait", "failed"} : call' = [call EXCEPT !.state = x])
  PROVE  CallInv' /\ PipeInv' /\ call'.method \in {"none", call.method}
<1>1. CASE call' = NoCall
  <2>1. CallInv' /\ call'.method = "none"
    BY <1>1, NoCallFields DEF CallInv
  <2>2. ~IsPending'
    BY <1>1, NoCallFields DEF IsPending
  <2>3. PipeInv'
    BY <2>2, PipesKeep, PipesAfter DEF PipeInv
  <2> QED  BY <2>1, <2>3
<1>2. ASSUME IsPending, NEW x \in {"wait", "failed"}, call' = [call EXCEPT !.state = x]
      PROVE  CallInv' /\ PipeInv' /\ call'.method = call.method
  <2>1. /\ DOMAIN call' = DOMAIN call /\ call'.state = x /\ call'.id = call.id /\ call'.msg = call.msg
        /\ call'.method = call.method /\ call'.answer = call.answer /\ call.state \in {"write", "wait"}
    BY <1>2, NoCallFields DEF CallInv, IsPending
  <2>2. CallInv'
    BY <1>2, <2>1 DEF CallInv
  <2>3. PipeInv'
    <3>1. IsPending' => IsPending /\ call'.id = call.id /\ call'.msg = call.msg
      BY <1>2, <2>1
    <3> QED  BY <3>1, PipesKeep, PipesAfter DEF PipeInv
  <2> QED  BY <2>1, <2>2, <2>3
<1> QED  BY <1>1, <1>2

LEMMA WriteRequestPipes ==
  ASSUME CallInv, PipeInv, WriteRequest
  PROVE  CallInv' /\ PipeInv' /\ call'.method = call.method
<1>1. CASE proc = "gone"
  <2>1. call' = [call EXCEPT !.state = "failed"] /\ IsPending /\ UNCHANGED <<plugin, nextID, stdin, seen, stdout>>
    BY <1>1 DEF WriteRequest, IsPending
  <2>2. call'.method = call.method
    BY <2>1, NoCallFields DEF CallInv
  <2> QED  BY <2>1, <2>2, CallMoves
<1>2. CASE proc # "gone"
  <2>1. PICK r : r = [id |-> call.id, method |-> call.method, msg |-> call.msg]
    OBVIOUS
  <2>2. /\ call.state = "write" /\ call' = [call EXCEPT !.state = "wait"] /\ stdin' = Append(stdin, r)
        /\ UNCHANGED <<plugin, nextID, seen, stdout>>
    BY <1>2, <2>1 DEF WriteRequest
  <2>3. /\ DOMAIN call' = DOMAIN call /\ call'.state = "wait" /\ call'.id = call.id /\ call'.msg = call.msg
        /\ call'.method = call.method /\ call'.answer = call.answer
    BY <2>2, NoCallFields DEF CallInv
  <2>4. CallInv'
    BY <2>2, <2>3 DEF CallInv
  <2>5. /\ \A q : RequestOK(q, nextID, call) => RequestOK(q, nextID', call')
        /\ \A a : AnswerOK(a, nextID, call, plugin) => AnswerOK(a, nextID', call', plugin')
    BY <2>2, <2>3, PipesKeep DEF IsPending
  <2>6. r \in RequestSet /\ RequestOK(r, nextID', call')
    BY <2>1, <2>2, <2>3 DEF CallInv, RequestSet, RequestOK
  <2>7. PipeInv'
    <3>1. stdin' \in Seq(RequestSet) /\ DOMAIN stdin' = DOMAIN stdin \cup {Len(stdin) + 1}
          /\ stdin'[Len(stdin) + 1] = r /\ \A i \in DOMAIN stdin : stdin'[i] = stdin[i]
      BY <2>2, <2>6 DEF PipeInv
    <3>2. \A i \in DOMAIN stdin' : RequestOK(stdin'[i], nextID', call')
      BY <2>5, <2>6, <3>1 DEF PipeInv
    <3> QED  BY <2>2, <2>5, <3>1, <3>2, PipesAfter DEF PipeInv
  <2> QED  BY <2>3, <2>4, <2>7
<1> QED  BY <1>1, <1>2

LEMMA ReadLoopPipes ==
  ASSUME CallInv, PipeInv, ReadLoop
  PROVE  CallInv' /\ PipeInv' /\ call'.method = call.method
<1>1. CASE stdout # <<>>
  <2>1. PICK a : a = Head(stdout)
    OBVIOUS
  <2>2. a \in AnswerSet /\ AnswerOK(a, nextID, call, plugin)
    BY <1>1, <2>1 DEF PipeInv
  <2>3. /\ stdout' = Tail(stdout) /\ UNCHANGED <<plugin, nextID, stdin, seen>>
        /\ call' = IF WaitsFor(a) THEN [call EXCEPT !.state = "answered", !.answer = a] ELSE call
    BY <1>1, <2>1 DEF ReadLoop
  <2>4. CallInv' /\ call'.method = call.method /\ (IsPending' => IsPending /\ call' = call)
    <3>1. CASE WaitsFor(a)
      <4>1. /\ DOMAIN call' = DOMAIN call /\ call'.state = "answered" /\ call'.id = call.id /\ call'.msg = call.msg
            /\ call'.method = call.method /\ call'.answer = a
        BY <2>3, <3>1, NoCallFields DEF CallInv
      <4>2. AsAsked(a) => RightAnswer(a, call.msg)
        BY <2>2, <3>1 DEF AnswerOK, WaitsFor, AsAsked
      <4>3. AsAsked(a)' <=> AsAsked(a)
        BY <2>3 DEF AsAsked
      <4>4. CallInv'
        BY <2>3, <4>1, <4>2, <4>3 DEF CallInv, AsAsked, RightAnswer
      <4> QED  BY <4>1, <4>4 DEF IsPending
    <3>2. CASE ~WaitsFor(a)
      <4>1. call' = call
        BY <2>3, <3>2
      <4>2. CallInv'
        BY <2>3, <4>1 DEF CallInv, AsAsked, RightAnswer
      <4> QED  BY <4>1, <4>2 DEF IsPending
    <3> QED  BY <3>1, <3>2
  <2>5. /\ \A r : RequestOK(r, nextID, call) => RequestOK(r, nextID', call')
        /\ \A x : AnswerOK(x, nextID, call, plugin) => AnswerOK(x, nextID', call', plugin')
    BY <2>3, <2>4, PipesKeep
  <2>6. PipeInv'
    <3>1. stdout \in Seq(AnswerSet)
      BY DEF PipeInv
    <3>2. stdout' \in Seq(AnswerSet) /\ \A i \in DOMAIN stdout' : i + 1 \in DOMAIN stdout /\ stdout'[i] = stdout[i + 1]
      BY <1>1, <2>3, <3>1
    <3>3. \A i \in DOMAIN stdout' : AnswerOK(stdout'[i], nextID', call', plugin')
      BY <2>5, <3>2 DEF PipeInv
    <3> QED  BY <2>3, <2>5, <3>2, <3>3, PipesAfter DEF PipeInv
  <2> QED  BY <2>4, <2>6
<1>2. CASE stdout = <<>>
  <2>1. /\ UNCHANGED <<plugin, nextID, stdin, seen, stdout>>
        /\ call' = IF call.state = "wait" THEN [call EXCEPT !.state = "failed"] ELSE call
    BY <1>2 DEF ReadLoop
  <2>2. CASE call.state = "wait"
    <3>1. IsPending /\ call' = [call EXCEPT !.state = "failed"]
      BY <2>1, <2>2 DEF IsPending
    <3>2. call'.method = call.method
      BY <3>1, NoCallFields DEF CallInv
    <3> QED  BY <2>1, <3>1, <3>2, CallMoves
  <2>3. CASE call.state # "wait"
    BY <2>1, <2>3, PipesSame
  <2> QED  BY <2>2, <2>3
<1> QED  BY <1>1, <1>2

LEMMA PluginReadsPipes ==
  ASSUME CallInv, PipeInv, PluginReads
  PROVE  CallInv' /\ PipeInv'
<1>1. /\ stdin # <<>> /\ seen' = seen \cup {Head(stdin)} /\ stdin' = Tail(stdin) /\ UNCHANGED <<plugin, nextID, call, stdout>>
  BY DEF PluginReads, Host
<1>2. CallInv'
  BY <1>1 DEF CallInv, AsAsked, RightAnswer
<1>3. /\ \A r : RequestOK(r, nextID, call) => RequestOK(r, nextID', call')
      /\ \A x : AnswerOK(x, nextID, call, plugin) => AnswerOK(x, nextID', call', plugin')
  BY <1>1, PipesKeep DEF IsPending
<1>4. stdin \in Seq(RequestSet)
  BY DEF PipeInv
<1>5. /\ stdin' \in Seq(RequestSet) /\ \A i \in DOMAIN stdin' : i + 1 \in DOMAIN stdin /\ stdin'[i] = stdin[i + 1]
      /\ Head(stdin) \in RequestSet /\ Head(stdin) = stdin[1] /\ 1 \in DOMAIN stdin
  BY <1>1, <1>4
<1>6. \A i \in DOMAIN stdin' : RequestOK(stdin'[i], nextID', call')
  BY <1>3, <1>5 DEF PipeInv
<1>7. \A r \in seen' : RequestOK(r, nextID', call')
  BY <1>1, <1>3, <1>5 DEF PipeInv
<1> QED  BY <1>1, <1>2, <1>3, <1>5, <1>6, <1>7, PipesAfter DEF PipeInv

LEMMA PluginAnswersPipes ==
  ASSUME CallInv, PipeInv, PluginAnswers
  PROVE  CallInv' /\ PipeInv'
<1>1. UNCHANGED <<plugin, nextID, call, stdin, seen>>
  BY DEF PluginAnswers, Host
<1>2. PICK r \in seen : \E a \in Answers(r) : stdout' = Append(stdout, a)
  BY DEF PluginAnswers
<1>3. PICK a \in Answers(r) : stdout' = Append(stdout, a)
  BY <1>2
<1>4. r \in RequestSet /\ RequestOK(r, nextID, call)
  BY DEF PipeInv
<1>5. a \in AnswerSet /\ a.id = r.id /\ (AsAsked(a) => RightAnswer(a, r.msg))
  BY <1>4, AnswersAreAnswers
<1>6. AnswerOK(a, nextID, call, plugin)
  BY <1>4, <1>5 DEF AnswerOK, RequestOK, AsAsked
<1>7. CallInv'
  BY <1>1 DEF CallInv, AsAsked, RightAnswer
<1>8. /\ \A q : RequestOK(q, nextID, call) => RequestOK(q, nextID', call')
      /\ \A x : AnswerOK(x, nextID, call, plugin) => AnswerOK(x, nextID', call', plugin')
  BY <1>1, PipesKeep DEF IsPending
<1>9. /\ stdout' \in Seq(AnswerSet) /\ DOMAIN stdout' = DOMAIN stdout \cup {Len(stdout) + 1}
      /\ stdout'[Len(stdout) + 1] = a /\ \A i \in DOMAIN stdout : stdout'[i] = stdout[i]
  BY <1>3, <1>5 DEF PipeInv
<1>10. \A i \in DOMAIN stdout' : AnswerOK(stdout'[i], nextID', call', plugin')
  BY <1>6, <1>8, <1>9 DEF PipeInv
<1> QED  BY <1>1, <1>7, <1>8, <1>9, <1>10, PipesAfter DEF PipeInv

-----------------------------------------------------------------------------
(* Steps that leave the pipes and the signatures alone. *)

QuietStep == UNCHANGED <<kind, plugin, signed, nextID, call, keyInfo, stdin, seen, stdout>>

LEMMA QuietSteps ==
  ASSUME SigningInv, QuietStep, HostInv'
  PROVE  SigningInv'
<1>1. CallInv' /\ PipeInv'
  BY PipesSame DEF SigningInv, QuietStep
<1>2. SignedInv'
  BY DEF SigningInv, QuietStep, SignedInv, SignedOK
<1> QED  BY <1>1, <1>2 DEF SigningInv

LEMMA HostSteps ==
  ASSUME SigningInv,
         \/ GeneratePrivate \/ GeneratePublic \/ OpenKeyFile \/ OpenGPGKey \/ StartPlugin \/ HandshakeLost
         \/ ProcessWaited \/ GraceOver \/ Drained \/ PluginExits
  PROVE  SigningInv'
<1> USE DEF QuietStep, Process, Host
<1>0. HostInv
  BY DEF SigningInv
<1>1. CASE GeneratePrivate
  <2>1. QuietStep /\ HostInv'
    BY <1>0, <1>1 DEF GeneratePrivate, HostInv
  <2> QED  BY <2>1, QuietSteps
<1>2. CASE GeneratePublic
  <2>1. QuietStep /\ HostInv'
    BY <1>0, <1>2 DEF GeneratePublic, HostInv
  <2> QED  BY <2>1, QuietSteps
<1>3. CASE OpenKeyFile
  <2>1. QuietStep /\ HostInv'
    BY <1>0, <1>3 DEF OpenKeyFile, HostInv, LoadPrivateKeyFile, ParsePrivateKeyBlob
  <2> QED  BY <2>1, QuietSteps
<1>4. CASE OpenGPGKey
  <2>1. QuietStep /\ stage = "start" /\ kind = "gpg" /\ disk' = disk /\ stage' \in {"idle", "failed"}
    BY <1>4 DEF OpenGPGKey
  <2>2. HostInv'
    BY <1>0, <2>1 DEF HostInv
  <2> QED  BY <2>1, <2>2, QuietSteps
<1>5. CASE StartPlugin
  <2>1. QuietStep /\ HostInv'
    BY <1>0, <1>5 DEF StartPlugin, HostInv
  <2> QED  BY <2>1, QuietSteps
<1>6. CASE HandshakeLost
  <2>1. QuietStep /\ HostInv'
    BY <1>0, <1>6 DEF HandshakeLost, HostInv
  <2> QED  BY <2>1, QuietSteps
<1>7. CASE ProcessWaited
  <2>1. QuietStep /\ HostInv'
    BY <1>0, <1>7 DEF ProcessWaited, HostInv
  <2> QED  BY <2>1, QuietSteps
<1>8. CASE GraceOver
  <2>1. QuietStep /\ HostInv'
    BY <1>0, <1>8 DEF GraceOver, HostInv
  <2> QED  BY <2>1, QuietSteps
<1>9. CASE Drained
  <2>1. QuietStep /\ HostInv'
    BY <1>0, <1>9 DEF Drained, HostInv
  <2> QED  BY <2>1, QuietSteps
<1>10. CASE PluginExits
  <2>1. QuietStep /\ UNCHANGED <<stage, disk>>
    BY <1>10 DEF PluginExits
  <2>2. HostInv'
    BY <1>0, <2>1 DEF HostInv, LoadPrivateKeyFile, ParsePrivateKeyBlob
  <2> QED  BY <2>1, <2>2, QuietSteps
<1> QED  BY <1>1, <1>2, <1>3, <1>4, <1>5, <1>6, <1>7, <1>8, <1>9, <1>10

(* Steps of a call. *)
LEMMA CallSteps ==
  ASSUME SigningInv,
         \/ \E good \in BOOLEAN : Handshake(good)
         \/ \E msg \in Messages : SignPlugin(msg)
         \/ CloseSigner \/ WriteRequest \/ CallTimesOut \/ ReadLoop \/ ShutdownReturns
         \/ PluginReads \/ PluginAnswers
  PROVE  SigningInv'
<1> USE DEF Process, Host
<1>0. CallInv /\ PipeInv /\ HostInv /\ SignedInv
  BY DEF SigningInv
<1>1. UNCHANGED <<kind, plugin, disk, signed, keyInfo>>
  BY DEF Handshake, SignPlugin, CloseSigner, WriteRequest, CallTimesOut, ReadLoop, ShutdownReturns, PluginReads, PluginAnswers
<1>2. SignedInv'
  BY <1>0, <1>1 DEF SignedInv, SignedOK
<1>3. ASSUME NEW good \in BOOLEAN, Handshake(good) PROVE CallInv' /\ PipeInv' /\ HostInv'
  <2>1. CASE good
    <3>1. Begin("key_info", Nobody) /\ UNCHANGED <<stdin, seen, stdout>> /\ stage = "handshake" /\ stage' = "calling"
      BY <1>3, <2>1 DEF Handshake
    <3>2. CallInv' /\ PipeInv' /\ call'.method = "key_info"
      BY <1>0, <1>1, <3>1, CallBegins
    <3> QED  BY <1>0, <1>1, <3>1, <3>2 DEF HostInv
  <2>2. CASE ~good
    <3>1. UNCHANGED <<nextID, call, stdin, seen, stdout>> /\ stage = "handshake" /\ stage' = "failed"
      BY <1>3, <2>2 DEF Handshake
    <3>2. CallInv' /\ PipeInv'
      BY <1>0, <1>1, <3>1, PipesSame
    <3> QED  BY <1>0, <1>1, <3>1, <3>2 DEF HostInv
  <2> QED  BY <2>1, <2>2
<1>4. ASSUME NEW msg \in Messages, SignPlugin(msg) PROVE CallInv' /\ PipeInv' /\ HostInv'
  <2>1. Begin("sign", msg) /\ UNCHANGED <<stdin, seen, stdout>> /\ kind = "plugin" /\ stage' = "calling"
    BY <1>4 DEF SignPlugin
  <2>2. CallInv' /\ PipeInv' /\ call'.method = "sign"
    BY <1>0, <1>1, <2>1, CallBegins
  <2> QED  BY <1>0, <1>1, <2>1, <2>2 DEF HostInv
<1>5. CASE CloseSigner
  <2>1. CASE kind = "plugin"
    <3>1. Begin("shutdown", Nobody) /\ UNCHANGED <<stdin, seen, stdout>> /\ stage' = "calling"
      BY <1>5, <2>1 DEF CloseSigner
    <3>2. CallInv' /\ PipeInv' /\ call'.method = "shutdown"
      BY <1>0, <1>1, <3>1, CallBegins
    <3> QED  BY <1>0, <1>1, <1>2, <2>1, <3>1, <3>2 DEF HostInv, SigningInv
  <2>2. CASE kind # "plugin"
    <3>1. UNCHANGED <<nextID, call, stdin, seen, stdout>> /\ stage = "idle" /\ stage' = "closed"
      BY <1>5, <2>2 DEF CloseSigner
    <3>2. CallInv' /\ PipeInv'
      BY <1>0, <1>1, <3>1, PipesSame
    <3> QED  BY <1>0, <1>1, <1>2, <3>1, <3>2 DEF HostInv, SigningInv
  <2> QED  BY <2>1, <2>2
<1>6. ASSUME CallInv', PipeInv', call'.method \in {"none", call.method}, 
             stage' = stage \/ (stage' = "waiting" /\ stage = "calling" /\ call' = NoCall)
      PROVE  SigningInv'
  <2>1. HostInv'
    BY <1>0, <1>1, <1>6, NoCallFields DEF HostInv, LoadPrivateKeyFile, ParsePrivateKeyBlob
  <2> QED  BY <1>2, <1>6, <2>1 DEF SigningInv
<1>7. CASE WriteRequest
  <2>1. stage' = stage
    BY <1>7 DEF WriteRequest
  <2> QED  BY <1>0, <1>6, <1>7, <2>1, WriteRequestPipes
<1>8. CASE CallTimesOut
  <2>1. /\ stage' = stage /\ IsPending /\ call' = [call EXCEPT !.state = "failed"]
        /\ UNCHANGED <<plugin, nextID, stdin, seen, stdout>>
    BY <1>8 DEF CallTimesOut, IsPending
  <2>2. CallInv' /\ PipeInv' /\ call'.method \in {"none", call.method}
    BY <1>0, <2>1, CallMoves
  <2> QED  BY <1>6, <2>1, <2>2
<1>9. CASE ReadLoop
  <2>1. stage' = stage
    BY <1>9 DEF ReadLoop
  <2> QED  BY <1>0, <1>6, <1>9, <2>1, ReadLoopPipes
<1>10. CASE ShutdownReturns
  <2>1. /\ stage' = "waiting" /\ stage = "calling" /\ call' = NoCall /\ UNCHANGED <<plugin, nextID, stdin, seen, stdout>>
    BY <1>10 DEF ShutdownReturns
  <2>2. CallInv' /\ PipeInv' /\ call'.method \in {"none", call.method}
    BY <1>0, <2>1, CallMoves
  <2> QED  BY <1>6, <2>1, <2>2
<1>11. CASE PluginReads
  <2>1. stage' = stage /\ call' = call
    BY <1>11 DEF PluginReads
  <2> QED  BY <1>0, <1>6, <1>11, <2>1, PluginReadsPipes
<1>12. CASE PluginAnswers
  <2>1. stage' = stage /\ call' = call
    BY <1>12 DEF PluginAnswers
  <2> QED  BY <1>0, <1>6, <1>12, <2>1, PluginAnswersPipes
<1> QED  BY <1>2, <1>3, <1>4, <1>5, <1>7, <1>8, <1>9, <1>10, <1>11, <1>12 DEF SigningInv

(* A signature of a key file and of gpg. *)
LEMMA FileAndGPGSteps ==
  ASSUME SigningInv, NEW msg \in Messages, SignFile(msg) \/ SignGPG(msg)
  PROVE  SigningInv'
<1> USE DEF Process, Host
<1>0. CallInv /\ PipeInv /\ HostInv /\ SignedInv
  BY DEF SigningInv
<1>1. /\ UNCHANGED <<kind, plugin, disk, stage, nextID, call, keyInfo, stdin, seen, stdout>>
      /\ stage = "idle" /\ kind \in {"ed25519-file", "gpg"}
  BY DEF SignFile, SignGPG
<1>2. CallInv' /\ PipeInv'
  BY <1>0, <1>1, PipesSame
<1>3. PICK s : signed' = signed \cup {s} /\ SignedOK(s)
  <2>1. CASE SignFile(msg)
    <3>1. LoadPrivateKeyFile(disk.priv) /\ plugin.honest /\ kind = "ed25519-file"
      BY <1>0, <1>1, <2>1 DEF HostInv, SignFile
    <3>2. PICK f : f = disk.priv
      OBVIOUS
    <3>3. f.whole /\ f.stored = KeyId[f.mat]
      BY <3>1, <3>2 DEF LoadPrivateKeyFile, ParsePrivateKeyBlob
    <3>4. PICK s : s = [msg |-> msg, key |-> f.mat,
                        block |-> [kind |-> "ed25519-file", alg |-> "ed25519", keyID |-> f.stored, raw |-> [by |-> f.mat, over |-> msg, decodes |-> TRUE]]]
      OBVIOUS
    <3>5. signed' = signed \cup {s}
      BY <2>1, <3>1, <3>2, <3>3, <3>4 DEF SignFile, Returned
    <3>6. /\ s.block.kind = "ed25519-file" /\ s.block.alg = "ed25519" /\ s.block.keyID = KeyId[s.key]
          /\ s.block.raw.decodes /\ s.block.raw.by = s.key /\ s.block.raw.over = s.msg
      BY <3>3, <3>4
    <3>7. Verifies(s)
      BY <3>6, SignedIsVerified
    <3> QED  BY <3>1, <3>5, <3>7 DEF SignedOK
  <2>2. CASE SignGPG(msg)
    <3>1. PICK s : s = Returned(msg, GPGSigner, GPGSigner, Primary[GPGSigner], "gpg")
      OBVIOUS
    <3>2. signed' = signed \cup {s} /\ kind = "gpg"
      BY <2>2, <3>1 DEF SignGPG
    <3>3. SignedOK(s)
      BY <3>1, <3>2 DEF SignedOK, Returned, FingerprintMatches
    <3> QED  BY <3>2, <3>3
  <2> QED  BY <2>1, <2>2
<1>4. SignedInv'
  BY <1>0, <1>1, <1>3 DEF SignedInv, SignedOK
<1>5. HostInv'
  BY <1>0, <1>1, <1>3 DEF HostInv, LoadPrivateKeyFile, ParsePrivateKeyBlob
<1> QED  BY <1>2, <1>4, <1>5 DEF SigningInv

(* What a plugin says of its key, once, before it signs. *)
LEMMA KeyInfoReturnsStep ==
  ASSUME SigningInv, KeyInfoReturns
  PROVE  SigningInv'
<1>0. CallInv /\ PipeInv /\ HostInv /\ SignedInv
  BY DEF SigningInv
<1>1. /\ UNCHANGED <<kind, plugin, disk, nextID, signed, stdin, seen, stdout>> /\ call' = NoCall /\ stage' = "idle"
      /\ stage = "calling" /\ call.method = "key_info"
      /\ (~keyInfo'.known => keyInfo'.pub = Nobody)
  BY DEF KeyInfoReturns, Process, NoKeyInfo
<1>2. CallInv' /\ PipeInv'
  BY <1>0, <1>1, CallMoves
<1>3. signed = {} /\ kind = "plugin"
  BY <1>0, <1>1 DEF HostInv
<1>4. SignedInv' /\ HostInv'
  BY <1>0, <1>1, <1>3, NoCallFields DEF SignedInv, HostInv
<1> QED  BY <1>2, <1>4 DEF SigningInv

(* A signature of a plugin. *)
LEMMA SignReturnsStep ==
  ASSUME SigningInv, SignReturns
  PROVE  SigningInv'
<1>0. CallInv /\ PipeInv /\ HostInv /\ SignedInv
  BY DEF SigningInv
<1>1. /\ UNCHANGED <<kind, plugin, disk, nextID, stdin, seen, stdout>> /\ call' = NoCall /\ stage' = "idle" /\ stage = "calling"
  BY DEF SignReturns, Process
<1>2. CallInv' /\ PipeInv' /\ kind = "plugin"
  BY <1>0, <1>1, CallMoves DEF HostInv
<1>3. PICK a : a = call.answer
  OBVIOUS
<1>4. PICK msg : msg = call.msg
  OBVIOUS
<1> DEFINE accepted == /\ a.shape = "signature" /\ a.raw.decodes
                       /\ ValidPluginField(a.keyID) /\ ValidPluginField(a.alg)
                       /\ CheckReturnedSignature(msg, a)
<1>5. PICK s : s = [msg |-> msg, key |-> IF plugin.honest THEN Own ELSE keyInfo.pub,
                    block |-> [kind |-> "plugin", alg |-> a.alg, keyID |-> a.keyID, raw |-> a.raw]]
  OBVIOUS
<1>6. /\ signed' = IF accepted THEN signed \cup {s} ELSE signed
      /\ keyInfo' = IF accepted /\ ~keyInfo.known THEN [known |-> TRUE, pub |-> Nobody, alg |-> a.alg] ELSE keyInfo
  BY <1>3, <1>4, <1>5 DEF SignReturns
<1>7. ~keyInfo'.known => keyInfo'.pub = Nobody
  BY <1>0, <1>6 DEF HostInv
<1>8. HostInv'
  BY <1>0, <1>1, <1>2, <1>7, NoCallFields DEF HostInv
<1>9. /\ s.msg = msg /\ s.key = (IF plugin.honest THEN Own ELSE keyInfo.pub) /\ s.block.kind = "plugin" /\ s.block.alg = a.alg
      /\ s.block.keyID = a.keyID /\ s.block.raw = a.raw
  BY <1>5
<1>10. ASSUME NEW u \in signed PROVE SignedOK(u)'
  <2>1. SignedOK(u)
    BY <1>0 DEF SignedInv
  <2> HIDE DEF accepted
  <2> QED  BY <1>1, <1>2, <1>6, <2>1 DEF SignedOK
<1>11. ASSUME accepted PROVE SignedOK(s)'
  <2>1. CASE plugin.honest
    <3>1. RightAnswer(a, msg)
      <4>1. a.shape # "none"
        BY <1>11
      <4>2. call.state = "answered"
        BY <1>0, <1>3, <4>1, NoCallFields DEF CallInv
      <4> QED  BY <1>0, <1>3, <1>4, <1>11, <2>1, <4>2 DEF CallInv, AsAsked
    <3>2. s.block.alg = "ed25519" /\ s.block.keyID = KeyId[s.key] /\ s.block.raw.decodes /\ s.block.raw.by = s.key /\ s.block.raw.over = s.msg
      BY <1>9, <1>11, <2>1, <3>1 DEF RightAnswer
    <3>3. Verifies(s)
      BY <1>9, <3>2, SignedIsVerified
    <3> QED  BY <1>1, <1>2, <2>1, <3>3 DEF SignedOK
  <2>2. CASE ~plugin.honest
    <3>1. ASSUME s.key # Nobody PROVE keyInfo.known /\ keyInfo' = keyInfo
      BY <1>0, <1>6, <1>9, <2>2, <3>1 DEF HostInv
    <3>2. ASSUME s.key # Nobody, keyInfo.alg = "ed25519", s.block.alg = "ed25519" PROVE Verifies(s)
      <4>1. s.block.keyID = KeyId[s.key] /\ s.block.raw.decodes /\ s.block.raw.by = s.key /\ s.block.raw.over = s.msg
        BY <1>9, <1>11, <2>2, <3>2 DEF CheckReturnedSignature
      <4> QED  BY <1>9, <3>2, <4>1, SignedIsVerified
    <3> QED  BY <1>1, <1>2, <2>2, <3>1, <3>2 DEF SignedOK
  <2> QED  BY <2>1, <2>2
<1>12. SignedInv'
  <2> HIDE DEF accepted
  <2>1. \A u \in signed' : u \in signed \/ (accepted /\ u = s)
    BY <1>6
  <2>2. \A u \in signed' : SignedOK(u)'
    BY <1>10, <1>11, <2>1
  <2> QED  BY <2>2 DEF SignedInv
<1> QED  BY <1>2, <1>8, <1>12 DEF SigningInv

(* Whatever the plugin answers, late, twice or not at all, and whenever it    *)
(* exits, for any keys, messages and bounds: Sign of a key file, of gpg and   *)
(* of a plugin (keyfile.go, gpg.go, plugin.go dispatch and                    *)
(* checkReturnedSignature) returns only blocks that verify.  SigningInv adds  *)
(* that ids in the pipes are not of calls to come, and that an answer with    *)
(* the id of the call under way is to its message.                            *)
THEOREM BlocksVerify == SigningSpec => []SignedBlockVerifies
<1>1. SigningInit => SigningInv
  <2> SUFFICES ASSUME SigningInit PROVE SigningInv
    OBVIOUS
  <2>1. CallInv
    BY NoCallFields DEF SigningInit, CallInv
  <2>2. PipeInv
    BY DEF SigningInit, PipeInv
  <2>3. HostInv
    <3>1. stage = (IF kind = "ed25519-file" THEN "keygen" ELSE "start") /\ signed = {} /\ call = NoCall /\ keyInfo.pub = Nobody
      BY DEF SigningInit, NoKeyInfo
    <3>2. kind # "plugin" => plugin.honest
      BY DEF SigningInit
    <3> QED  BY <3>1, <3>2, NoCallFields DEF HostInv
  <2>4. SignedInv
    BY DEF SigningInit, SignedInv
  <2> QED  BY <2>1, <2>2, <2>3, <2>4 DEF SigningInv
<1>2. SigningInv /\ [SigningNext]_svars => SigningInv'
  <2> SUFFICES ASSUME SigningInv, [SigningNext]_svars PROVE SigningInv'
    OBVIOUS
  <2>1. CASE UNCHANGED svars
    <3>1. QuietStep /\ UNCHANGED <<stage, disk>>
      BY <2>1 DEF svars, QuietStep
    <3>2. HostInv'
      BY <3>1 DEF SigningInv, HostInv, QuietStep, LoadPrivateKeyFile, ParsePrivateKeyBlob
    <3> QED  BY <3>1, <3>2, QuietSteps
  <2>2. CASE HostStep
    BY <2>2, HostSteps, CallSteps, KeyInfoReturnsStep, SignReturnsStep DEF HostStep
  <2>3. ASSUME NEW msg \in Messages, SignFile(msg) \/ SignGPG(msg) \/ SignPlugin(msg) PROVE SigningInv'
    BY <2>3, FileAndGPGSteps, CallSteps
  <2>4. CASE CloseSigner \/ (\E good \in BOOLEAN : Handshake(good)) \/ PluginReads \/ PluginAnswers
    BY <2>4, CallSteps
  <2>5. CASE PluginExits
    BY <2>5, HostSteps
  <2> QED  BY <2>1, <2>2, <2>3, <2>4, <2>5 DEF SigningNext
<1>3. SigningInv => SignedBlockVerifies
  BY DEF SigningInv, SignedInv, SignedOK, SignedBlockVerifies, Verifies
<1> QED  BY <1>1, <1>2, <1>3, PTL DEF SigningSpec
=============================================================================
