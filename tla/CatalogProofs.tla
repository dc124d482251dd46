--------------------------- MODULE CatalogProofs ---------------------------
(***************************************************************************)
(* Proofs about Catalog, for every set of targets and callers and every    *)
(* bound on calls and caches; about CatalogCache, for every set of writers *)
(* and readers and every number of attempts; and about CatalogBuild, for   *)
(* every set of sources, archives and workers.                             *)
(***************************************************************************)
EXTENDS CatalogCache, Catalog, CatalogBuild, Integers, FiniteSetTheorems, WellFoundedInduction, TLAPS

AnyTarget == Targets \cup {NoTarget}
AnyIndex == [key : AnyTarget, gen : Nat]

Cats == [bound : AnyTarget, loaded : AnyIndex, closed : BOOLEAN, building : BOOLEAN,
         loadMu : Callers \cup {NoTarget}, info : AnyIndex]
Ops == {"none", "ready", "loadtarget", "query", "build"}
Places == {"idle", "meta", "record", "load", "publish", "loaded", "wait", "fetch", "save"}
Results == {"none", "ok", "closed", "notbuilt", "inprogress", "failed", "notreplaced"}
Calls == [op : Ops, pc : Places, t : AnyTarget, gen : Nat, seen : SUBSET AnyTarget,
          answer : AnyIndex, result : Results]

Types ==
  /\ cat \in Cats /\ call \in [Callers -> Calls]
  /\ disk \in [Targets -> Nat] /\ saved \in Nat

(* A call under way has a target, and a query's was the bound one when it    *)
(* began; since then the set of targets it may answer from has only grown.   *)
Running ==
  \A c \in Callers : call[c].pc # "idle" =>
     call[c].t \in Targets /\ (call[c].op = "query" => call[c].t \in call[c].seen)

(* The query that reads, publishes or has loaded a cache holds loadMu. *)
HoldsLoad(c) == call[c].op = "query" /\ call[c].pc \in {"load", "publish", "loaded"}
LoadLock == \A c \in Callers : HoldsLoad(c) => cat.loadMu = c

(* A build under way has the building flag, and is the only one. *)
Builds(c) == call[c].op = "build" /\ call[c].pc # "idle"
OneBuild ==
  \A c \in Callers : Builds(c) => /\ cat.building
                                  /\ \A d \in Callers : Builds(d) => d = c

CatalogInv == Types /\ Running /\ LoadLock /\ OneBuild /\ ServedTargetWasBound

-----------------------------------------------------------------------------
(* NoCall, and what the helpers make of it, are calls. *)
LEMMA NoCallIsCall ==
  /\ NoIndex \in AnyIndex
  /\ NoCall \in Calls
  /\ NoCall.pc = "idle" /\ NoCall.answer = NoIndex
<1>1. NoIndex \in AnyIndex
  BY DEF NoIndex, AnyIndex, AnyTarget
<1>2. NoTarget \in AnyTarget /\ 0 \in Nat
  BY DEF AnyTarget
<1>3. {} \in SUBSET AnyTarget
  OBVIOUS
<1>4. NoCall \in Calls
  BY <1>1, <1>2, <1>3 DEF NoCall, Calls, Ops, Places, Results
<1> QED  BY <1>1, <1>4 DEF NoCall

(* The calls that a helper of Catalog makes, field by field. *)
LEMMA Returned ==
  ASSUME Types, NEW c \in Callers, NEW result \in Results
  PROVE  /\ Return(c, result) \in [Callers -> Calls]
         /\ \A d \in Callers \ {c} : Return(c, result)[d] = call[d]
         /\ Return(c, result)[c].op = call[c].op
         /\ Return(c, result)[c].pc = "idle"
         /\ Return(c, result)[c].answer = NoIndex
BY NoCallIsCall DEF Types, Return, NoCall, NoIndex, Calls, Ops, Places, Results

LEMMA Begun ==
  ASSUME Types, NEW c \in Callers, NEW op \in Ops, NEW pc \in Places, NEW t \in AnyTarget
  PROVE  LET cs == Begin(c, op, t, pc) IN
         /\ cs \in [Callers -> Calls]
         /\ \A d \in Callers \ {c} : cs[d] = call[d]
         /\ cs[c].op = op /\ cs[c].pc = pc /\ cs[c].t = t
         /\ cs[c].answer = NoIndex /\ cs[c].seen = {cat.bound}
<1>1. cat.bound \in AnyTarget
  BY DEF Types, Cats
<1> QED  BY <1>1, NoCallIsCall DEF Types, Begin, NoCall, NoIndex, Calls, Ops, Places, Results

LEMMA Served ==
  ASSUME NEW cs \in [Callers -> Calls], NEW c \in Callers, NEW ix \in AnyIndex
  PROVE  /\ Serve(cs, c, ix) \in [Callers -> Calls]
         /\ \A d \in Callers \ {c} : Serve(cs, c, ix)[d] = cs[d]
         /\ Serve(cs, c, ix)[c].op = "query" /\ Serve(cs, c, ix)[c].pc = "idle"
         /\ Serve(cs, c, ix)[c].answer = ix /\ Serve(cs, c, ix)[c].seen = cs[c].seen
<1> DEFINE seen == cs[c].seen
           mine == [NoCall EXCEPT !.op = "query", !.result = "ok", !.seen = seen, !.answer = ix]
<1>1. seen \in SUBSET AnyTarget
  BY DEF Calls
<1> HIDE DEF seen
<1>2. /\ mine \in Calls /\ mine.op = "query" /\ mine.pc = "idle"
      /\ mine.answer = ix /\ mine.seen = seen
  BY <1>1, NoCallIsCall DEF NoCall, NoIndex, Calls, Ops, Places, Results
<1>3. Serve(cs, c, ix) = [cs EXCEPT ![c] = mine]
  BY DEF Serve, mine, seen
<1> HIDE DEF mine
<1> QED  BY <1>2, <1>3 DEF seen

(* Binding a target only adds to what the running calls have seen. *)
LEMMA BoundSeen ==
  ASSUME NEW cs \in [Callers -> Calls], NEW t \in AnyTarget
  PROVE  /\ Bound(cs, t) \in [Callers -> Calls]
         /\ \A d \in Callers :
              /\ Bound(cs, t)[d].op = cs[d].op /\ Bound(cs, t)[d].pc = cs[d].pc
              /\ Bound(cs, t)[d].t = cs[d].t /\ Bound(cs, t)[d].answer = cs[d].answer
              /\ cs[d].seen \subseteq Bound(cs, t)[d].seen
BY DEF Bound, Calls

(* The catalogue's fields, read one by one. *)
LEMMA CatFields ==
  ASSUME Types
  PROVE  /\ cat.bound \in AnyTarget /\ cat.loaded \in AnyIndex /\ cat.info \in AnyIndex
         /\ cat.closed \in BOOLEAN /\ cat.building \in BOOLEAN /\ cat.loadMu \in Callers \cup {NoTarget}
         /\ \A c \in Callers : call[c].t \in AnyTarget /\ call[c].gen \in Nat
BY DEF Types, Cats, Calls

(* What a step of caller c owes, if the others only see more targets. *)
LEMMA OneMoves ==
  ASSUME CatalogInv, Types', NEW c \in Callers,
         \A d \in Callers \ {c} :
            /\ call'[d].op = call[d].op /\ call'[d].pc = call[d].pc /\ call'[d].t = call[d].t
            /\ call'[d].answer = call[d].answer /\ call[d].seen \subseteq call'[d].seen,
         call'[c].pc # "idle" =>
            call'[c].t \in Targets /\ (call'[c].op = "query" => call'[c].t \in call'[c].seen),
         HoldsLoad(c)' => cat'.loadMu = c,
         \/ cat'.loadMu = cat.loadMu \/ cat.loadMu \in {c, NoTarget},
         Builds(c)' => cat'.building /\ (Builds(c) \/ ~cat.building),
         cat'.building = cat.building \/ Builds(c) \/ cat'.building = TRUE,
         call'[c].answer # NoIndex => call'[c].answer.key \in call'[c].seen \/ NoTarget \in call'[c].seen
  PROVE  CatalogInv'
<1>1. Running'
  BY DEF CatalogInv, Running
<1>2. ServedTargetWasBound'
  BY DEF CatalogInv, ServedTargetWasBound
<1>3. LoadLock'
  BY NoTargetAssumption DEF CatalogInv, LoadLock, HoldsLoad
<1>4. OneBuild'
  BY DEF CatalogInv, OneBuild, Builds
<1> QED  BY <1>1, <1>2, <1>3, <1>4 DEF CatalogInv

-----------------------------------------------------------------------------
(* Every step of a caller keeps the invariant. *)
LEMMA CallerStep ==
  ASSUME CatalogInv, NEW c \in Callers,
         \/ \E t \in Targets : ReadyBind(c, t) \/ LoadTarget(c, t) \/ BuildBegin(c, t)
         \/ ReadyMeta(c) \/ ReadyRecord(c) \/ LoadRead(c) \/ LoadPublish(c) \/ LoadTargetBind(c)
         \/ QueryBegin(c) \/ QueryLock(c) \/ QueryCheck(c) \/ BuildFetch(c) \/ BuildSave(c) \/ BuildReturn(c)
  PROVE  CatalogInv'
<1>t. Types
  BY DEF CatalogInv
<1>f. /\ cat.bound \in AnyTarget /\ cat.loaded \in AnyIndex /\ cat.info \in AnyIndex
      /\ cat.closed \in BOOLEAN /\ cat.building \in BOOLEAN /\ cat.loadMu \in Callers \cup {NoTarget}
      /\ call[c].t \in AnyTarget /\ call[c].gen \in Nat
  BY <1>t, CatFields
<1>r. /\ call[c].pc # "idle" => call[c].t \in Targets /\ (call[c].op = "query" => call[c].t \in call[c].seen)
      /\ HoldsLoad(c) => cat.loadMu = c
      /\ Builds(c) => cat.building
      /\ call[c].answer # NoIndex => call[c].answer.key \in call[c].seen \/ NoTarget \in call[c].seen
  BY DEF CatalogInv, Running, LoadLock, OneBuild, ServedTargetWasBound
<1>1. ASSUME NEW t \in Targets, ReadyBind(c, t)  PROVE CatalogInv'
  <2> DEFINE cs == Begin(c, "ready", t, "meta")
  <2>1. call' = Bound(cs, t) /\ cat' = [cat EXCEPT !.bound = t] /\ UNCHANGED <<disk, saved>>
    BY <1>1 DEF ReadyBind
  <2>2. /\ cs \in [Callers -> Calls] /\ \A d \in Callers \ {c} : cs[d] = call[d]
        /\ cs[c].op = "ready" /\ cs[c].pc = "meta" /\ cs[c].t = t /\ cs[c].answer = NoIndex
    BY <1>t, Begun DEF Ops, Places, AnyTarget
  <2> HIDE DEF cs
  <2>3. /\ call' \in [Callers -> Calls]
        /\ \A d \in Callers : /\ call'[d].op = cs[d].op /\ call'[d].pc = cs[d].pc /\ call'[d].t = cs[d].t
                               /\ call'[d].answer = cs[d].answer /\ cs[d].seen \subseteq call'[d].seen
    BY <2>1, <2>2, BoundSeen DEF AnyTarget
  <2>4. Types'
    BY <1>t, <2>1, <2>3 DEF Types, Cats, AnyTarget
  <2>5. cat'.loadMu = cat.loadMu /\ cat'.building = cat.building
    BY <1>t, <2>1 DEF Types, Cats
  <2> QED  BY <2>2, <2>3, <2>4, <2>5, OneMoves DEF HoldsLoad, Builds
<1>2. ASSUME NEW t \in Targets, LoadTarget(c, t)  PROVE CatalogInv'
  <2>1. call' = Begin(c, "loadtarget", t, "load") /\ UNCHANGED <<cat, disk, saved>>
    BY <1>2 DEF LoadTarget
  <2>2. /\ call' \in [Callers -> Calls] /\ \A d \in Callers \ {c} : call'[d] = call[d]
        /\ call'[c].op = "loadtarget" /\ call'[c].pc = "load" /\ call'[c].t = t /\ call'[c].answer = NoIndex
    BY <1>t, <2>1, Begun DEF Ops, Places, AnyTarget
  <2>3. Types'
    BY <1>t, <2>1, <2>2 DEF Types
  <2> QED  BY <2>1, <2>2, <2>3, OneMoves DEF HoldsLoad, Builds
<1>3. ASSUME NEW t \in Targets, BuildBegin(c, t)  PROVE CatalogInv'
  <2>0. call[c].pc = "idle" /\ UNCHANGED <<disk, saved>>
    BY <1>3 DEF BuildBegin, Start
  <2>1. CASE cat.building
    <3>1. call' = Return(c, "inprogress") /\ UNCHANGED cat
      BY <1>3, <2>1 DEF BuildBegin
    <3>2. /\ call' \in [Callers -> Calls] /\ \A d \in Callers \ {c} : call'[d] = call[d]
          /\ call'[c].pc = "idle" /\ call'[c].answer = NoIndex
      BY <1>t, <3>1, Returned DEF Results
    <3>3. Types'
      BY <1>t, <2>0, <3>1, <3>2 DEF Types
    <3> QED  BY <3>1, <3>2, <3>3, OneMoves DEF HoldsLoad, Builds
  <2>2. CASE ~cat.building
    <3>1. call' = Begin(c, "build", t, "fetch") /\ cat' = [cat EXCEPT !.building = TRUE]
      BY <1>3, <2>2 DEF BuildBegin
    <3>2. /\ call' \in [Callers -> Calls] /\ \A d \in Callers \ {c} : call'[d] = call[d]
          /\ call'[c].op = "build" /\ call'[c].pc = "fetch" /\ call'[c].t = t /\ call'[c].answer = NoIndex
      BY <1>t, <3>1, Begun DEF Ops, Places, AnyTarget
    <3>3. Types' /\ cat'.loadMu = cat.loadMu /\ cat'.building = TRUE
      BY <1>t, <2>0, <3>1, <3>2 DEF Types, Cats
    <3> QED  BY <2>2, <3>2, <3>3, OneMoves DEF HoldsLoad, Builds
  <2> QED  BY <2>1, <2>2
<1>4. ASSUME ReadyMeta(c)  PROVE CatalogInv'
  <2>1. /\ call' = [call EXCEPT ![c].gen = disk[call[c].t], ![c].pc = "record"]
        /\ UNCHANGED <<cat, disk, saved>> /\ call[c].op = "ready" /\ call[c].pc = "meta"
    BY <1>4 DEF ReadyMeta, At
  <2>2. disk[call[c].t] \in Nat
    BY <1>t, <1>r, <2>1 DEF Types
  <2>3. /\ call' \in [Callers -> Calls] /\ \A d \in Callers \ {c} : call'[d] = call[d]
        /\ call'[c].op = "ready" /\ call'[c].t = call[c].t
        /\ call'[c].answer = call[c].answer /\ call'[c].seen = call[c].seen
    <3> "record" \in Places
      BY DEF Places
    <3> QED  BY <1>t, <2>1, <2>2 DEF Types, Calls
  <2>4. Types'
    BY <1>t, <2>1, <2>3 DEF Types
  <2> QED  BY <1>r, <2>1, <2>3, <2>4, OneMoves DEF HoldsLoad, Builds
<1>5. ASSUME ReadyRecord(c)  PROVE CatalogInv'
  <2> DEFINE result == IF call[c].gen = 0 THEN "notbuilt" ELSE "ok"
             info == IF call[c].gen = 0 THEN NoIndex ELSE [key |-> call[c].t, gen |-> call[c].gen]
  <2>1. call' = Return(c, result) /\ UNCHANGED <<disk, saved>> /\ cat' = [cat EXCEPT !.info = info]
    BY <1>5 DEF ReadyRecord
  <2>2. result \in Results /\ info \in AnyIndex
    BY <1>f, NoCallIsCall DEF Results, AnyIndex
  <2> HIDE DEF result, info
  <2>3. /\ call' \in [Callers -> Calls] /\ \A d \in Callers \ {c} : call'[d] = call[d]
        /\ call'[c].pc = "idle" /\ call'[c].answer = NoIndex
    BY <1>t, <2>1, <2>2, Returned
  <2>4. Types' /\ cat'.loadMu = cat.loadMu /\ cat'.building = cat.building
    BY <1>t, <2>1, <2>2, <2>3 DEF Types, Cats
  <2> QED  BY <2>3, <2>4, OneMoves DEF HoldsLoad, Builds
<1>6. ASSUME LoadRead(c)  PROVE CatalogInv'
  <2>0. call[c].pc = "load" /\ UNCHANGED <<disk, saved>>
    BY <1>6 DEF LoadRead
  <2>1. CASE disk[call[c].t] = 0
    <3>1. /\ call' = Return(c, "notbuilt")
          /\ cat' = [cat EXCEPT !.loadMu = Unlocked(c), !.building = Building(c)]
      BY <1>6, <2>1 DEF LoadRead
    <3>2. /\ call' \in [Callers -> Calls] /\ \A d \in Callers \ {c} : call'[d] = call[d]
          /\ call'[c].pc = "idle" /\ call'[c].answer = NoIndex
      BY <1>t, <3>1, Returned DEF Results
    <3>3. Unlocked(c) \in Callers \cup {NoTarget} /\ Building(c) \in BOOLEAN
      BY <1>f DEF Unlocked, Building
    <3>4. Types' /\ cat'.loadMu = Unlocked(c) /\ cat'.building = Building(c)
      BY <1>t, <2>0, <3>1, <3>2, <3>3 DEF Types, Cats
    <3> QED  BY <2>0, <3>2, <3>4, OneMoves DEF HoldsLoad, Builds, Unlocked, Building
  <2>2. CASE disk[call[c].t] # 0
    <3>1. call' = [call EXCEPT ![c].gen = disk[call[c].t], ![c].pc = "publish"] /\ UNCHANGED cat
      BY <1>6, <2>2 DEF LoadRead
    <3>2. disk[call[c].t] \in Nat
      BY <1>t, <1>r, <2>0 DEF Types
    <3>3. /\ call' \in [Callers -> Calls] /\ \A d \in Callers \ {c} : call'[d] = call[d]
          /\ call'[c].op = call[c].op /\ call'[c].t = call[c].t /\ call'[c].pc = "publish"
          /\ call'[c].answer = call[c].answer /\ call'[c].seen = call[c].seen
      <4> "publish" \in Places
        BY DEF Places
      <4> QED  BY <1>t, <3>1, <3>2 DEF Types, Calls
    <3>4. Types'
      BY <1>t, <2>0, <3>1, <3>3 DEF Types
    <3> QED  BY <1>r, <2>0, <3>1, <3>3, <3>4, OneMoves DEF HoldsLoad, Builds
  <2> QED  BY <2>1, <2>2
<1>7. ASSUME LoadPublish(c)  PROVE CatalogInv'
  <2> DEFINE ix == [key |-> call[c].t, gen |-> call[c].gen]
  <2>1. /\ call' = [call EXCEPT ![c].pc = "loaded"] /\ cat' = [cat EXCEPT !.loaded = ix, !.info = ix]
        /\ UNCHANGED <<disk, saved>> /\ call[c].pc = "publish"
    BY <1>7 DEF LoadPublish
  <2>2. ix \in AnyIndex
    BY <1>f DEF AnyIndex
  <2> HIDE DEF ix
  <2>3. /\ call' \in [Callers -> Calls] /\ \A d \in Callers \ {c} : call'[d] = call[d]
        /\ call'[c].op = call[c].op /\ call'[c].t = call[c].t /\ call'[c].pc = "loaded"
        /\ call'[c].answer = call[c].answer /\ call'[c].seen = call[c].seen
    <3> "loaded" \in Places /\ 0 \in Nat
      BY DEF Places
    <3> QED  BY <1>t, <2>1 DEF Types, Calls
  <2>4. Types' /\ cat'.loadMu = cat.loadMu /\ cat'.building = cat.building
    BY <1>t, <2>1, <2>2, <2>3 DEF Types, Cats
  <2> QED  BY <1>r, <2>1, <2>3, <2>4, OneMoves DEF HoldsLoad, Builds
<1>8. ASSUME LoadTargetBind(c)  PROVE CatalogInv'
  <2> DEFINE cs == Return(c, "ok")
  <2>1. /\ call' = Bound(cs, call[c].t) /\ cat' = [cat EXCEPT !.bound = call[c].t] /\ UNCHANGED <<disk, saved>>
        /\ call[c].op = "loadtarget"
    BY <1>8 DEF LoadTargetBind, At
  <2>2. /\ cs \in [Callers -> Calls] /\ \A d \in Callers \ {c} : cs[d] = call[d]
        /\ cs[c].pc = "idle" /\ cs[c].answer = NoIndex
    BY <1>t, Returned DEF Results
  <2> HIDE DEF cs
  <2>3. /\ call' \in [Callers -> Calls]
        /\ \A d \in Callers : /\ call'[d].op = cs[d].op /\ call'[d].pc = cs[d].pc /\ call'[d].t = cs[d].t
                               /\ call'[d].answer = cs[d].answer /\ cs[d].seen \subseteq call'[d].seen
    BY <1>f, <2>1, <2>2, BoundSeen
  <2>4. Types' /\ cat'.loadMu = cat.loadMu /\ cat'.building = cat.building
    BY <1>t, <1>f, <2>1, <2>3 DEF Types, Cats
  <2> QED  BY <2>2, <2>3, <2>4, OneMoves DEF HoldsLoad, Builds
<1>9. ASSUME QueryBegin(c)  PROVE CatalogInv'
  <2> DEFINE mine == Begin(c, "query", cat.bound, "wait")
             none(result) == [call EXCEPT ![c] = [NoCall EXCEPT !.op = "query", !.result = result]]
  <2>0. call[c].pc = "idle" /\ UNCHANGED <<cat, disk, saved>>
    BY <1>9 DEF QueryBegin, Start
  <2>1. /\ mine \in [Callers -> Calls] /\ \A d \in Callers \ {c} : mine[d] = call[d]
        /\ mine[c].op = "query" /\ mine[c].pc = "wait" /\ mine[c].t = cat.bound
        /\ mine[c].answer = NoIndex /\ mine[c].seen = {cat.bound}
    <3> "query" \in Ops /\ "wait" \in Places
      BY DEF Ops, Places
    <3> QED  BY <1>t, <1>f, Begun
  <2>2. ASSUME NEW result \in Results, call' = none(result)  PROVE CatalogInv'
    <3>1. /\ call' \in [Callers -> Calls] /\ \A d \in Callers \ {c} : call'[d] = call[d]
          /\ call'[c].pc = "idle" /\ call'[c].answer = NoIndex
      BY <1>t, <2>2, NoCallIsCall DEF Types, NoCall, NoIndex, Calls, Ops, Places
    <3>2. Types'
      BY <1>t, <2>0, <3>1 DEF Types
    <3> QED  BY <2>0, <3>1, <3>2, OneMoves DEF HoldsLoad, Builds
  <2> HIDE DEF mine
  <2>3. ASSUME call' = Serve(mine, c, cat.loaded), cat.bound \in {NoTarget, cat.loaded.key}  PROVE CatalogInv'
    <3>1. /\ call' \in [Callers -> Calls] /\ \A d \in Callers \ {c} : call'[d] = call[d]
          /\ call'[c].pc = "idle" /\ call'[c].answer = cat.loaded /\ call'[c].seen = {cat.bound}
      BY <1>f, <2>1, <2>3, Served
    <3>2. Types'
      BY <1>t, <2>0, <3>1 DEF Types
    <3> QED  BY <2>0, <2>3, <3>1, <3>2, OneMoves DEF HoldsLoad, Builds
  <2>4. ASSUME call' = mine, cat.bound # NoTarget  PROVE CatalogInv'
    <3>1. Types'
      BY <1>t, <2>0, <2>1, <2>4 DEF Types
    <3> QED  BY <1>f, <2>0, <2>1, <2>4, <3>1, OneMoves DEF HoldsLoad, Builds, AnyTarget
  <2>5. \/ call' = none("closed") \/ call' = none("notbuilt")
        \/ call' = Serve(mine, c, cat.loaded) /\ cat.bound \in {NoTarget, cat.loaded.key}
        \/ call' = mine /\ cat.bound # NoTarget
    BY <1>9 DEF QueryBegin, mine
  <2> HIDE DEF none
  <2> QED  BY <2>2, <2>3, <2>4, <2>5 DEF Results
<1>10. ASSUME QueryLock(c)  PROVE CatalogInv'
  <2>0. call[c].op = "query" /\ call[c].pc = "wait" /\ cat.loadMu = NoTarget /\ UNCHANGED <<disk, saved>>
    BY <1>10 DEF QueryLock, At
  <2>1. ASSUME call' = Return(c, "closed"), UNCHANGED cat  PROVE CatalogInv'
    <3>1. /\ call' \in [Callers -> Calls] /\ \A d \in Callers \ {c} : call'[d] = call[d]
          /\ call'[c].pc = "idle" /\ call'[c].answer = NoIndex
      BY <1>t, <2>1, Returned DEF Results
    <3>2. Types'
      BY <1>t, <2>0, <2>1, <3>1 DEF Types
    <3> QED  BY <2>1, <3>1, <3>2, OneMoves DEF HoldsLoad, Builds
  <2>2. ASSUME call' = Serve(call, c, cat.loaded), cat.loaded.key = call[c].t, UNCHANGED cat  PROVE CatalogInv'
    <3>1. /\ call' \in [Callers -> Calls] /\ \A d \in Callers \ {c} : call'[d] = call[d]
          /\ call'[c].pc = "idle" /\ call'[c].answer = cat.loaded /\ call'[c].seen = call[c].seen
      BY <1>t, <1>f, <2>2, Served DEF Types
    <3>2. Types'
      BY <1>t, <2>0, <2>2, <3>1 DEF Types
    <3> QED  BY <1>r, <2>0, <2>2, <3>1, <3>2, OneMoves DEF HoldsLoad, Builds
  <2>3. ASSUME call' = [call EXCEPT ![c].pc = "load"], cat' = [cat EXCEPT !.loadMu = c]  PROVE CatalogInv'
    <3>1. /\ call' \in [Callers -> Calls] /\ \A d \in Callers \ {c} : call'[d] = call[d]
          /\ call'[c].op = "query" /\ call'[c].t = call[c].t /\ call'[c].pc = "load"
          /\ call'[c].answer = call[c].answer /\ call'[c].seen = call[c].seen
      <4> "load" \in Places /\ 0 \in Nat
        BY DEF Places
      <4> QED  BY <1>t, <2>0, <2>3 DEF Types, Calls
    <3>2. Types' /\ cat'.loadMu = c /\ cat'.building = cat.building
      BY <1>t, <2>0, <2>3, <3>1 DEF Types, Cats
    <3> QED  BY <1>r, <2>0, <3>1, <3>2, OneMoves DEF HoldsLoad, Builds
  <2> QED  BY <1>10, <2>1, <2>2, <2>3 DEF QueryLock
<1>11. ASSUME QueryCheck(c)  PROVE CatalogInv'
  <2> DEFINE ix == [key |-> call[c].t, gen |-> call[c].gen]
  <2>0. /\ call[c].op = "query" /\ call[c].pc = "loaded" /\ cat' = [cat EXCEPT !.loadMu = NoTarget]
        /\ UNCHANGED <<disk, saved>>
        /\ call' = Return(c, "closed") \/ call' = Serve(call, c, ix)
    BY <1>11 DEF QueryCheck, At
  <2>1. ix \in AnyIndex /\ ix.key = call[c].t
    BY <1>f DEF AnyIndex
  <2> HIDE DEF ix
  <2>2. /\ call' \in [Callers -> Calls] /\ \A d \in Callers \ {c} : call'[d] = call[d]
        /\ call'[c].pc = "idle"
        /\ call'[c].answer = NoIndex \/ (call'[c].answer = ix /\ call'[c].seen = call[c].seen)
    <3>1. CASE call' = Return(c, "closed")
      BY <1>t, <3>1, Returned DEF Results
    <3>2. CASE call' = Serve(call, c, ix)
      BY <1>t, <2>1, <3>2, Served DEF Types
    <3> QED  BY <2>0, <3>1, <3>2
  <2>3. Types' /\ cat'.loadMu = NoTarget /\ cat'.building = cat.building
    BY <1>t, <2>0, <2>2 DEF Types, Cats
  <2> QED  BY <1>r, <2>0, <2>1, <2>2, <2>3, OneMoves DEF HoldsLoad, Builds
<1>12. ASSUME BuildFetch(c)  PROVE CatalogInv'
  <2>0. call[c].op = "build" /\ call[c].pc = "fetch" /\ UNCHANGED <<disk, saved>>
    BY <1>12 DEF BuildFetch, At
  <2>1. CASE call' = [call EXCEPT ![c].pc = "save"] /\ UNCHANGED cat
    <3>1. /\ call' \in [Callers -> Calls] /\ \A d \in Callers \ {c} : call'[d] = call[d]
          /\ call'[c].op = "build" /\ call'[c].t = call[c].t /\ call'[c].pc = "save"
          /\ call'[c].answer = call[c].answer /\ call'[c].seen = call[c].seen
      <4> "save" \in Places /\ 0 \in Nat
        BY DEF Places
      <4> QED  BY <1>t, <2>0, <2>1 DEF Types, Calls
    <3>2. Types'
      BY <1>t, <2>0, <2>1, <3>1 DEF Types
    <3> QED  BY <1>r, <2>0, <2>1, <3>1, <3>2, OneMoves DEF HoldsLoad, Builds
  <2>2. CASE call' = Return(c, "failed") /\ cat' = [cat EXCEPT !.building = FALSE]
    <3>1. /\ call' \in [Callers -> Calls] /\ \A d \in Callers \ {c} : call'[d] = call[d]
          /\ call'[c].pc = "idle" /\ call'[c].answer = NoIndex
      BY <1>t, <2>2, Returned DEF Results
    <3>2. Types' /\ cat'.loadMu = cat.loadMu
      BY <1>t, <2>0, <2>2, <3>1 DEF Types, Cats
    <3> QED  BY <2>0, <3>1, <3>2, OneMoves DEF HoldsLoad, Builds
  <2> QED  BY <1>12, <2>1, <2>2 DEF BuildFetch
<1>13. ASSUME BuildSave(c)  PROVE CatalogInv'
  <2>0. call[c].op = "build" /\ call[c].pc = "save"
    BY <1>13 DEF BuildSave, At
  <2>1. PICK result \in {"saved", "notreplaced", "failed"} :
          /\ call' = IF SaveOutcome(result) = "idle" THEN Return(c, result)
                     ELSE [call EXCEPT ![c].pc = SaveOutcome(result)]
          /\ cat' = [cat EXCEPT !.building = SaveOutcome(result) # "idle"]
          /\ disk' = IF result = "saved" THEN [disk EXCEPT ![call[c].t] = saved + 1] ELSE disk
          /\ saved' = IF result = "saved" THEN saved + 1 ELSE saved
    BY <1>13 DEF BuildSave
  <2>2. disk' \in [Targets -> Nat] /\ saved' \in Nat
    <3>1. disk \in [Targets -> Nat] /\ saved \in Nat /\ saved + 1 \in Nat
      BY <1>t DEF Types
    <3>2. CASE result = "saved"
      <4> disk' = [disk EXCEPT ![call[c].t] = saved + 1] /\ saved' = saved + 1
        BY <2>1, <3>2
      <4> QED  BY <3>1
    <3>3. CASE result # "saved"
      BY <2>1, <3>1, <3>3
    <3> QED  BY <3>2, <3>3
  <2>3. CASE result = "saved"
    <3>1. call' = [call EXCEPT ![c].pc = "load"] /\ cat' = [cat EXCEPT !.building = TRUE]
      BY <2>1, <2>3 DEF SaveOutcome
    <3>2. /\ call' \in [Callers -> Calls] /\ \A d \in Callers \ {c} : call'[d] = call[d]
          /\ call'[c].op = "build" /\ call'[c].t = call[c].t /\ call'[c].pc = "load"
          /\ call'[c].answer = call[c].answer /\ call'[c].seen = call[c].seen
      <4> "load" \in Places /\ 0 \in Nat
        BY DEF Places
      <4> QED  BY <1>t, <2>0, <3>1 DEF Types, Calls
    <3>3. Types' /\ cat'.loadMu = cat.loadMu /\ cat'.building = TRUE
      BY <1>t, <2>2, <3>1, <3>2 DEF Types, Cats
    <3> QED  BY <1>r, <2>0, <3>2, <3>3, OneMoves DEF HoldsLoad, Builds
  <2>4. CASE result # "saved"
    <3>1. call' = Return(c, result) /\ cat' = [cat EXCEPT !.building = FALSE]
      BY <2>1, <2>4 DEF SaveOutcome
    <3>2. /\ call' \in [Callers -> Calls] /\ \A d \in Callers \ {c} : call'[d] = call[d]
          /\ call'[c].pc = "idle" /\ call'[c].answer = NoIndex
      BY <1>t, <2>4, <3>1, Returned DEF Results
    <3>3. Types' /\ cat'.loadMu = cat.loadMu
      BY <1>t, <2>2, <3>1, <3>2 DEF Types, Cats
    <3> QED  BY <2>0, <3>2, <3>3, OneMoves DEF HoldsLoad, Builds
  <2> QED  BY <2>3, <2>4
<1>14. ASSUME BuildReturn(c)  PROVE CatalogInv'
  <2>0. /\ call[c].op = "build" /\ call[c].pc = "loaded" /\ UNCHANGED <<disk, saved>>
        /\ call' = Return(c, "ok") /\ cat' = [cat EXCEPT !.building = FALSE]
    BY <1>14 DEF BuildReturn, At
  <2>1. /\ call' \in [Callers -> Calls] /\ \A d \in Callers \ {c} : call'[d] = call[d]
        /\ call'[c].pc = "idle" /\ call'[c].answer = NoIndex
    BY <1>t, <2>0, Returned DEF Results
  <2>2. Types' /\ cat'.loadMu = cat.loadMu
    BY <1>t, <2>0, <2>1 DEF Types, Cats
  <2> QED  BY <2>0, <2>1, <2>2, OneMoves DEF HoldsLoad, Builds
<1> QED  BY <1>1, <1>2, <1>3, <1>4, <1>5, <1>6, <1>7, <1>8, <1>9, <1>10, <1>11, <1>12, <1>13, <1>14

(* The invariant is inductive. *)
LEMMA CatalogInvariant == MemSpec => []CatalogInv
<1>1. MemInit => CatalogInv
  <2> SUFFICES ASSUME MemInit PROVE CatalogInv
    OBVIOUS
  <2>1. cat = [bound |-> NoTarget, loaded |-> NoIndex, closed |-> FALSE, building |-> FALSE,
               loadMu |-> NoTarget, info |-> NoIndex]
    BY DEF MemInit
  <2>2. cat \in Cats
    BY <2>1, NoCallIsCall DEF Cats, AnyTarget
  <2>3. Types
    BY <2>2, NoCallIsCall DEF MemInit, Types
  <2> QED  BY <2>3, NoCallIsCall DEF MemInit, CatalogInv, Running, LoadLock, OneBuild, HoldsLoad, Builds, ServedTargetWasBound
<1>2. CatalogInv /\ [MemNext]_mvars => CatalogInv'
  <2> SUFFICES ASSUME CatalogInv, [MemNext]_mvars PROVE CatalogInv'
    OBVIOUS
  <2>1. CASE CloseCatalog
    <3>1. cat' = [cat EXCEPT !.closed = TRUE, !.loaded = NoIndex] /\ UNCHANGED <<disk, saved, call>>
      BY <2>1 DEF CloseCatalog
    <3>2. Types' /\ cat'.loadMu = cat.loadMu /\ cat'.building = cat.building
      BY <3>1, NoCallIsCall DEF CatalogInv, Types, Cats
    <3> QED  BY <3>1, <3>2 DEF CatalogInv, Running, LoadLock, OneBuild, HoldsLoad, Builds, ServedTargetWasBound
  <2>2. CASE OtherProcess
    <3>1. disk' \in [Targets -> Nat] /\ saved' \in Nat /\ UNCHANGED <<cat, call>>
      BY <2>2 DEF OtherProcess, CatalogInv, Types
    <3> QED  BY <3>1 DEF CatalogInv, Types, Running, LoadLock, OneBuild, HoldsLoad, Builds, ServedTargetWasBound
  <2>3. CASE UNCHANGED mvars
    BY <2>3 DEF mvars, CatalogInv, Types, Running, LoadLock, OneBuild, HoldsLoad, Builds, ServedTargetWasBound
  <2> QED  BY <2>1, <2>2, <2>3, CallerStep DEF MemNext
<1> QED  BY <1>1, <1>2, PTL DEF MemSpec

(* A query is only ever answered from the cache of a target that was the      *)
(* bound one at some time during the call (Ready, ensureLoaded), however       *)
(* binds, loads, builds, a close and other processes overlap it.               *)
THEOREM NoQuietSubstitute == MemSpec => []ServedTargetWasBound
<1>1. CatalogInv => ServedTargetWasBound
  BY DEF CatalogInv
<1> QED  BY <1>1, CatalogInvariant, PTL

(* The loads of queries exclude one another under loadMu, and so do builds     *)
(* under the building flag (ensureLoaded, Build), on every path by which a     *)
(* load or a build can end.                                                    *)
Serialised ==
  \A c, d \in Callers : (HoldsLoad(c) /\ HoldsLoad(d)) \/ (Builds(c) /\ Builds(d)) => c = d
THEOREM LoadsAndBuildsAreSerialised == MemSpec => []Serialised
<1>1. CatalogInv => Serialised
  BY DEF CatalogInv, LoadLock, OneBuild, Serialised
<1> QED  BY <1>1, CatalogInvariant, PTL


-----------------------------------------------------------------------------
(* The cache directory.  A save that has it to itself.                     *)

Saver == [pc : {"idle", "meta", "link", "bin", "marker", "back", "giveup", "commit", "abandon", "keep", "stuck"},
          gen : Nat, link : Nat, tries : Int, clean : BOOLEAN]
Files == [bin : Nat, meta : Nat,
          temps : SUBSET [kind : {"bin", "meta", "link"}, owner : Writers, gen : Nat]]

CacheTypes == dir \in Files /\ save \in [Writers -> Saver] /\ last \in Nat /\ last >= 3

Holds(d, kind, w) == \E t \in d.temps : t.kind = kind /\ t.owner = w
Whole(d) == d.meta = NoGen \/ Fits(d.bin, d.meta)

(* Step by step, what keeps a mismatch from being quiet: the pair is whole, or *)
(* the marker's temporary or the link that was set aside is still there.       *)
Sound(w, s, d) ==
  /\ s.gen > 3
  /\ s.pc \in {"meta", "link", "bin", "commit", "abandon"} => Whole(d)
  /\ s.pc \in {"link", "bin"} => d.meta = NoGen \/ Holds(d, "meta", w)
  /\ s.pc = "bin" /\ s.link # NoGen => d.meta = NoGen \/ (Holds(d, "link", w) /\ s.link = d.bin)
  /\ s.pc \in {"marker", "back", "giveup", "stuck"} =>
        /\ Holds(d, "meta", w) => d.bin = s.gen
        /\ \/ d.meta = NoGen
           \/ Holds(d, "meta", w) /\ (s.link # NoGen => Holds(d, "link", w) /\ Fits(s.link, d.meta))
  /\ s.pc = "back" => s.link # NoGen
  /\ s.pc = "keep" => d.meta = NoGen \/ Holds(d, "link", w)

CleanInv ==
  \A w \in Writers : save[w].clean /\ save[w].pc # "idle" => Alone(w) /\ Sound(w, save[w], dir)

CacheInv == CacheTypes /\ CleanInv

(* A save as it begins, tries again, and tries again without its link. *)
SaveBegun(g, t, c) == [NoSave EXCEPT !.pc = "meta", !.gen = g, !.tries = t, !.clean = c]
Retried(s, p, t) == [s EXCEPT !.pc = p, !.tries = t]
Unlinked(s, p, t) == [s EXCEPT !.link = NoGen, !.tries = t, !.pc = p]
RetryPlaces == {"link", "marker", "back", "giveup", "abandon"}

LEMMA SaverBegins ==
  ASSUME NEW g \in Nat, NEW t \in Int, NEW c \in BOOLEAN
  PROVE  /\ SaveBegun(g, t, c) \in Saver /\ SaveBegun(g, t, c).pc = "meta"
         /\ SaveBegun(g, t, c).gen = g /\ SaveBegun(g, t, c).clean = c
BY DEF SaveBegun, Saver, NoSave, NoGen

LEMMA SaverRetries ==
  ASSUME NEW s \in Saver, NEW t \in Int, NEW p \in RetryPlaces
  PROVE  /\ Retried(s, p, t) \in Saver /\ Retried(s, p, t).pc = p
         /\ Retried(s, p, t).gen = s.gen /\ Retried(s, p, t).link = s.link
         /\ Retried(s, p, t).clean = s.clean
BY DEF Retried, RetryPlaces, Saver

LEMMA SaverUnlinks ==
  ASSUME NEW s \in Saver, NEW t \in Int, NEW p \in RetryPlaces
  PROVE  /\ Unlinked(s, p, t) \in Saver /\ Unlinked(s, p, t).pc = p
         /\ Unlinked(s, p, t).gen = s.gen /\ Unlinked(s, p, t).link = NoGen
         /\ Unlinked(s, p, t).clean = s.clean
BY DEF Unlinked, RetryPlaces, Saver, NoGen

LEMMA SoundIsLoud ==
  ASSUME NEW d \in Files, NEW w, NEW s \in Saver, s.pc # "idle", Sound(w, s, d)
  PROVE  ~Damaged(d)
BY DEF Files, Saver, Sound, Damaged, Whole, Holds

(* A step of one save: the others are idle where one of them, or this one, is clean. *)
LEMMA SaverMoves ==
  ASSUME CacheInv, NEW w \in Writers, save[w].pc # "idle", NEW s \in Saver,
         save' = [save EXCEPT ![w] = s], dir' \in Files, last' = last,
         s.pc # "idle" => s.clean = save[w].clean,
         s.clean /\ s.pc # "idle" => Sound(w, s, dir')
  PROVE  CacheInv'
<1>1. save \in [Writers -> Saver]
  BY DEF CacheInv, CacheTypes
<1>2. save'[w] = s /\ \A v \in Writers \ {w} : save'[v] = save[v]
  BY <1>1
<1>3. CacheTypes'
  BY <1>1 DEF CacheInv, CacheTypes
<1>4. ASSUME NEW v \in Writers, save'[v].clean, save'[v].pc # "idle"
      PROVE  Alone(v)' /\ Sound(v, save'[v], dir')
  <2>1. CASE v = w
    <3>1. Alone(w)
      BY <1>2, <1>4, <2>1 DEF CacheInv, CleanInv
    <3> QED  BY <1>2, <1>4, <2>1, <3>1 DEF Alone
  <2>2. CASE v # w
    <3>1. Alone(v)
      BY <1>2, <1>4, <2>2 DEF CacheInv, CleanInv
    <3> QED  BY <2>2, <3>1 DEF Alone
  <2> QED  BY <2>1, <2>2
<1>5. CleanInv'
  BY <1>4 DEF CleanInv, Alone, Sound, Holds, Whole
<1> QED  BY <1>3, <1>5 DEF CacheInv

(* The directory loses at most what no save owns. *)
LEMMA DirectoryMoves ==
  ASSUME CacheInv, UNCHANGED <<save, last>>, dir' \in Files,
         /\ dir'.bin = dir.bin /\ dir'.meta = dir.meta
         /\ \A t \in dir.temps : save[t.owner].pc # "idle" => t \in dir'.temps
         /\ dir'.temps \subseteq dir.temps
  PROVE  CacheInv'
<1>1. CacheTypes'
  BY DEF CacheInv, CacheTypes
<1>2. ASSUME NEW w \in Writers, save[w].clean, save[w].pc # "idle"
      PROVE  Alone(w)' /\ Sound(w, save[w], dir')
  <2>1. Alone(w) /\ Sound(w, save[w], dir) /\ save[w] \in Saver
    BY <1>2 DEF CacheInv, CleanInv, CacheTypes
  <2>2. Alone(w)'
    BY <2>1 DEF Alone
  <2>3. \A k : Holds(dir', k, w) <=> Holds(dir, k, w)
    BY <1>2 DEF Holds
  <2> QED  BY <2>1, <2>2, <2>3 DEF Sound, Whole
<1>3. CleanInv'
  BY <1>2 DEF CleanInv, Alone, Sound, Holds, Whole
<1> QED  BY <1>1, <1>3 DEF CacheInv

(* What is left when a file is removed is still a directory. *)
LEMMA OneLessIsFiles ==
  ASSUME NEW d \in Files, NEW e \in OneLess(d)
  PROVE  /\ e \in Files /\ e.bin \in {d.bin, NoGen} /\ e.meta \in {d.meta, NoGen} /\ e.temps \subseteq d.temps
<1>1. d = [bin |-> d.bin, meta |-> d.meta, temps |-> d.temps] /\ d.bin \in Nat /\ d.meta \in Nat /\ NoGen \in Nat
      /\ d.temps \in SUBSET [kind : {"bin", "meta", "link"}, owner : Writers, gen : Nat]
  BY DEF Files, NoGen
<1>2. CASE e = [d EXCEPT !.bin = NoGen]
  <2>1. e = [bin |-> NoGen, meta |-> d.meta, temps |-> d.temps]
    BY <1>1, <1>2
  <2> QED  BY <1>1, <2>1 DEF Files
<1>3. CASE e = [d EXCEPT !.meta = NoGen]
  <2>1. e = [bin |-> d.bin, meta |-> NoGen, temps |-> d.temps]
    BY <1>1, <1>3
  <2> QED  BY <1>1, <2>1 DEF Files
<1>4. CASE \E t \in d.temps : e = [d EXCEPT !.temps = @ \ {t}]
  <2>1. PICK t \in d.temps : e = [d EXCEPT !.temps = @ \ {t}]
    BY <1>4
  <2>2. e = [bin |-> d.bin, meta |-> d.meta, temps |-> d.temps \ {t}]
    BY <1>1, <2>1
  <2> QED  BY <1>1, <2>2 DEF Files
<1> QED  BY <1>2, <1>3, <1>4 DEF OneLess

(* No save is clean once a file was removed. *)
LEMMA RemoveFileKeeps ==
  ASSUME CacheInv, RemoveFile
  PROVE  CacheInv'
<1>1. dir \in Files /\ save \in [Writers -> Saver] /\ last' = last
  BY DEF CacheInv, CacheTypes, RemoveFile
<1>2. dir' \in Files
  BY <1>1, OneLessIsFiles DEF RemoveFile
<1>3. save' = [w \in Writers |-> [save[w] EXCEPT !.clean = FALSE]]
  BY DEF RemoveFile
<1>4. ASSUME NEW w \in Writers PROVE save'[w] \in Saver /\ ~save'[w].clean
  <2>1. save'[w] = [save[w] EXCEPT !.clean = FALSE] /\ save[w] \in Saver
    BY <1>1, <1>3
  <2> QED  BY <2>1 DEF Saver
<1>5. CacheTypes'
  BY <1>1, <1>2, <1>3, <1>4 DEF CacheInv, CacheTypes
<1>6. CleanInv'
  BY <1>4 DEF CleanInv
<1> QED  BY <1>5, <1>6 DEF CacheInv

-----------------------------------------------------------------------------
(* The steps of a save. *)

(* What is known of a save that is under way. *)
LEMMA Underway ==
  ASSUME CacheInv, NEW w \in Writers
  PROVE  /\ save[w] \in Saver /\ dir \in Files
         /\ save[w].clean /\ save[w].pc # "idle" => Sound(w, save[w], dir)
BY DEF CacheInv, CacheTypes, CleanInv

(* The directory with one more temporary of w. *)
LEMMA TempAdded ==
  ASSUME NEW d \in Files, NEW w \in Writers, NEW kind \in {"bin", "meta", "link"}, NEW g \in Nat,
         NEW e, e = [d EXCEPT !.temps = @ \cup {Temp(kind, w, g)}]
  PROVE  /\ e \in Files /\ e.bin = d.bin /\ e.meta = d.meta /\ e.temps # {}
         /\ Holds(e, kind, w)
         /\ \A k : Holds(d, k, w) => Holds(e, k, w)
<1>1. e.bin = d.bin /\ e.meta = d.meta /\ e.temps = d.temps \cup {Temp(kind, w, g)} /\ e = [bin |-> e.bin, meta |-> e.meta, temps |-> e.temps]
  BY DEF Files
<1>2. Temp(kind, w, g) \in [kind : {"bin", "meta", "link"}, owner : Writers, gen : Nat]
  BY DEF Temp
<1>3. e \in Files
  BY <1>1, <1>2 DEF Files
<1>4. Temp(kind, w, g).kind = kind /\ Temp(kind, w, g).owner = w
  BY DEF Temp
<1> QED  BY <1>1, <1>3, <1>4 DEF Holds

LEMMA WriteTempKeeps ==
  ASSUME CacheInv, NEW w \in Writers, CacheWriteTemp(w)
  PROVE  CacheInv' /\ dir'.temps # {}
<1> DEFINE c == Alone(w) /\ Fits(dir.bin, dir.meta)
           s == SaveBegun(last + 1, Attempts, c)
<1>1. save \in [Writers -> Saver] /\ dir \in Files /\ last \in Nat /\ last >= 3 /\ last' = last + 1
  BY DEF CacheInv, CacheTypes, CacheWriteTemp
<1>2. /\ s \in Saver /\ s.pc = "meta" /\ s.gen = last + 1
      /\ s.clean = c
  <2>1. c \in BOOLEAN
    BY DEF Alone, Fits
  <2>2. Attempts \in Int /\ last + 1 \in Nat /\ 0 \in Nat
    BY <1>1, CacheAssumption
  <2> HIDE DEF c
  <2> QED  BY <2>1, <2>2, SaverBegins
<1>3. save' = [v \in Writers |-> IF v = w THEN s ELSE [save[v] EXCEPT !.clean = FALSE]]
  BY DEF CacheWriteTemp, SaveBegun
<1>4. ASSUME NEW v \in Writers \ {w}
      PROVE  /\ save'[v] \in Saver /\ ~save'[v].clean /\ save'[v].pc = save[v].pc
  <2>1. save'[v] = [save[v] EXCEPT !.clean = FALSE] /\ save[v] \in Saver
    BY <1>1, <1>3
  <2> QED  BY <2>1 DEF Saver
<1>5. save'[w] = s
  BY <1>3
<1>6. dir' = [dir EXCEPT !.temps = @ \cup {Temp("bin", w, last + 1)}]
  BY DEF CacheWriteTemp, Put
<1>7. dir' \in Files /\ dir'.bin = dir.bin /\ dir'.meta = dir.meta /\ dir'.temps # {}
  <2>1. last + 1 \in Nat
    BY <1>1
  <2> QED  BY <1>1, <1>6, <2>1, TempAdded
<1>8. CacheTypes'
  <2>1. save' \in [Writers -> Saver]
    BY <1>2, <1>3, <1>4, <1>5
  <2> QED  BY <1>1, <1>7, <2>1 DEF CacheTypes
<1>9. ASSUME NEW v \in Writers, save'[v].clean, save'[v].pc # "idle"
      PROVE  Alone(v)' /\ Sound(v, save'[v], dir')
  <2>1. v = w
    BY <1>4, <1>9
  <2>2. Alone(w) /\ Fits(dir.bin, dir.meta)
    BY <1>2, <1>5, <1>9, <2>1
  <2>3. Alone(w)'
    BY <1>4, <2>2 DEF Alone
  <2>4. Sound(w, s, dir')
    BY <1>1, <1>2, <1>7, <2>2 DEF Sound, Whole, Fits
  <2> QED  BY <1>5, <2>1, <2>3, <2>4
<1>10. CleanInv'
  BY <1>9 DEF CleanInv
<1> QED  BY <1>7, <1>8, <1>10 DEF CacheInv

LEMMA WriteMarkerKeeps ==
  ASSUME CacheInv, NEW w \in Writers, CacheWriteMarker(w)
  PROVE  CacheInv' /\ (save[w].clean => ~Damaged(dir'))
<1>1. /\ save[w] \in Saver /\ dir \in Files /\ save[w].pc = "meta" /\ last' = last
      /\ save[w].clean => Sound(w, save[w], dir)
  BY Underway DEF CacheWriteMarker, Saving
<1>2. CASE /\ save' = [save EXCEPT ![w].pc = "link"]
           /\ Put([dir EXCEPT !.temps = @ \cup {Temp("meta", w, save[w].gen)}])
  <2> DEFINE s == [save[w] EXCEPT !.pc = "link"]
  <2>1. s \in Saver /\ s.pc = "link" /\ s.gen = save[w].gen /\ s.clean = save[w].clean
    BY <1>1 DEF Saver
  <2>2. dir' = [dir EXCEPT !.temps = @ \cup {Temp("meta", w, save[w].gen)}] /\ save[w].gen \in Nat
    BY <1>1, <1>2 DEF Put, Saver
  <2>3. dir' \in Files /\ dir'.bin = dir.bin /\ dir'.meta = dir.meta /\ Holds(dir', "meta", w)
    BY <1>1, <2>2, TempAdded
  <2>4. save[w].clean => Sound(w, s, dir')
    BY <1>1, <2>1, <2>3 DEF Sound, Whole
  <2>5. save' = [save EXCEPT ![w] = s]
    BY <1>2
  <2>6. CacheInv'
    BY <1>1, <2>1, <2>3, <2>4, <2>5, SaverMoves
  <2> QED  BY <2>1, <2>3, <2>4, <2>6, SoundIsLoud
<1>3. CASE save' = [save EXCEPT ![w].pc = "abandon"] /\ UNCHANGED <<dir, quiet>>
  <2> DEFINE s == [save[w] EXCEPT !.pc = "abandon"]
  <2>1. s \in Saver /\ s.pc = "abandon" /\ s.gen = save[w].gen /\ s.clean = save[w].clean
    BY <1>1 DEF Saver
  <2>2. save[w].clean => Sound(w, s, dir')
    BY <1>1, <1>3, <2>1 DEF Sound
  <2>3. save' = [save EXCEPT ![w] = s] /\ dir' \in Files
    BY <1>1, <1>3
  <2>4. CacheInv'
    BY <1>1, <2>1, <2>2, <2>3, SaverMoves
  <2> QED  BY <2>1, <2>2, <2>3, <2>4, SoundIsLoud
<1> QED  BY <1>2, <1>3 DEF CacheWriteMarker

LEMMA LinkAsideKeeps ==
  ASSUME CacheInv, NEW w \in Writers, CacheLinkAside(w)
  PROVE  CacheInv' /\ (save[w].clean => ~Damaged(dir'))
<1>1. /\ save[w] \in Saver /\ dir \in Files /\ save[w].pc = "link" /\ last' = last
      /\ save[w].clean => Sound(w, save[w], dir)
  BY Underway DEF CacheLinkAside, Saving
<1>2. CASE /\ save' = [save EXCEPT ![w].pc = "bin", ![w].link = NoGen]
           /\ UNCHANGED <<dir, quiet>>
  <2> DEFINE s == [save[w] EXCEPT !.pc = "bin", !.link = NoGen]
  <2>1. s \in Saver /\ s.pc = "bin" /\ s.link = NoGen /\ s.gen = save[w].gen /\ s.clean = save[w].clean
    BY <1>1 DEF Saver, NoGen
  <2>2. save[w].clean => Sound(w, s, dir')
    BY <1>1, <1>2, <2>1 DEF Sound
  <2>3. save' = [save EXCEPT ![w] = s] /\ dir' \in Files
    BY <1>1, <1>2 DEF CacheInv, CacheTypes
  <2>4. CacheInv'
    BY <1>1, <2>1, <2>2, <2>3, SaverMoves
  <2> QED  BY <2>1, <2>2, <2>3, <2>4, SoundIsLoud
<1>3. CASE /\ dir.meta # NoGen /\ dir.bin # NoGen
           /\ save' = [save EXCEPT ![w].pc = "bin", ![w].link = dir.bin]
           /\ Put([dir EXCEPT !.temps = @ \cup {Temp("link", w, dir.bin)}])
  <2> DEFINE s == [save[w] EXCEPT !.pc = "bin", !.link = dir.bin]
  <2>0. dir.bin \in Nat
    BY <1>1 DEF Files
  <2>1. s \in Saver /\ s.pc = "bin" /\ s.link = dir.bin /\ s.gen = save[w].gen /\ s.clean = save[w].clean
    BY <1>1, <2>0 DEF Saver
  <2>2. dir' = [dir EXCEPT !.temps = @ \cup {Temp("link", w, dir.bin)}]
    BY <1>3 DEF Put
  <2>3. /\ dir' \in Files /\ dir'.bin = dir.bin /\ dir'.meta = dir.meta /\ Holds(dir', "link", w)
        /\ \A k : Holds(dir, k, w) => Holds(dir', k, w)
    BY <1>1, <2>0, <2>2, TempAdded
  <2>4. save[w].clean => Sound(w, s, dir')
    BY <1>1, <2>1, <2>3 DEF Sound, Whole
  <2>5. save' = [save EXCEPT ![w] = s]
    BY <1>1, <1>3 DEF CacheInv, CacheTypes
  <2>6. CacheInv'
    BY <1>1, <2>1, <2>3, <2>4, <2>5, SaverMoves
  <2> QED  BY <2>1, <2>3, <2>4, <2>6, SoundIsLoud
<1> QED  BY <1>2, <1>3 DEF CacheLinkAside

(* The directory with another index or marker, and without one kind of w's    *)
(* temporaries.                                                               *)
LEMMA TempGone ==
  ASSUME CacheTypes, NEW w \in Writers, NEW kind, NEW b \in Nat, NEW m \in Nat,
         NEW e, e = [bin |-> b, meta |-> m, temps |-> Without(kind, w)]
  PROVE  /\ e \in Files /\ e.bin = b /\ e.meta = m
         /\ \A k : k # kind => (Holds(e, k, w) <=> Holds(dir, k, w))
<1>1. Without(kind, w) \in SUBSET [kind : {"bin", "meta", "link"}, owner : Writers, gen : Nat]
  BY DEF Without, CacheTypes, Files
<1>2. e \in Files
  BY <1>1 DEF Files
<1> QED  BY <1>2 DEF Holds, Without, Mine, Temp

LEMMA RenameIndexKeeps ==
  ASSUME CacheInv, NEW w \in Writers, RenameIndex(w)
  PROVE  CacheInv' /\ (save[w].clean => ~Damaged(dir'))
<1>1. /\ save[w] \in Saver /\ dir \in Files /\ save[w].pc = "bin" /\ last' = last
      /\ save[w].clean => Sound(w, save[w], dir)
      /\ CacheTypes
  BY Underway DEF RenameIndex, Saving, CacheInv
<1>0. dir.bin \in Nat /\ dir.meta \in Nat /\ save[w].gen \in Nat
      /\ dir = [bin |-> dir.bin, meta |-> dir.meta, temps |-> dir.temps]
  BY <1>1 DEF Files, Saver
<1>2. CASE /\ Has("bin", w)
           /\ Put([dir EXCEPT !.bin = save[w].gen, !.temps = Without("bin", w)])
           /\ save' = [save EXCEPT ![w].pc = "marker", ![w].tries = Attempts]
  <2> DEFINE s == Retried(save[w], "marker", Attempts)
  <2>1. s \in Saver /\ s.pc = "marker" /\ s.link = save[w].link /\ s.gen = save[w].gen /\ s.clean = save[w].clean
    <3>1. Attempts \in Int /\ "marker" \in RetryPlaces
      BY CacheAssumption DEF RetryPlaces
    <3> QED  BY <1>1, <3>1, SaverRetries
  <2>2. dir' = [bin |-> save[w].gen, meta |-> dir.meta, temps |-> Without("bin", w)]
    BY <1>0, <1>2 DEF Put
  <2>3. /\ dir' \in Files /\ dir'.bin = save[w].gen /\ dir'.meta = dir.meta
        /\ \A k : k # "bin" => (Holds(dir', k, w) <=> Holds(dir, k, w))
    BY <1>0, <1>1, <2>2, TempGone
  <2>4. /\ Holds(dir', "meta", w) <=> Holds(dir, "meta", w)
        /\ Holds(dir', "link", w) <=> Holds(dir, "link", w)
    BY <2>3
  <2>5. save[w].clean => Sound(w, s, dir')
    BY <1>1, <2>1, <2>3, <2>4 DEF Sound, Whole, Fits
  <2>6. save' = [save EXCEPT ![w] = s]
    BY <1>1, <1>2 DEF CacheTypes, Retried
  <2>7. CacheInv'
    BY <1>1, <2>1, <2>3, <2>5, <2>6, SaverMoves
  <2> QED  BY <2>1, <2>3, <2>5, <2>7, SoundIsLoud
<1>3. CASE /\ Put([dir EXCEPT !.temps = Without("link", w)])
           /\ save' = [save EXCEPT ![w].link = NoGen, ![w].tries = @ - 1,
                                   ![w].pc = IF save[w].tries = 1 THEN "abandon" ELSE "link"]
  <2> DEFINE p == IF save[w].tries = 1 THEN "abandon" ELSE "link"
             s == Unlinked(save[w], p, save[w].tries - 1)
  <2>0. p \in {"abandon", "link"} /\ p \in RetryPlaces /\ save[w].tries - 1 \in Int
    BY <1>1 DEF Saver, RetryPlaces
  <2>1. s \in Saver /\ s.pc \in {"abandon", "link"} /\ s.link = NoGen /\ s.gen = save[w].gen /\ s.clean = save[w].clean
    <3> HIDE DEF p
    <3> QED  BY <1>1, <2>0, SaverUnlinks
  <2>2. dir' = [bin |-> dir.bin, meta |-> dir.meta, temps |-> Without("link", w)]
    BY <1>0, <1>3 DEF Put
  <2>3. /\ dir' \in Files /\ dir'.bin = dir.bin /\ dir'.meta = dir.meta
        /\ \A k : k # "link" => (Holds(dir', k, w) <=> Holds(dir, k, w))
    BY <1>0, <1>1, <2>2, TempGone
  <2>4. Holds(dir', "meta", w) <=> Holds(dir, "meta", w)
    BY <2>3
  <2>5. save[w].clean => Sound(w, s, dir')
    BY <1>1, <2>1, <2>3, <2>4 DEF Sound, Whole, Fits
  <2>6. save' = [save EXCEPT ![w] = s]
    BY <1>1, <1>3 DEF CacheTypes, Unlinked
  <2>7. CacheInv'
    BY <1>1, <2>1, <2>3, <2>5, <2>6, SaverMoves
  <2> QED  BY <2>1, <2>3, <2>5, <2>7, SoundIsLoud
<1> QED  BY <1>2, <1>3 DEF RenameIndex

LEMMA RenameMarkerKeeps ==
  ASSUME CacheInv, NEW w \in Writers, RenameMarker(w)
  PROVE  CacheInv' /\ (save[w].clean => ~Damaged(dir'))
<1>1. /\ save[w] \in Saver /\ dir \in Files /\ save[w].pc = "marker" /\ last' = last
      /\ save[w].clean => Sound(w, save[w], dir)
      /\ CacheTypes
  BY Underway DEF RenameMarker, Saving, CacheInv
<1>0. dir.bin \in Nat /\ dir.meta \in Nat /\ save[w].gen \in Nat /\ save[w].link \in Nat /\ save[w].tries \in Int
      /\ save[w].clean \in BOOLEAN /\ dir = [bin |-> dir.bin, meta |-> dir.meta, temps |-> dir.temps]
  BY <1>1 DEF Files, Saver
<1>2. CASE /\ Has("meta", w)
           /\ Put([dir EXCEPT !.meta = save[w].gen, !.temps = Without("meta", w)])
           /\ save' = [save EXCEPT ![w].pc = "commit"]
  <2> DEFINE s == [save[w] EXCEPT !.pc = "commit"]
  <2>1. s \in Saver /\ s.pc = "commit" /\ s.gen = save[w].gen /\ s.clean = save[w].clean
    BY <1>1 DEF Saver
  <2>2. dir' = [bin |-> dir.bin, meta |-> save[w].gen, temps |-> Without("meta", w)]
    BY <1>0, <1>2 DEF Put
  <2>3. dir' \in Files /\ dir'.bin = dir.bin /\ dir'.meta = save[w].gen
    BY <1>0, <1>1, <2>2, TempGone
  <2>4. Holds(dir, "meta", w)
    BY <1>2 DEF Holds, Has, Mine, Temp
  <2>5. save[w].clean => Fits(dir'.bin, dir'.meta)
    BY <1>0, <1>1, <2>3, <2>4, CacheAssumption DEF Sound, Fits
  <2>6. save[w].clean => Sound(w, s, dir')
    BY <1>1, <2>1, <2>5 DEF Sound, Whole
  <2>7. save' = [save EXCEPT ![w] = s]
    BY <1>1, <1>2 DEF CacheTypes
  <2>8. CacheInv'
    BY <1>1, <2>1, <2>3, <2>6, <2>7, SaverMoves
  <2> QED  BY <2>1, <2>3, <2>6, <2>8, SoundIsLoud
<1>3. CASE /\ save' = [save EXCEPT ![w].pc = IF save[w].link # NoGen THEN "back"
                                             ELSE IF save[w].tries = 1 THEN "giveup" ELSE "marker",
                                   ![w].tries = IF save[w].link # NoGen THEN @ ELSE @ - 1]
           /\ UNCHANGED <<dir, quiet>>
  <2> DEFINE p == IF save[w].link # NoGen THEN "back" ELSE IF save[w].tries = 1 THEN "giveup" ELSE "marker"
             t == IF save[w].link # NoGen THEN save[w].tries ELSE save[w].tries - 1
             s == Retried(save[w], p, t)
  <2>2. p \in {"back", "giveup", "marker"} /\ t \in Int /\ (p = "back" => save[w].link # NoGen) /\ p \in RetryPlaces
    BY <1>0 DEF RetryPlaces
  <2> HIDE DEF p, t
  <2>3. s \in Saver /\ s.pc = p /\ s.gen = save[w].gen /\ s.link = save[w].link /\ s.clean = save[w].clean
    BY <1>1, <2>2, SaverRetries
  <2>4. save[w].clean => Sound(w, s, dir')
    BY <1>1, <1>3, <2>2, <2>3 DEF Sound
  <2>5. save' = [save EXCEPT ![w] = s] /\ dir' \in Files
    BY <1>1, <1>3 DEF CacheTypes, Retried, p, t
  <2>6. CacheInv'
    BY <1>1, <2>2, <2>3, <2>4, <2>5, SaverMoves
  <2> QED  BY <2>2, <2>3, <2>4, <2>5, <2>6, SoundIsLoud
<1> QED  BY <1>2, <1>3 DEF RenameMarker

LEMMA RenameBackKeeps ==
  ASSUME CacheInv, NEW w \in Writers, RenameBack(w)
  PROVE  CacheInv' /\ (save[w].clean => ~Damaged(dir'))
<1>1. /\ save[w] \in Saver /\ dir \in Files /\ save[w].pc = "back" /\ last' = last
      /\ save[w].clean => Sound(w, save[w], dir)
      /\ CacheTypes
  BY Underway DEF RenameBack, Saving, CacheInv
<1>0. dir.bin \in Nat /\ dir.meta \in Nat /\ save[w].gen \in Nat /\ save[w].link \in Nat /\ save[w].tries \in Int
      /\ save[w].clean \in BOOLEAN /\ dir = [bin |-> dir.bin, meta |-> dir.meta, temps |-> dir.temps]
  BY <1>1 DEF Files, Saver
<1>2. CASE /\ Has("link", w)
           /\ Put([dir EXCEPT !.bin = save[w].link, !.temps = Without("link", w)])
           /\ save' = [save EXCEPT ![w].pc = "abandon", ![w].link = NoGen]
  <2> DEFINE s == [save[w] EXCEPT !.pc = "abandon", !.link = NoGen]
  <2>1. s \in Saver /\ s.pc = "abandon" /\ s.gen = save[w].gen /\ s.clean = save[w].clean
    BY <1>1 DEF Saver, NoGen
  <2>2. dir' = [bin |-> save[w].link, meta |-> dir.meta, temps |-> Without("link", w)]
    BY <1>0, <1>2 DEF Put
  <2>3. dir' \in Files /\ dir'.bin = save[w].link /\ dir'.meta = dir.meta
    BY <1>0, <1>1, <2>2, TempGone
  <2>4. save[w].clean => Sound(w, s, dir')
    BY <1>1, <2>1, <2>3 DEF Sound, Whole
  <2>5. save' = [save EXCEPT ![w] = s]
    BY <1>1, <1>2 DEF CacheTypes
  <2>6. CacheInv'
    BY <1>1, <2>1, <2>3, <2>4, <2>5, SaverMoves
  <2> QED  BY <2>1, <2>3, <2>4, <2>6, SoundIsLoud
<1>3. CASE /\ save' = [save EXCEPT ![w].pc = IF save[w].tries = 1 THEN "giveup" ELSE "marker", ![w].tries = @ - 1]
           /\ UNCHANGED <<dir, quiet>>
  <2> DEFINE p == IF save[w].tries = 1 THEN "giveup" ELSE "marker"
             s == Retried(save[w], p, save[w].tries - 1)
  <2>2. p \in {"giveup", "marker"} /\ save[w].tries - 1 \in Int /\ p \in RetryPlaces
    BY <1>0 DEF RetryPlaces
  <2> HIDE DEF p
  <2>3. s \in Saver /\ s.pc = p /\ s.gen = save[w].gen /\ s.link = save[w].link /\ s.clean = save[w].clean
    BY <1>1, <2>2, SaverRetries
  <2>4. save[w].clean => Sound(w, s, dir')
    BY <1>1, <1>3, <2>2, <2>3 DEF Sound
  <2>5. save' = [save EXCEPT ![w] = s] /\ dir' \in Files
    BY <1>1, <1>3 DEF CacheTypes, Retried, p
  <2>6. CacheInv'
    BY <1>1, <2>2, <2>3, <2>4, <2>5, SaverMoves
  <2> QED  BY <2>2, <2>3, <2>4, <2>5, <2>6, SoundIsLoud
<1> QED  BY <1>2, <1>3 DEF RenameBack

LEMMA GiveUpKeeps ==
  ASSUME CacheInv, NEW w \in Writers, GiveUp(w)
  PROVE  CacheInv' /\ (save[w].clean => ~Damaged(dir'))
<1>1. /\ save[w] \in Saver /\ dir \in Files /\ save[w].pc = "giveup" /\ last' = last
      /\ save[w].clean => Sound(w, save[w], dir)
      /\ CacheTypes
  BY Underway DEF GiveUp, Saving, CacheInv
<1>2. CASE /\ save' = [save EXCEPT ![w].pc = "keep"]
           /\ dir' = IF save[w].link = NoGen THEN [dir EXCEPT !.meta = NoGen] ELSE dir
  <2> DEFINE s == [save[w] EXCEPT !.pc = "keep"]
  <2>1. s \in Saver /\ s.pc = "keep" /\ s.gen = save[w].gen /\ s.clean = save[w].clean
    BY <1>1 DEF Saver
  <2>2. save' = [save EXCEPT ![w] = s]
    BY <1>1, <1>2 DEF CacheTypes
  <2>3. dir' \in Files /\ (save[w].clean => Sound(w, s, dir'))
    <3>1. CASE save[w].link = NoGen
      <4>1. dir' \in Files /\ dir'.meta = NoGen
        BY <1>1, <1>2, <3>1 DEF Files, NoGen
      <4> QED  BY <1>1, <2>1, <4>1 DEF Sound
    <3>2. CASE save[w].link # NoGen
      BY <1>1, <1>2, <2>1, <3>2 DEF Sound
    <3> QED  BY <3>1, <3>2
  <2>4. CacheInv'
    BY <1>1, <2>1, <2>2, <2>3, SaverMoves
  <2> QED  BY <2>1, <2>3, <2>4, SoundIsLoud
<1>3. CASE save' = [save EXCEPT ![w].pc = "stuck"] /\ dir' = dir
  <2> DEFINE s == [save[w] EXCEPT !.pc = "stuck"]
  <2>1. s \in Saver /\ s.pc = "stuck" /\ s.gen = save[w].gen /\ s.clean = save[w].clean /\ s.link = save[w].link
    BY <1>1 DEF Saver
  <2>2. save' = [save EXCEPT ![w] = s]
    BY <1>1, <1>3 DEF CacheTypes
  <2>3. dir' \in Files /\ (save[w].clean => Sound(w, s, dir'))
    BY <1>1, <1>3, <2>1 DEF Sound
  <2>4. CacheInv'
    BY <1>1, <2>1, <2>2, <2>3, SaverMoves
  <2> QED  BY <2>1, <2>3, <2>4, SoundIsLoud
<1> QED  BY <1>2, <1>3 DEF GiveUp, Put

LEMMA SaveReturnKeeps ==
  ASSUME CacheInv, NEW w \in Writers, SaveReturn(w)
  PROVE  CacheInv' /\ (save[w].clean /\ save[w].pc # "stuck" => ~Damaged(dir'))
<1> DEFINE temps == dir.temps \ {Mine(kind, w) : kind \in IF Saving(w, "keep") THEN {"bin", "meta"}
                                                           ELSE {"bin", "meta", "link"}}
<1>1. /\ save[w] \in Saver /\ dir \in Files /\ save[w].pc \in {"commit", "abandon", "keep", "stuck"} /\ last' = last
      /\ save[w].clean => Sound(w, save[w], dir)
      /\ save' = [save EXCEPT ![w] = NoSave]
      /\ dir' = [dir EXCEPT !.temps = temps]
  BY Underway DEF SaveReturn, Put
<1>2. NoSave \in Saver /\ NoSave.pc = "idle"
  BY DEF NoSave, Saver, NoGen
<1>3. dir' \in Files /\ dir'.bin = dir.bin /\ dir'.meta = dir.meta /\ dir'.temps = temps
  BY <1>1 DEF Files
<1>4. CacheInv'
  BY <1>1, <1>2, <1>3, SaverMoves
<1>5. ASSUME save[w].clean, save[w].pc # "stuck"
      PROVE  ~Damaged(dir')
  <2>1. CASE save[w].pc \in {"commit", "abandon"}
    BY <1>1, <1>3, <1>5, <2>1 DEF Sound, Whole, Damaged
  <2>2. CASE save[w].pc = "keep"
    <3>1. dir.meta = NoGen \/ Holds(dir, "link", w)
      BY <1>1, <1>5, <2>2 DEF Sound
    <3>2. Holds(dir, "link", w) => temps # {}
      BY <2>2 DEF Holds, Saving, Mine, Temp
    <3> QED  BY <1>3, <3>1, <3>2 DEF Damaged
  <2> QED  BY <1>1, <1>5, <2>1, <2>2
<1> QED  BY <1>4, <1>5

LEMMA SaveKilledKeeps ==
  ASSUME CacheInv, NEW w \in Writers, SaveKilled(w)
  PROVE  CacheInv' /\ (save[w].clean => ~Damaged(dir'))
<1>1. /\ save[w] \in Saver /\ dir \in Files /\ save[w].pc # "idle" /\ last' = last /\ dir' = dir
      /\ save[w].clean => Sound(w, save[w], dir)
      /\ save' = [save EXCEPT ![w] = NoSave]
  BY Underway DEF SaveKilled
<1>2. NoSave \in Saver /\ NoSave.pc = "idle"
  BY DEF NoSave, Saver, NoGen
<1>3. CacheInv'
  BY <1>1, <1>2, SaverMoves
<1> QED  BY <1>1, <1>3, SoundIsLoud

-----------------------------------------------------------------------------
(* The other steps leave the directory, take a file of it, or take what nobody *)
(* owns.                                                                      *)

LEMMA LoadDoes ==
  ASSUME NEW r \in Readers, LoadNext(r)
  PROVE  UNCHANGED <<save, last, dir>> \/ (look[r].pc = "remove" /\ RemoveFile)
BY DEF LoadNext, LoadBegin, StatIndex, ReadMeta, LoadIndex, RestatIndex, MarkerMoved, Decide, RemoveDir, Looking

LEMMA StandsKeeps ==
  ASSUME CacheInv, UNCHANGED <<save, last, dir>>
  PROVE  CacheInv'
BY DEF CacheInv, CacheTypes, CleanInv, Alone

LEMMA SweepTempKeeps ==
  ASSUME CacheInv, CacheSweepTemp
  PROVE  CacheInv' /\ UNCHANGED <<save, last>>
<1>1. PICK t \in dir.temps : save[t.owner].pc = "idle" /\ Put([dir EXCEPT !.temps = @ \ {t}])
  BY DEF CacheSweepTemp
<1>2. dir \in Files
  BY DEF CacheInv, CacheTypes
<1>3. dir' = [dir EXCEPT !.temps = @ \ {t}]
  BY <1>1 DEF Put
<1>4. dir' \in Files /\ dir'.bin = dir.bin /\ dir'.meta = dir.meta /\ dir'.temps = dir.temps \ {t}
  BY <1>2, <1>3 DEF Files
<1>5. UNCHANGED <<save, last>>
  BY DEF CacheSweepTemp
<1>6. /\ \A u \in dir.temps : save[u.owner].pc # "idle" => u \in dir'.temps
      /\ dir'.temps \subseteq dir.temps
  BY <1>1, <1>4
<1> QED  BY <1>4, <1>5, <1>6, DirectoryMoves

LEMMA CacheInitHolds == CacheInit => CacheInv
<1> SUFFICES ASSUME CacheInit PROVE CacheInv
  OBVIOUS
<1>1. NoSave \in Saver /\ NoSave.pc = "idle"
  BY DEF NoSave, Saver, NoGen
<1>2. dir \in Files
  BY DEF CacheInit, Files, NoGen
<1>3. save \in [Writers -> Saver] /\ \A w \in Writers : save[w].pc = "idle"
  BY <1>1 DEF CacheInit
<1>4. CacheTypes
  BY <1>2, <1>3 DEF CacheTypes, CacheInit
<1>5. CleanInv
  BY <1>3 DEF CleanInv
<1> QED  BY <1>4, <1>5 DEF CacheInv

(* Of one save, one step. *)
NotLeftQuiet(w) ==
  save[w].clean /\ save[w].pc # "idle" /\ ~Removing /\ Damaged(dir') => save[w].pc = "stuck"

(* One step from a state of the invariant: the invariant holds after it, and  *)
(* the directory is not left in a quiet mismatch under a clean save.          *)
LEMMA CacheStep ==
  ASSUME CacheInv, [CacheNext]_cvars
  PROVE  CacheInv' /\ \A w \in Writers : NotLeftQuiet(w)
<1>1. ASSUME CacheInv', UNCHANGED <<save, last>>
      PROVE  \A w \in Writers : NotLeftQuiet(w)
  <2>1. ASSUME NEW w \in Writers, save[w].clean, save[w].pc # "idle"
        PROVE  ~Damaged(dir')
    <3>1. save[w] \in Saver /\ dir' \in Files /\ Sound(w, save[w], dir')
      BY <1>1, <2>1 DEF CacheInv, CleanInv, CacheTypes
    <3> QED  BY <2>1, <3>1, SoundIsLoud
  <2> QED  BY <2>1 DEF NotLeftQuiet
<1>2. ASSUME NEW w \in Writers, SaveNext(w)
      PROVE  CacheInv' /\ \A v \in Writers : NotLeftQuiet(v)
  <2>1. CASE CacheWriteTemp(w)
    <3>1. CacheInv' /\ dir'.temps # {}
      BY <2>1, WriteTempKeeps
    <3> QED  BY <3>1 DEF Damaged, NotLeftQuiet
  <2>2. CASE ~CacheWriteTemp(w)
    <3>1. save[w].pc # "idle"
      BY <1>2, <2>2 DEF SaveNext, CacheWriteMarker, CacheLinkAside, RenameIndex, RenameMarker, RenameBack,
                        GiveUp, SaveReturn, SaveKilled, Saving
    <3>2. CacheInv' /\ (save[w].clean /\ save[w].pc # "stuck" => ~Damaged(dir'))
      BY <1>2, <2>2, WriteMarkerKeeps, LinkAsideKeeps, RenameIndexKeeps, RenameMarkerKeeps, RenameBackKeeps,
         GiveUpKeeps, SaveReturnKeeps, SaveKilledKeeps DEF SaveNext
    <3>3. \A v \in Writers : save[v].clean /\ save[v].pc # "idle" => v = w
      BY <3>1 DEF CacheInv, CleanInv, Alone
    <3> QED  BY <3>2, <3>3 DEF NotLeftQuiet
  <2> QED  BY <2>1, <2>2
<1>3. ASSUME UNCHANGED <<save, last, dir>>
      PROVE  CacheInv' /\ \A w \in Writers : NotLeftQuiet(w)
  BY <1>1, <1>3, StandsKeeps
<1>4. ASSUME Removing, RemoveFile
      PROVE  CacheInv' /\ \A w \in Writers : NotLeftQuiet(w)
  BY <1>4, RemoveFileKeeps DEF NotLeftQuiet
<1>5. ASSUME NEW r \in Readers, LoadNext(r)
      PROVE  CacheInv' /\ \A w \in Writers : NotLeftQuiet(w)
  BY <1>3, <1>4, <1>5, LoadDoes DEF Removing
<1>6. CASE CacheSweepTemp
  BY <1>1, <1>6, SweepTempKeeps
<1>7. CASE CacheSweepDir \/ CacheSweepEnds \/ UNCHANGED cvars
  BY <1>3, <1>7 DEF CacheSweepDir, CacheSweepEnds, cvars
<1>8. CASE CacheSweepFile
  BY <1>4, <1>8 DEF CacheSweepFile, Removing
<1> QED  BY <1>2, <1>5, <1>6, <1>7, <1>8 DEF CacheNext

(* However its renames and removals fail and whenever it is killed, and       *)
(* whatever loads and sweeps do meanwhile, a save that began alone on a        *)
(* directory with a cache in it, of which nobody removes a file, leaves a      *)
(* marker beside an index it does not fit with nothing beside them to say so   *)
(* only where neither rename landed, nothing could be linked aside and the     *)
(* marker itself could not be removed (cacheCommitPair).                      *)
THEOREM MismatchIsNeverQuiet == CacheSpec => NoQuietMismatch
<1>1. CacheInit => CacheInv
  BY CacheInitHolds
<1>2. CacheInv /\ [CacheNext]_cvars => CacheInv'
  BY CacheStep
<1>3. CacheInv /\ [CacheNext]_cvars =>
        [\A w \in Writers :
           save[w].clean /\ save[w].pc # "idle" /\ ~Removing /\ Damaged(dir') => save[w].pc = "stuck"]_cvars
  BY CacheStep DEF NotLeftQuiet
<1> QED  BY <1>1, <1>2, <1>3, PTL DEF CacheSpec, NoQuietMismatch

-----------------------------------------------------------------------------
(* Generations never come back.  A marker that has been in place has no       *)
(* temporary left to be renamed again, and an index that is neither in place  *)
(* nor set aside is lost for good; that there is none is such an index too, until a     *)
(* removal takes the file, and then every load has seen it.                   *)

Active(w) == save[w].pc # "idle"

Used(m) ==
  /\ m # NoGen /\ m <= last
  /\ \A t \in dir.temps : t.kind = "meta" => t.gen # m
  /\ \A w \in Writers : save[w].pc = "meta" => save[w].gen # m

MarkerGone(m) == Used(m) /\ dir.meta # m

IndexGone(b) ==
  /\ b <= last /\ dir.bin # b
  /\ \A t \in dir.temps : t.kind # "meta" => t.gen # b

(* Who wrote what: generations are numbered, and no two running saves have one. *)
Numbers ==
  /\ dir.bin <= last /\ dir.meta <= last
  /\ \A t \in dir.temps : t.gen <= last
  /\ \A w \in Writers : Active(w) => save[w].gen # NoGen /\ save[w].gen <= last /\ save[w].link <= last
  /\ \A v, w \in Writers : Active(v) /\ Active(w) /\ save[v].gen = save[w].gen => v = w
  /\ \A w \in Writers, t \in dir.temps :
        Active(w) /\ t.kind = "meta" /\ t.gen = save[w].gen => t.owner = w

Pair == dir.meta # NoGen => Used(dir.meta)

DirInv == CacheTypes /\ Numbers /\ Pair

(* What a step leaves true of generations, but for a removal, which is seen. *)
Seen == quiet' = [r \in Readers |-> TRUE]

Onward ==
  /\ last <= last'
  /\ \A m \in Nat : (Used(m) => Used(m)') /\ (MarkerGone(m) => MarkerGone(m)')
  /\ Seen \/ \A b \in Nat : IndexGone(b) => IndexGone(b)'

(* What a load knows.  A pair that does not fit was read from a marker that   *)
(* had been in place; and while no quiet damage was seen, one of the two that *)
(* the look before this one read is gone, so this look finds another pair.    *)
Corrupt(m, b) == <<"corrupt", m, b>>

Failures == {<<>>, <<"version">>, <<"unreadable">>} \cup {Corrupt(m, b) : m \in Nat, b \in Nat}

Looks ==
  [pc : {"idle", "stat", "read", "load", "restat", "reread", "list", "remove"}, before : Nat, marker : Nat,
   failure : Failures, after : Nat, moved : BOOLEAN, previous : [marker : Nat, index : Nat, failure : Failures],
   repeatable : BOOLEAN, result : {"none", "notbuilt", "loaded", "busy", "unreadable", "removed"}, loads : Nat]

Knows(r, l) ==
  /\ l \in Looks
  /\ l.marker # NoGen => Used(l.marker)
  /\ l.pc = "load" => l.marker # NoGen /\ l.marker \notin Foreign
  /\ l.pc \in {"stat", "read", "load"} => l.failure = <<>>
  /\ l.pc \in {"restat", "reread", "list", "remove"} => l.failure # <<>>
  /\ \A m, b \in Nat : l.failure = Corrupt(m, b) =>
        m = l.marker /\ m # NoGen /\ m # b /\ b <= last
  /\ ~quiet[r] /\ l.repeatable => \A m, b \in Nat : l.previous.failure = Corrupt(m, b) =>
        \/ MarkerGone(m) /\ l.marker # m
        \/ IndexGone(b) /\ l.failure # Corrupt(m, b)

Watched(r) == look[r].pc # "idle" /\ Damaged(dir) => quiet[r]

LoadInv ==
  /\ quiet \in [Readers -> BOOLEAN]
  /\ DOMAIN look = Readers
  /\ \A r \in Readers : Knows(r, look[r]) /\ Watched(r)
  /\ OnlyDamageIsRemoved

DamageInv == DirInv /\ LoadInv

-----------------------------------------------------------------------------
(* A step of one save, by what it does to the directory. *)
Moves(w, s) ==
  /\ s \in Saver /\ save' = [save EXCEPT ![w] = s] /\ dir' \in Files /\ last' = last
  /\ Active(w) /\ s.pc # "meta"
  /\ s.pc # "idle" => s.gen = save[w].gen /\ s.link <= last
  /\ \A t : t.owner # w => (t \in dir'.temps <=> t \in dir.temps)
  /\ \A t \in dir'.temps : t.kind = "meta" => t \in dir.temps \/ (save[w].pc = "meta" /\ t.gen = save[w].gen)
  /\ \A t \in dir'.temps : t.kind # "meta" => t \in dir.temps \/ t.gen = dir.bin
  /\ \/ dir'.bin = dir.bin
     \/ \E t \in dir.temps : t.kind # "meta" /\ t.gen = dir'.bin
  /\ \/ dir'.meta \in {dir.meta, NoGen}
     \/ /\ save[w].pc = "marker" /\ dir'.meta = save[w].gen /\ Temp("meta", w, save[w].gen) \in dir.temps
        /\ Temp("meta", w, save[w].gen) \notin dir'.temps

LEMMA MovesKeeps ==
  ASSUME DirInv, NEW w \in Writers, NEW s, Moves(w, s)
  PROVE  DirInv' /\ Onward
<1>1. /\ save \in [Writers -> Saver] /\ dir \in Files /\ last \in Nat /\ last >= 3
      /\ s \in Saver /\ dir' \in Files /\ last' = last
      /\ save' = [save EXCEPT ![w] = s]
  BY DEF DirInv, CacheTypes, Moves
<1>2. save'[w] = s /\ \A v \in Writers \ {w} : save'[v] = save[v]
  BY <1>1
<1>3. CacheTypes'
  BY <1>1 DEF CacheTypes
<1>4. /\ dir.bin \in Nat /\ dir.meta \in Nat /\ dir'.bin \in Nat /\ dir'.meta \in Nat
      /\ \A t \in dir.temps : t.gen \in Nat /\ t.owner \in Writers
      /\ \A t \in dir'.temps : t.gen \in Nat /\ t.owner \in Writers
      /\ \A v \in Writers : save[v].gen \in Nat /\ save[v].link \in Nat
      /\ s.gen \in Nat /\ s.link \in Nat
  BY <1>1 DEF Files, Saver
<1>5. \A m : Used(m) => Used(m)'
  <2>1. ASSUME NEW m, Used(m)
        PROVE  Used(m)'
    <3>1. \A t \in dir'.temps : t.kind = "meta" => t.gen # m
      BY <2>1 DEF Moves, Used
    <3>2. \A v \in Writers : save'[v].pc = "meta" => save'[v].gen # m
      BY <1>2, <2>1 DEF Moves, Used
    <3> QED  BY <1>1, <2>1, <3>1, <3>2 DEF Used
  <2> QED  BY <2>1
<1>6. Numbers'
  <2>1. dir'.bin <= last' /\ dir'.meta <= last'
    <3>1. dir'.bin <= last
      BY <1>4 DEF Moves, DirInv, Numbers
    <3>2. dir'.meta <= last
      BY <1>1, <1>4 DEF Moves, DirInv, Numbers, NoGen, Active
    <3> QED  BY <1>1, <3>1, <3>2
  <2>2. \A t \in dir'.temps : t.gen <= last'
    <3>1. ASSUME NEW t \in dir'.temps PROVE t.gen <= last
      <4>1. CASE t \in dir.temps
        BY <4>1 DEF DirInv, Numbers
      <4>2. CASE t \notin dir.temps
        BY <3>1, <4>2, <1>4 DEF Moves, DirInv, Numbers, Active
      <4> QED  BY <4>1, <4>2
    <3> QED  BY <1>1, <3>1
  <2>3. \A v \in Writers : Active(v)' => Active(v) /\ save'[v].gen = save[v].gen /\ save'[v].link <= last
    BY <1>2 DEF Active, Moves, DirInv, Numbers
  <2>4. \A v \in Writers : Active(v)' => save'[v].gen # NoGen /\ save'[v].gen <= last' /\ save'[v].link <= last'
    BY <1>1, <2>3 DEF DirInv, Numbers
  <2>5. \A u, v \in Writers : Active(u)' /\ Active(v)' /\ save'[u].gen = save'[v].gen => u = v
    BY <2>3 DEF DirInv, Numbers
  <2>6. \A v \in Writers, t \in dir'.temps :
           Active(v)' /\ t.kind = "meta" /\ t.gen = save'[v].gen => t.owner = v
    <3>1. ASSUME NEW v \in Writers, NEW t \in dir'.temps, Active(v)', t.kind = "meta", t.gen = save'[v].gen
          PROVE  t.owner = v
      <4>1. Active(v) /\ t.gen = save[v].gen
        BY <2>3, <3>1
      <4>2. CASE t \in dir.temps
        BY <3>1, <4>1, <4>2 DEF DirInv, Numbers
      <4>3. CASE t \notin dir.temps
        <5>1. t.owner = w /\ t.gen = save[w].gen /\ Active(w)
          BY <3>1, <4>3 DEF Moves
        <5> QED  BY <4>1, <5>1 DEF DirInv, Numbers
      <4> QED  BY <4>2, <4>3
    <3> QED  BY <3>1
  <2>7. /\ \A v \in Writers : (Active(v) => save[v].gen # NoGen /\ save[v].gen <= last /\ save[v].link <= last)'
        /\ \A u, v \in Writers : (Active(u) /\ Active(v) /\ save[u].gen = save[v].gen => u = v)'
    BY <2>4, <2>5
  <2> QED  BY <2>1, <2>2, <2>6, <2>7 DEF Numbers
<1>8. Pair'
  <2>1. CASE dir'.meta \in {dir.meta, NoGen}
    <3>1. dir'.meta # NoGen => Used(dir.meta)'
      BY <2>1, <1>5 DEF DirInv, Pair
    <3> QED  BY <2>1, <3>1 DEF Pair, Used
  <2>2. CASE /\ save[w].pc = "marker" /\ dir'.meta = save[w].gen /\ Temp("meta", w, save[w].gen) \in dir.temps
             /\ Temp("meta", w, save[w].gen) \notin dir'.temps
    <3>1. Active(w) /\ save[w].gen # NoGen /\ save[w].gen <= last
      BY <2>2 DEF Active, DirInv, Numbers
    <3>2. \A t \in dir'.temps : t.kind = "meta" => t.gen # save[w].gen
      <4>1. ASSUME NEW t \in dir'.temps, t.kind = "meta", t.gen = save[w].gen PROVE FALSE
        <5>1. t \in dir.temps
          BY <2>2, <4>1 DEF Moves
        <5>2. t.owner = w
          BY <3>1, <4>1, <5>1 DEF DirInv, Numbers
        <5>3. t = Temp("meta", w, save[w].gen)
          BY <1>1, <4>1, <5>2 DEF Files, Temp
        <5> QED  BY <2>2, <5>3
      <4> QED  BY <4>1
    <3>3. \A v \in Writers : save'[v].pc = "meta" => save'[v].gen # save[w].gen
      BY <1>2, <3>1 DEF Moves, DirInv, Numbers, Active
    <3> QED  BY <1>1, <2>2, <3>1, <3>2, <3>3 DEF Pair, Used
  <2> QED  BY <2>1, <2>2 DEF Moves
<1>9. \A m : MarkerGone(m) => MarkerGone(m)'
  <2>1. ASSUME NEW m, MarkerGone(m)
        PROVE  dir'.meta # m
    <3>1. dir.meta # m /\ m # NoGen /\ \A t \in dir.temps : t.kind = "meta" => t.gen # m
      BY <2>1 DEF MarkerGone, Used
    <3>2. Temp("meta", w, save[w].gen).kind = "meta" /\ Temp("meta", w, save[w].gen).gen = save[w].gen
      BY DEF Temp
    <3> QED  BY <3>1, <3>2 DEF Moves
  <2> QED  BY <1>5, <2>1 DEF MarkerGone
<1>10. \A b : IndexGone(b) => IndexGone(b)'
  <2>1. ASSUME NEW b, IndexGone(b)
        PROVE  IndexGone(b)'
    <3>1. dir'.bin # b
      BY <2>1 DEF IndexGone, Moves
    <3>2. \A t \in dir'.temps : t.kind # "meta" => t.gen # b
      BY <2>1 DEF IndexGone, Moves
    <3> QED  BY <1>1, <2>1, <3>1, <3>2 DEF IndexGone
  <2> QED  BY <2>1
<1> QED  BY <1>1, <1>3, <1>5, <1>6, <1>8, <1>9, <1>10 DEF DirInv, Onward

(* What is known of a save and the directory, for every step below. *)
LEMMA SaverFacts ==
  ASSUME DirInv, NEW w \in Writers
  PROVE  /\ CacheTypes /\ save[w] \in Saver /\ dir \in Files /\ last \in Nat
         /\ dir.bin \in Nat /\ dir.meta \in Nat /\ save[w].gen \in Nat /\ save[w].link \in Nat
         /\ save[w].tries \in Int /\ save[w].clean \in BOOLEAN
         /\ dir = [bin |-> dir.bin, meta |-> dir.meta, temps |-> dir.temps]
         /\ dir.bin <= last /\ NoGen <= last
         /\ save[w].pc # "idle" => save[w].gen # NoGen /\ save[w].link <= last
BY DEF DirInv, CacheTypes, Files, Saver, Numbers, Active, NoGen

LEMMA WriteMarkerMoves ==
  ASSUME DirInv, NEW w \in Writers, CacheWriteMarker(w)
  PROVE  \E s : Moves(w, s)
<1>1. save[w].pc = "meta" /\ last' = last
  BY DEF CacheWriteMarker, Saving
<1>2. CASE /\ save' = [save EXCEPT ![w].pc = "link"]
           /\ Put([dir EXCEPT !.temps = @ \cup {Temp("meta", w, save[w].gen)}])
  <2> DEFINE s == [save[w] EXCEPT !.pc = "link"]
  <2>1. s \in Saver /\ s.pc = "link" /\ s.gen = save[w].gen /\ s.link = save[w].link /\ save' = [save EXCEPT ![w] = s]
    BY <1>2, SaverFacts DEF Saver
  <2>2. dir' = [dir EXCEPT !.temps = @ \cup {Temp("meta", w, save[w].gen)}]
    BY <1>2 DEF Put
  <2>3. /\ dir' \in Files /\ dir'.bin = dir.bin /\ dir'.meta = dir.meta
        /\ dir'.temps = dir.temps \cup {Temp("meta", w, save[w].gen)}
    <3>1. dir' \in Files /\ dir'.bin = dir.bin /\ dir'.meta = dir.meta
      BY <2>2, SaverFacts, TempAdded
    <3> QED  BY <2>2, <3>1, SaverFacts DEF Files
  <2>4. LET t == Temp("meta", w, save[w].gen) IN t.owner = w /\ t.kind = "meta" /\ t.gen = save[w].gen
    BY DEF Temp
  <2>5. Moves(w, s)
    BY <1>1, <2>1, <2>3, <2>4, SaverFacts DEF Moves, Active
  <2> QED  BY <2>5
<1>3. CASE save' = [save EXCEPT ![w].pc = "abandon"] /\ UNCHANGED <<dir, quiet>>
  <2> DEFINE s == [save[w] EXCEPT !.pc = "abandon"]
  <2>1. s \in Saver /\ s.pc = "abandon" /\ s.gen = save[w].gen /\ s.link = save[w].link /\ save' = [save EXCEPT ![w] = s]
    BY <1>3, SaverFacts DEF Saver
  <2>2. Moves(w, s)
    BY <1>1, <1>3, <2>1, SaverFacts DEF Moves, Active
  <2> QED  BY <2>2
<1> QED  BY <1>2, <1>3 DEF CacheWriteMarker

LEMMA LinkAsideMoves ==
  ASSUME DirInv, NEW w \in Writers, CacheLinkAside(w)
  PROVE  \E s : Moves(w, s)
<1>1. save[w].pc = "link" /\ last' = last
  BY DEF CacheLinkAside, Saving
<1>2. CASE /\ save' = [save EXCEPT ![w].pc = "bin", ![w].link = NoGen]
           /\ UNCHANGED <<dir, quiet>>
  <2> DEFINE s == [save[w] EXCEPT !.pc = "bin", !.link = NoGen]
  <2>1. s \in Saver /\ s.pc = "bin" /\ s.gen = save[w].gen /\ s.link = NoGen
    BY <1>2, SaverFacts DEF Saver, NoGen
  <2>2. save' = [save EXCEPT ![w] = s]
    BY <1>2, SaverFacts DEF CacheTypes
  <2>3. Moves(w, s)
    BY <1>1, <1>2, <2>1, <2>2, SaverFacts DEF Moves, Active
  <2> QED  BY <2>3
<1>3. CASE /\ dir.meta # NoGen /\ dir.bin # NoGen
           /\ save' = [save EXCEPT ![w].pc = "bin", ![w].link = dir.bin]
           /\ Put([dir EXCEPT !.temps = @ \cup {Temp("link", w, dir.bin)}])
  <2> DEFINE s == [save[w] EXCEPT !.pc = "bin", !.link = dir.bin]
  <2>1. s \in Saver /\ s.pc = "bin" /\ s.gen = save[w].gen /\ s.link = dir.bin
    BY <1>3, SaverFacts DEF Saver
  <2>2. save' = [save EXCEPT ![w] = s]
    BY <1>3, SaverFacts DEF CacheTypes
  <2>3. dir' = [dir EXCEPT !.temps = @ \cup {Temp("link", w, dir.bin)}]
    BY <1>3 DEF Put
  <2>4. /\ dir' \in Files /\ dir'.bin = dir.bin /\ dir'.meta = dir.meta
        /\ dir'.temps = dir.temps \cup {Temp("link", w, dir.bin)}
    <3>1. dir' \in Files /\ dir'.bin = dir.bin /\ dir'.meta = dir.meta
      BY <2>3, SaverFacts, TempAdded
    <3> QED  BY <2>3, <3>1, SaverFacts DEF Files
  <2>5. LET t == Temp("link", w, dir.bin) IN t.owner = w /\ t.kind = "link" /\ t.gen = dir.bin
    BY DEF Temp
  <2>6. Moves(w, s)
    BY <1>1, <2>1, <2>2, <2>4, <2>5, SaverFacts DEF Moves, Active
  <2> QED  BY <2>6
<1> QED  BY <1>2, <1>3 DEF CacheLinkAside

(* Without one of its own, a save has taken none of another's. *)
LEMMA WithoutKeeps ==
  ASSUME NEW w \in Writers, NEW kind, dir'.temps = Without(kind, w)
  PROVE  /\ Mine(kind, w) \notin dir'.temps
         /\ \A t : t.owner # w => (t \in dir'.temps <=> t \in dir.temps)
         /\ \A t \in dir'.temps : t \in dir.temps
BY DEF Without, Mine, Temp

LEMMA RenameIndexMoves ==
  ASSUME DirInv, NEW w \in Writers, RenameIndex(w)
  PROVE  \E s : Moves(w, s)
<1>1. save[w].pc = "bin" /\ last' = last
  BY DEF RenameIndex, Saving
<1>2. CASE /\ Has("bin", w)
           /\ Put([dir EXCEPT !.bin = save[w].gen, !.temps = Without("bin", w)])
           /\ save' = [save EXCEPT ![w].pc = "marker", ![w].tries = Attempts]
  <2> DEFINE s == Retried(save[w], "marker", Attempts)
  <2>1. s \in Saver /\ s.pc = "marker" /\ s.link = save[w].link /\ s.gen = save[w].gen
    <3>1. Attempts \in Int /\ "marker" \in RetryPlaces
      BY CacheAssumption DEF RetryPlaces
    <3> QED  BY <3>1, SaverFacts, SaverRetries
  <2>2. save' = [save EXCEPT ![w] = s]
    BY <1>2, SaverFacts DEF CacheTypes, Retried
  <2>3. dir' = [bin |-> save[w].gen, meta |-> dir.meta, temps |-> Without("bin", w)]
    BY <1>2, SaverFacts DEF Put
  <2>4. /\ dir' \in Files /\ dir'.bin = save[w].gen /\ dir'.meta = dir.meta
        /\ dir'.temps = Without("bin", w)
    BY <2>3, SaverFacts, TempGone
  <2>5. Temp("bin", w, save[w].gen) \in dir.temps
    BY <1>2 DEF Has, Mine
  <2>6. \E t \in dir.temps : t.kind # "meta" /\ t.gen = dir'.bin
    BY <2>4, <2>5 DEF Temp
  <2>9. Moves(w, s)
    <3>1. \A t : t.owner # w => (t \in dir'.temps <=> t \in dir.temps)
      BY <2>4, WithoutKeeps
    <3>2. \A t \in dir'.temps : t \in dir.temps
      BY <2>4, WithoutKeeps
    <3> QED  BY <1>1, <2>1, <2>2, <2>4, <2>6, <3>1, <3>2, SaverFacts DEF Moves, Active
  <2> QED  BY <2>9
<1>3. CASE /\ Put([dir EXCEPT !.temps = Without("link", w)])
           /\ save' = [save EXCEPT ![w].link = NoGen, ![w].tries = @ - 1,
                                   ![w].pc = IF save[w].tries = 1 THEN "abandon" ELSE "link"]
  <2> DEFINE p == IF save[w].tries = 1 THEN "abandon" ELSE "link"
             s == Unlinked(save[w], p, save[w].tries - 1)
  <2>0. p \in {"abandon", "link"} /\ p \in RetryPlaces /\ save[w].tries - 1 \in Int
    BY SaverFacts DEF RetryPlaces
  <2>1. s \in Saver /\ s.pc \in {"abandon", "link"} /\ s.link = NoGen /\ s.gen = save[w].gen
    <3> HIDE DEF p
    <3> QED  BY <2>0, SaverFacts, SaverUnlinks
  <2>2. save' = [save EXCEPT ![w] = s]
    BY <1>3, SaverFacts DEF CacheTypes, Unlinked
  <2>3. dir' = [bin |-> dir.bin, meta |-> dir.meta, temps |-> Without("link", w)]
    BY <1>3, SaverFacts DEF Put
  <2>4. /\ dir' \in Files /\ dir'.bin = dir.bin /\ dir'.meta = dir.meta
        /\ dir'.temps = Without("link", w)
    BY <2>3, SaverFacts, TempGone
  <2> HIDE DEF s
  <2>7. Moves(w, s)
    <3>1. \A t : t.owner # w => (t \in dir'.temps <=> t \in dir.temps)
      BY <2>4, WithoutKeeps
    <3>2. \A t \in dir'.temps : t \in dir.temps
      BY <2>4, WithoutKeeps
    <3> QED  BY <1>1, <2>1, <2>2, <2>4, <3>1, <3>2, SaverFacts DEF Moves, Active
  <2> QED  BY <2>7
<1> QED  BY <1>2, <1>3 DEF RenameIndex

LEMMA RenameMarkerMoves ==
  ASSUME DirInv, NEW w \in Writers, RenameMarker(w)
  PROVE  \E s : Moves(w, s)
<1>1. save[w].pc = "marker" /\ last' = last
  BY DEF RenameMarker, Saving
<1>2. CASE /\ Has("meta", w)
           /\ Put([dir EXCEPT !.meta = save[w].gen, !.temps = Without("meta", w)])
           /\ save' = [save EXCEPT ![w].pc = "commit"]
  <2> DEFINE s == [save[w] EXCEPT !.pc = "commit"]
  <2>1. s \in Saver /\ s.pc = "commit" /\ s.gen = save[w].gen /\ s.link = save[w].link
    BY SaverFacts DEF Saver
  <2>2. save' = [save EXCEPT ![w] = s]
    BY <1>2, SaverFacts DEF CacheTypes
  <2>3. dir' = [bin |-> dir.bin, meta |-> save[w].gen, temps |-> Without("meta", w)]
    BY <1>2, SaverFacts DEF Put
  <2>4. /\ dir' \in Files /\ dir'.bin = dir.bin /\ dir'.meta = save[w].gen
        /\ dir'.temps = Without("meta", w)
    BY <2>3, SaverFacts, TempGone
  <2>5. Temp("meta", w, save[w].gen) \in dir.temps
    BY <1>2 DEF Has, Mine
  <2>7. Moves(w, s)
    <3>1. \A t : t.owner # w => (t \in dir'.temps <=> t \in dir.temps)
      BY <2>4, WithoutKeeps
    <3>2. (\A t \in dir'.temps : t \in dir.temps) /\ Temp("meta", w, save[w].gen) \notin dir'.temps
      BY <2>4, WithoutKeeps DEF Mine
    <3> QED  BY <1>1, <2>1, <2>2, <2>4, <2>5, <3>1, <3>2, SaverFacts DEF Moves, Active
  <2> QED  BY <2>7
<1>3. CASE /\ save' = [save EXCEPT ![w].pc = IF save[w].link # NoGen THEN "back"
                                             ELSE IF save[w].tries = 1 THEN "giveup" ELSE "marker",
                                   ![w].tries = IF save[w].link # NoGen THEN @ ELSE @ - 1]
           /\ UNCHANGED <<dir, quiet>>
  <2> DEFINE p == IF save[w].link # NoGen THEN "back" ELSE IF save[w].tries = 1 THEN "giveup" ELSE "marker"
             t == IF save[w].link # NoGen THEN save[w].tries ELSE save[w].tries - 1
             s == Retried(save[w], p, t)
  <2>1. p \in {"back", "giveup", "marker"} /\ t \in Int /\ (p = "back" => save[w].link # NoGen) /\ p \in RetryPlaces
    BY SaverFacts DEF RetryPlaces
  <2>2. save' = [save EXCEPT ![w] = s]
    BY <1>3, SaverFacts DEF CacheTypes, Retried
  <2> HIDE DEF p, t
  <2>3. s \in Saver /\ s.pc = p /\ s.gen = save[w].gen /\ s.link = save[w].link
    BY <2>1, SaverFacts, SaverRetries
  <2> HIDE DEF s
  <2>4. Moves(w, s)
    BY <1>1, <1>3, <2>1, <2>2, <2>3, SaverFacts DEF Moves, Active
  <2> QED  BY <2>4
<1> QED  BY <1>2, <1>3 DEF RenameMarker

LEMMA RenameBackMoves ==
  ASSUME DirInv, NEW w \in Writers, RenameBack(w)
  PROVE  \E s : Moves(w, s)
<1>1. save[w].pc = "back" /\ last' = last
  BY DEF RenameBack, Saving
<1>2. CASE /\ Has("link", w)
           /\ Put([dir EXCEPT !.bin = save[w].link, !.temps = Without("link", w)])
           /\ save' = [save EXCEPT ![w].pc = "abandon", ![w].link = NoGen]
  <2> DEFINE s == [save[w] EXCEPT !.pc = "abandon", !.link = NoGen]
  <2>1. s \in Saver /\ s.pc = "abandon" /\ s.gen = save[w].gen /\ s.link = NoGen
    BY SaverFacts DEF Saver, NoGen
  <2>2. save' = [save EXCEPT ![w] = s]
    BY <1>2, SaverFacts DEF CacheTypes
  <2>3. dir' = [bin |-> save[w].link, meta |-> dir.meta, temps |-> Without("link", w)]
    BY <1>2, SaverFacts DEF Put
  <2>4. /\ dir' \in Files /\ dir'.bin = save[w].link /\ dir'.meta = dir.meta
        /\ dir'.temps = Without("link", w)
    BY <2>3, SaverFacts, TempGone
  <2>5. Temp("link", w, save[w].link) \in dir.temps
    BY <1>2 DEF Has, Mine
  <2>6. \E t \in dir.temps : t.kind # "meta" /\ t.gen = dir'.bin
    BY <2>4, <2>5 DEF Temp
  <2>8. Moves(w, s)
    <3>1. \A t : t.owner # w => (t \in dir'.temps <=> t \in dir.temps)
      BY <2>4, WithoutKeeps
    <3>2. \A t \in dir'.temps : t \in dir.temps
      BY <2>4, WithoutKeeps
    <3> QED  BY <1>1, <2>1, <2>2, <2>4, <2>6, <3>1, <3>2, SaverFacts DEF Moves, Active
  <2> QED  BY <2>8
<1>3. CASE /\ save' = [save EXCEPT ![w].pc = IF save[w].tries = 1 THEN "giveup" ELSE "marker", ![w].tries = @ - 1]
           /\ UNCHANGED <<dir, quiet>>
  <2> DEFINE p == IF save[w].tries = 1 THEN "giveup" ELSE "marker"
             s == Retried(save[w], p, save[w].tries - 1)
  <2>1. p \in {"giveup", "marker"} /\ save[w].tries - 1 \in Int /\ p \in RetryPlaces
    BY SaverFacts DEF RetryPlaces
  <2>2. save' = [save EXCEPT ![w] = s]
    BY <1>3, SaverFacts DEF CacheTypes, Retried
  <2> HIDE DEF p
  <2>3. s \in Saver /\ s.pc = p /\ s.gen = save[w].gen /\ s.link = save[w].link
    BY <2>1, SaverFacts, SaverRetries
  <2> HIDE DEF s
  <2>4. Moves(w, s)
    BY <1>1, <1>3, <2>1, <2>2, <2>3, SaverFacts DEF Moves, Active
  <2> QED  BY <2>4
<1> QED  BY <1>2, <1>3 DEF RenameBack

LEMMA GiveUpMoves ==
  ASSUME DirInv, NEW w \in Writers, GiveUp(w)
  PROVE  \E s : Moves(w, s)
<1>1. save[w].pc = "giveup" /\ last' = last
  BY DEF GiveUp, Saving
<1>2. PICK p \in {"keep", "stuck"} :
        /\ save' = [save EXCEPT ![w].pc = p]
        /\ dir' \in {dir, [dir EXCEPT !.meta = NoGen]}
  BY DEF GiveUp, Put
<1> DEFINE s == [save[w] EXCEPT !.pc = p]
<1>3. save' = [save EXCEPT ![w] = s]
  BY <1>2, SaverFacts DEF CacheTypes
<1>4. s \in Saver /\ s.pc = p /\ s.gen = save[w].gen /\ s.link = save[w].link
  BY SaverFacts DEF Saver
<1>5. dir' \in Files /\ dir'.bin = dir.bin /\ dir'.temps = dir.temps /\ dir'.meta \in {dir.meta, NoGen}
  BY <1>2, SaverFacts DEF Files, NoGen
<1> HIDE DEF s
<1>7. Moves(w, s)
  BY <1>1, <1>3, <1>4, <1>5, SaverFacts DEF Moves, Active
<1> QED  BY <1>7

LEMMA SaveEndsMoves ==
  ASSUME DirInv, NEW w \in Writers, SaveReturn(w) \/ SaveKilled(w)
  PROVE  \E s : Moves(w, s)
<1>1. save' = [save EXCEPT ![w] = NoSave] /\ last' = last /\ Active(w)
  BY DEF SaveReturn, SaveKilled, Active
<1>2. NoSave \in Saver /\ NoSave.pc = "idle"
  BY DEF NoSave, Saver, NoGen
<1>3. /\ dir' \in Files /\ dir'.bin = dir.bin /\ dir'.meta = dir.meta
      /\ \A t \in dir'.temps : t \in dir.temps
      /\ \A t : t.owner # w => (t \in dir'.temps <=> t \in dir.temps)
  <2>1. CASE SaveReturn(w)
    <3>1. PICK kinds : dir' = [dir EXCEPT !.temps = @ \ {Mine(kind, w) : kind \in kinds}]
      BY <2>1 DEF SaveReturn, Put
    <3>2. /\ dir' \in Files /\ dir'.bin = dir.bin /\ dir'.meta = dir.meta
          /\ dir'.temps = dir.temps \ {Mine(kind, w) : kind \in kinds}
      BY <3>1, SaverFacts DEF Files
    <3> QED  BY <3>2 DEF Mine, Temp
  <2>2. CASE SaveKilled(w)
    BY <2>2, SaverFacts DEF SaveKilled
  <2> QED  BY <2>1, <2>2
<1>4. Moves(w, NoSave)
  BY <1>1, <1>2, <1>3, SaverFacts DEF Moves
<1> QED  BY <1>4

(* A new save: a new generation, and one more temporary. *)
LEMMA WriteTempMoves ==
  ASSUME DirInv, NEW w \in Writers, CacheWriteTemp(w)
  PROVE  DirInv' /\ Onward
<1> DEFINE g == last + 1
           n == Temp("bin", w, g)
<1>1. /\ save \in [Writers -> Saver] /\ dir \in Files /\ last \in Nat /\ last >= 3
      /\ last' = g /\ save[w].pc = "idle"
  BY DEF DirInv, CacheTypes, CacheWriteTemp, Saving
<1>2. /\ dir.bin \in Nat /\ dir.meta \in Nat
      /\ \A t \in dir.temps : t.gen \in Nat
      /\ \A v \in Writers : save[v].gen \in Nat /\ save[v].link \in Nat
  BY <1>1 DEF Files, Saver
<1>3. /\ save'[w].pc = "meta" /\ save'[w].gen = g /\ save'[w].link = NoGen
      /\ \A v \in Writers \ {w} : save'[v].pc = save[v].pc /\ save'[v].gen = save[v].gen /\ save'[v].link = save[v].link
      /\ save' \in [Writers -> Saver]
  <2> DEFINE c == Alone(w) /\ Fits(dir.bin, dir.meta)
             s == SaveBegun(g, Attempts, c)
  <2>1. save' = [v \in Writers |-> IF v = w THEN s ELSE [save[v] EXCEPT !.clean = FALSE]]
    BY DEF CacheWriteTemp, SaveBegun
  <2>2. c \in BOOLEAN /\ g \in Nat /\ Attempts \in Int
    BY <1>1, CacheAssumption DEF Alone, Fits
  <2>3. s \in Saver /\ s.pc = "meta" /\ s.gen = g /\ s.link = NoGen
    <3>1. s \in Saver /\ s.pc = "meta" /\ s.gen = g
      <4> HIDE DEF c, g
      <4> QED  BY <2>2, SaverBegins
    <3>2. s.link = NoGen
      BY DEF SaveBegun, NoSave
    <3> QED  BY <3>1, <3>2
  <2> HIDE DEF s
  <2>4. ASSUME NEW v \in Writers \ {w}
        PROVE  /\ save'[v].pc = save[v].pc /\ save'[v].gen = save[v].gen /\ save'[v].link = save[v].link
               /\ save'[v] \in Saver
    <3>1. save'[v] = [save[v] EXCEPT !.clean = FALSE] /\ save[v] \in Saver
      BY <1>1, <2>1
    <3> QED  BY <3>1 DEF Saver
  <2>5. save'[w] = s
    BY <2>1
  <2>6. save' \in [Writers -> Saver]
    BY <2>1, <2>3, <2>4, <2>5
  <2> QED  BY <2>3, <2>4, <2>5, <2>6
<1>4. dir' \in Files /\ dir'.bin = dir.bin /\ dir'.meta = dir.meta /\ dir'.temps = dir.temps \cup {n}
  <2>1. dir' = [dir EXCEPT !.temps = @ \cup {n}]
    BY DEF CacheWriteTemp, Put
  <2>2. g \in Nat
    BY <1>1
  <2>3. dir' \in Files /\ dir'.bin = dir.bin /\ dir'.meta = dir.meta
    BY <1>1, <2>1, <2>2, TempAdded
  <2>4. dir'.temps = dir.temps \cup {n}
    BY <1>1, <2>1 DEF Files
  <2> QED  BY <2>3, <2>4
<1>5. n.kind = "bin" /\ n.owner = w /\ n.gen = g
  BY DEF Temp
<1>6. CacheTypes'
  BY <1>1, <1>3, <1>4 DEF CacheTypes
<1>7. \A m \in Nat : Used(m) => Used(m)'
  <2>1. ASSUME NEW m \in Nat, Used(m) PROVE Used(m)'
    <3>1. m # NoGen /\ m <= last' /\ m # g
      BY <1>1, <2>1 DEF Used
    <3>2. \A t \in dir'.temps : t.kind = "meta" => t.gen # m
      BY <1>4, <1>5, <2>1 DEF Used
    <3>3. \A v \in Writers : save'[v].pc = "meta" => save'[v].gen # m
      BY <1>3, <2>1, <3>1 DEF Used
    <3> QED  BY <3>1, <3>2, <3>3 DEF Used
  <2> QED  BY <2>1
<1>8. \A m \in Nat : MarkerGone(m) => MarkerGone(m)'
  BY <1>4, <1>7 DEF MarkerGone
<1>9. \A b \in Nat : IndexGone(b) => IndexGone(b)'
  <2>1. ASSUME NEW b \in Nat, IndexGone(b) PROVE IndexGone(b)'
    <3>1. b <= last' /\ b # g /\ dir'.bin # b
      BY <1>1, <1>4, <2>1 DEF IndexGone
    <3>2. \A t \in dir'.temps : t.kind # "meta" => t.gen # b
      BY <1>4, <1>5, <2>1, <3>1 DEF IndexGone
    <3> QED  BY <3>1, <3>2 DEF IndexGone
  <2> QED  BY <2>1
<1>10. Numbers'
  <2>1. dir'.bin <= last' /\ dir'.meta <= last'
    BY <1>1, <1>2, <1>4 DEF DirInv, Numbers
  <2>2. \A t \in dir'.temps : t.gen <= last'
    BY <1>1, <1>2, <1>4, <1>5 DEF DirInv, Numbers
  <2>3. \A v \in Writers \ {w} : Active(v)' => Active(v) /\ save'[v].gen = save[v].gen
                                 /\ save[v].gen # NoGen /\ save[v].gen <= last /\ save'[v].link <= last
    BY <1>3 DEF Active, DirInv, Numbers
  <2>4. \A v \in Writers : (Active(v) => save[v].gen # NoGen /\ save[v].gen <= last /\ save[v].link <= last)'
    <3>1. ASSUME NEW v \in Writers, Active(v)'
          PROVE  save'[v].gen # NoGen /\ save'[v].gen <= last' /\ save'[v].link <= last'
      <4>1. CASE v = w
        BY <1>1, <1>3, <4>1 DEF NoGen
      <4>2. CASE v # w
        BY <1>1, <1>2, <1>3, <2>3, <3>1, <4>2
      <4> QED  BY <4>1, <4>2
    <3> QED  BY <3>1
  <2>5. \A v \in Writers \ {w} : Active(v)' => save'[v].gen # g
    BY <1>1, <1>2, <2>3
  <2>6. \A u, v \in Writers : (Active(u) /\ Active(v) /\ save[u].gen = save[v].gen => u = v)'
    <3>1. ASSUME NEW u \in Writers, NEW v \in Writers, Active(u)', Active(v)', save'[u].gen = save'[v].gen, u # v
          PROVE  FALSE
      <4>1. u # w /\ v # w
        BY <1>3, <2>5, <3>1
      <4> QED  BY <2>3, <3>1, <4>1 DEF DirInv, Numbers
    <3> QED  BY <3>1
  <2>7. \A v \in Writers, t \in dir'.temps :
           (Active(v)' /\ t.kind = "meta" /\ t.gen = save'[v].gen) => t.owner = v
    <3>1. ASSUME NEW v \in Writers, NEW t \in dir'.temps, Active(v)', t.kind = "meta", t.gen = save'[v].gen
          PROVE  t.owner = v
      <4>1. t \in dir.temps /\ t.gen <= last /\ t.gen \in Nat
        BY <1>2, <1>4, <1>5, <3>1 DEF DirInv, Numbers
      <4>2. v # w
        BY <1>1, <1>3, <3>1, <4>1
      <4> QED  BY <2>3, <3>1, <4>1, <4>2 DEF DirInv, Numbers
    <3> QED  BY <3>1
  <2> QED  BY <2>1, <2>2, <2>4, <2>6, <2>7 DEF Numbers
<1>12. Pair'
  <2>1. dir'.meta # NoGen => Used(dir.meta)'
    BY <1>2, <1>4, <1>7 DEF DirInv, Pair
  <2> QED  BY <1>4, <2>1 DEF Pair, Used
<1>13. last <= last'
  BY <1>1
<1> QED  BY <1>6, <1>7, <1>8, <1>9, <1>10, <1>12, <1>13 DEF DirInv, Onward

(* A sweep takes a temporary that no running save owns. *)
LEMMA FewerKeeps ==
  ASSUME DirInv, UNCHANGED <<save, last>>, dir' \in Files, dir'.bin = dir.bin, dir'.meta = dir.meta,
         dir'.temps \subseteq dir.temps
  PROVE  DirInv' /\ Onward
<1>1. save' = save /\ last' = last /\ last \in Nat
  BY DEF DirInv, CacheTypes
<1>2. CacheTypes'
  BY <1>1 DEF DirInv, CacheTypes
<1>3. Numbers'
  <2>1. dir'.bin <= last' /\ dir'.meta <= last'
    BY <1>1 DEF DirInv, Numbers, NoGen
  <2>2. \A t \in dir'.temps : t \in dir.temps
    BY <1>1
  <2> QED  BY <1>1, <2>1, <2>2 DEF DirInv, Numbers, Active
<1>5. \A m : Used(m) => Used(m)'
  BY <1>1 DEF Used
<1>6. Pair'
  <2>1. dir'.meta # NoGen => Used(dir.meta)'
    BY <1>1, <1>5 DEF DirInv, Pair
  <2> QED  BY <2>1 DEF Pair, Used
<1>7. \A m : MarkerGone(m) => MarkerGone(m)'
  BY <1>1, <1>5 DEF MarkerGone, Used
<1>8. \A b : IndexGone(b) => IndexGone(b)'
  BY <1>1 DEF IndexGone
<1> QED  BY <1>1, <1>2, <1>3, <1>5, <1>6, <1>7, <1>8 DEF DirInv, Onward

LEMMA SaveMoves ==
  ASSUME DirInv, NEW w \in Writers, SaveNext(w)
  PROVE  DirInv' /\ Onward
<1>1. CASE CacheWriteTemp(w)
  BY <1>1, WriteTempMoves
<1>2. CASE ~CacheWriteTemp(w)
  <2>1. \E s : Moves(w, s)
    BY <1>2, WriteMarkerMoves, LinkAsideMoves, RenameIndexMoves, RenameMarkerMoves, RenameBackMoves,
       GiveUpMoves, SaveEndsMoves DEF SaveNext
  <2> QED  BY <2>1, MovesKeeps
<1> QED  BY <1>1, <1>2

LEMMA SweepMoves ==
  ASSUME DirInv, CacheSweepTemp
  PROVE  DirInv' /\ Onward
<1>1. UNCHANGED <<save, last>> /\ dir \in Files
  BY DEF CacheSweepTemp, DirInv, CacheTypes
<1>2. PICK t \in dir.temps : Put([dir EXCEPT !.temps = @ \ {t}])
  BY DEF CacheSweepTemp
<1>3. dir' = [dir EXCEPT !.temps = @ \ {t}]
  BY <1>2 DEF Put
<1>4. dir' \in Files /\ dir'.bin = dir.bin /\ dir'.meta = dir.meta /\ dir'.temps \subseteq dir.temps
  BY <1>1, <1>3 DEF Files
<1> QED  BY <1>1, <1>4, FewerKeeps

(* A file that is removed, of the pair or beside it. *)
LEMMA RemovalMoves ==
  ASSUME DirInv, RemoveFile
  PROVE  DirInv' /\ Onward /\ Seen
<1>1. /\ dir \in Files /\ save \in [Writers -> Saver] /\ last \in Nat /\ last' = last /\ last >= 3
      /\ dir' \in OneLess(dir) /\ Seen
      /\ save' = [w \in Writers |-> [save[w] EXCEPT !.clean = FALSE]]
  BY DEF DirInv, CacheTypes, RemoveFile, Seen
<1>2. /\ dir' \in Files /\ dir'.bin \in {dir.bin, NoGen} /\ dir'.meta \in {dir.meta, NoGen}
      /\ dir'.temps \subseteq dir.temps
  BY <1>1, OneLessIsFiles
<1>3. ASSUME NEW w \in Writers
      PROVE  /\ save'[w] \in Saver /\ save'[w].pc = save[w].pc /\ save'[w].gen = save[w].gen
             /\ save'[w].link = save[w].link
  <2>1. save'[w] = [save[w] EXCEPT !.clean = FALSE] /\ save[w] \in Saver
    BY <1>1
  <2> QED  BY <2>1 DEF Saver
<1>4. CacheTypes'
  BY <1>1, <1>2, <1>3 DEF CacheTypes
<1>5. Numbers'
  <2>1. dir'.bin <= last' /\ dir'.meta <= last'
    BY <1>1, <1>2 DEF DirInv, Numbers, NoGen
  <2>2. \A t \in dir'.temps : t \in dir.temps
    BY <1>2
  <2> QED  BY <1>1, <1>3, <2>1, <2>2 DEF DirInv, Numbers, Active
<1>6. \A m : Used(m) => Used(m)'
  BY <1>1, <1>2, <1>3 DEF Used
<1>7. Pair'
  <2>1. dir'.meta # NoGen => Used(dir.meta)' /\ dir'.meta = dir.meta
    BY <1>2, <1>6 DEF DirInv, Pair
  <2> QED  BY <2>1 DEF Pair, Used
<1>8. \A m : MarkerGone(m) => MarkerGone(m)'
  BY <1>2, <1>6 DEF MarkerGone, Used
<1> QED  BY <1>1, <1>4, <1>5, <1>6, <1>7, <1>8 DEF DirInv, Onward

-----------------------------------------------------------------------------
(* The loads. *)

LEMMA Verdicts ==
  /\ \A m, b, n, c : Corrupt(m, b) = Corrupt(n, c) => m = n /\ b = c
  /\ \A m, b : Corrupt(m, b) \notin {<<>>, <<"version">>, <<"unreadable">>}
  /\ <<"version">> # <<>> /\ <<"unreadable">> # <<>>
<1>1. \A m, b : Len(Corrupt(m, b)) = 3 /\ Corrupt(m, b)[1] = "corrupt" /\ Corrupt(m, b)[2] = m /\ Corrupt(m, b)[3] = b
  BY DEF Corrupt
<1>2. Len(<<>>) = 0 /\ Len(<<"version">>) = 1 /\ Len(<<"unreadable">>) = 1
  OBVIOUS
<1> QED  BY <1>1, <1>2

(* What a load knows stays true. *)
LEMMA KnowsOn ==
  ASSUME DirInv, DirInv', Onward, NEW r \in Readers, NEW l, Knows(r, l),
         quiet[r] => quiet'[r] \/ ~l.repeatable
  PROVE  Knows(r, l)'
<1>1. last \in Nat /\ last' \in Nat /\ last <= last'
  BY DEF DirInv, CacheTypes, Onward
<1>2. l.marker # NoGen => Used(l.marker)'
  BY DEF Knows, Onward, Looks
<1>3. \A m, b \in Nat : l.failure = Corrupt(m, b) =>
        m = l.marker /\ m # NoGen /\ m # b /\ b <= last'
  BY <1>1 DEF Knows, Onward
<1>4. ~quiet'[r] /\ l.repeatable => \A m, b \in Nat : l.previous.failure = Corrupt(m, b) =>
        \/ MarkerGone(m)' /\ l.marker # m
        \/ IndexGone(b)' /\ l.failure # Corrupt(m, b)
  BY DEF Knows, Onward, Seen
<1> QED  BY <1>2, <1>3, <1>4 DEF Knows

(* A removal shows itself to every load. *)
LEMMA RemovalKeeps ==
  ASSUME DamageInv, RemoveFile, look' = look
  PROVE  DamageInv'
<1>1. DirInv' /\ Onward /\ Seen
  BY RemovalMoves DEF DamageInv
<1>2. quiet' \in [Readers -> BOOLEAN] /\ \A r \in Readers : quiet'[r]
  BY <1>1 DEF Seen
<1>3. ASSUME NEW r \in Readers
      PROVE  Knows(r, look[r])'
  <2>1. PICK l : l = look[r]
    OBVIOUS
  <2>2. Knows(r, l)'
    BY <1>1, <1>2, <2>1, KnowsOn DEF DamageInv, LoadInv
  <2> QED  BY <2>1, <2>2
<1>4. \A r \in Readers : Watched(r)'
  BY <1>2 DEF Watched
<1>5. OnlyDamageIsRemoved'
  BY <1>2 DEF OnlyDamageIsRemoved
<1> QED  BY <1>1, <1>2, <1>3, <1>4, <1>5 DEF DamageInv, LoadInv

(* A step that no load takes. *)
LEMMA LoadsStand ==
  ASSUME DamageInv, DirInv', Onward, look' = look,
         \/ dir' = dir /\ quiet' = quiet
         \/ quiet' = [r \in Readers |-> quiet[r] \/ (look[r].pc # "idle" /\ Damaged(dir'))]
  PROVE  DamageInv'
<1>1. quiet \in [Readers -> BOOLEAN] /\ quiet' \in [Readers -> BOOLEAN] /\ DOMAIN look' = Readers
  BY DEF DamageInv, LoadInv, Damaged
<1>2. ASSUME NEW r \in Readers
      PROVE  (quiet[r] => quiet'[r]) /\ Watched(r)' /\ Knows(r, look[r])'
  <2>1. quiet[r] => quiet'[r]
    BY <1>1
  <2>2. Watched(r)'
    BY <1>1 DEF DamageInv, LoadInv, Watched
  <2>3. Knows(r, look[r])
    BY DEF DamageInv, LoadInv
  <2>4. PICK l : l = look[r]
    OBVIOUS
  <2>5. Knows(r, l)'
    BY <2>1, <2>3, <2>4, KnowsOn DEF DamageInv
  <2>6. Knows(r, look[r])'
    BY <2>4, <2>5
  <2> QED  BY <2>1, <2>2, <2>6
<1>3. OnlyDamageIsRemoved'
  BY <1>2 DEF DamageInv, LoadInv, OnlyDamageIsRemoved
<1> QED  BY <1>1, <1>2, <1>3 DEF DamageInv, LoadInv

(* A step of one load. *)
LEMMA LoadMoves ==
  ASSUME DamageInv, DirInv', Onward, NEW q \in Readers, NEW l, look' = [look EXCEPT ![q] = l], Knows(q, l),
         quiet' \in [Readers -> BOOLEAN], \A r \in Readers \ {q} : quiet'[r] = quiet[r],
         (quiet'[q] = quiet[q]) \/ ~l.repeatable,
         dir' = dir,
         l.pc # "idle" /\ Damaged(dir') => quiet'[q],
         l.pc = "remove" /\ l.failure # <<"version">> => quiet'[q]
  PROVE  DamageInv'
<1>1. /\ DOMAIN look' = Readers /\ DirInv /\ look'[q] = l
      /\ \A r \in Readers \ {q} : look'[r] = look[r]
  BY DEF DamageInv, LoadInv
<1>2. ASSUME NEW r \in Readers
      PROVE  Knows(r, look[r])'
  <2>1. CASE r = q
    <3>1. Knows(q, l)'
      BY <1>1, KnowsOn
    <3> QED  BY <1>1, <2>1, <3>1
  <2>2. CASE r # q
    <3>1. PICK k : k = look[r]
      OBVIOUS
    <3>2. Knows(r, k) /\ k = look'[r] /\ quiet'[r] = quiet[r]
      BY <1>1, <2>2, <3>1 DEF DamageInv, LoadInv
    <3>3. Knows(r, k)'
      BY <1>1, <3>2, KnowsOn
    <3> QED  BY <3>2, <3>3
  <2> QED  BY <2>1, <2>2
<1>3. \A r \in Readers : Watched(r)'
  BY <1>1 DEF DamageInv, LoadInv, Watched
<1>4. OnlyDamageIsRemoved'
  BY <1>1 DEF DamageInv, LoadInv, OnlyDamageIsRemoved
<1> QED  BY <1>1, <1>2, <1>3, <1>4 DEF DamageInv, LoadInv

(* A look that starts afresh has read nothing. *)
LEMMA FreshLook ==
  /\ NoVerdict \in [marker : Nat, index : Nat, failure : Failures]
  /\ NoLook \in Looks /\ NoLook.pc = "idle" /\ NoLook.marker = NoGen /\ NoLook.failure = <<>>
  /\ NoLook.repeatable = FALSE
<1>1. <<>> \in Failures /\ NoGen \in Nat
  BY DEF Failures, NoGen
<1>2. NoVerdict \in [marker : Nat, index : Nat, failure : Failures]
  BY <1>1 DEF NoVerdict
<1>3. NoLook \in Looks
  <2> HIDE DEF NoVerdict, Failures, NoGen
  <2> QED  BY <1>1, <1>2 DEF NoLook, Looks
<1> QED  BY <1>2, <1>3 DEF NoLook

LEMMA AnswerKnows ==
  ASSUME NEW r, NEW l \in Looks, NEW result \in {"notbuilt", "loaded", "busy", "unreadable", "removed"}
  PROVE  Knows(r, Answer(l, result)) /\ Answer(l, result).pc = "idle" /\ Answer(l, result).repeatable = FALSE
<1> DEFINE a == Answer(l, result)
<1>1. l.loads \in Nat
  BY DEF Looks
<1>2. /\ a \in Looks /\ a.pc = "idle" /\ a.marker = NoGen /\ a.failure = <<>> /\ a.repeatable = FALSE
  BY <1>1, FreshLook DEF Answer, Looks
<1> QED  BY <1>2, Verdicts DEF Knows

(* What another look knows of the one before it. *)
LEMMA AgainKnows ==
  ASSUME NEW r, NEW l \in Looks, NEW v \in [marker : Nat, index : Nat, failure : Failures], NEW again \in BOOLEAN,
         ~quiet[r] /\ again => \A m, b \in Nat : v.failure = Corrupt(m, b) => MarkerGone(m) \/ IndexGone(b)
  PROVE  Knows(r, Again(l, v, again)) /\ Again(l, v, again).pc = "stat"
<1> DEFINE a == Again(l, v, again)
<1>1. l.loads \in Nat
  BY DEF Looks
<1>2. /\ a \in Looks /\ a.pc = "stat" /\ a.marker = NoGen /\ a.failure = <<>> /\ a.repeatable = again
      /\ a.previous = v
  BY <1>1, FreshLook DEF Again, Looks
<1>3. \A m \in Nat : MarkerGone(m) => m # NoGen
  BY DEF MarkerGone, Used
<1> QED  BY <1>2, <1>3, Verdicts DEF Knows

(* Between its removals a load leaves the directory alone. *)
LEMMA DirStands ==
  ASSUME DirInv, UNCHANGED <<dir, save, last>>
  PROVE  DirInv' /\ Onward
<1>1. dir' \in Files
  BY DEF DirInv, CacheTypes
<1> QED  BY <1>1, FewerKeeps

(* A look that reads on: nothing else moves. *)
LEMMA LookMoves ==
  ASSUME DamageInv, NEW r \in Readers, NEW l, look[r].pc # "idle",
         look' = [look EXCEPT ![r] = l], UNCHANGED <<dir, last, save, quiet>>, Knows(r, l),
         l.pc = "remove" /\ l.failure # <<"version">> => quiet[r]
  PROVE  DamageInv'
<1>1. DirInv' /\ Onward
  BY DirStands DEF DamageInv
<1>2. Damaged(dir') => quiet'[r]
  BY DEF DamageInv, LoadInv, Watched
<1>3. quiet' \in [Readers -> BOOLEAN] /\ quiet' = quiet /\ dir' = dir
  BY DEF DamageInv, LoadInv
<1> QED  BY <1>1, <1>2, <1>3, LoadMoves

LEMMA LoadBeginKeeps ==
  ASSUME DamageInv, NEW r \in Readers, LoadBegin(r)
  PROVE  DamageInv'
<1> DEFINE l == [NoLook EXCEPT !.pc = "stat", !.loads = look[r].loads + 1]
<1>1. look[r] \in Looks /\ DirInv
  BY DEF DamageInv, LoadInv, Knows
<1>2. look[r].loads + 1 \in Nat
  BY <1>1 DEF Looks
<1>3. /\ l \in Looks /\ l.pc = "stat" /\ l.marker = NoGen /\ l.failure = <<>> /\ l.repeatable = FALSE
  BY <1>2, FreshLook DEF Looks
<1>4. look' = [look EXCEPT ![r] = l]
  BY DEF LoadBegin
<1> HIDE DEF l
<1>5. Knows(r, l)
  BY <1>3, Verdicts DEF Knows
<1>6. /\ dir' = dir /\ quiet' = [quiet EXCEPT ![r] = Damaged(dir)] /\ quiet \in [Readers -> BOOLEAN]
      /\ Damaged(dir) \in BOOLEAN
  BY DEF LoadBegin, DamageInv, LoadInv, Damaged
<1>7. quiet' \in [Readers -> BOOLEAN] /\ quiet'[r] = Damaged(dir') /\ \A q \in Readers \ {r} : quiet'[q] = quiet[q]
  BY <1>6
<1>8. DirInv' /\ Onward
  BY <1>1, DirStands DEF LoadBegin
<1> QED  BY <1>3, <1>4, <1>5, <1>6, <1>7, <1>8, LoadMoves

LEMMA StatIndexKeeps ==
  ASSUME DamageInv, NEW r \in Readers, StatIndex(r)
  PROVE  DamageInv'
<1> DEFINE l == [look[r] EXCEPT !.before = dir.bin, !.pc = "read"]
<1>1. Knows(r, look[r]) /\ look[r] \in Looks /\ dir.bin \in Nat /\ look[r].pc = "stat"
  BY DEF DamageInv, LoadInv, Knows, DirInv, CacheTypes, Files, StatIndex, Looking
<1>2. /\ l \in Looks /\ l.pc = "read" /\ l.marker = look[r].marker /\ l.failure = look[r].failure
      /\ l.repeatable = look[r].repeatable /\ l.previous = look[r].previous
  BY <1>1 DEF Looks
<1>3. look' = [look EXCEPT ![r] = l] /\ UNCHANGED <<dir, last, save, quiet>>
  BY DEF StatIndex, DamageInv, LoadInv
<1> HIDE DEF l
<1>4. Knows(r, l)
  BY <1>1, <1>2 DEF Knows
<1> QED  BY <1>1, <1>2, <1>3, <1>4, LookMoves

LEMMA ReadMetaKeeps ==
  ASSUME DamageInv, NEW r \in Readers, ReadMeta(r)
  PROVE  DamageInv'
<1>1. /\ Knows(r, look[r]) /\ look[r] \in Looks /\ dir.meta \in Nat /\ look[r].pc = "read" /\ DOMAIN look = Readers
      /\ UNCHANGED <<dir, last, save, quiet>>
      /\ dir.meta # NoGen => Used(dir.meta)
  BY DEF DamageInv, LoadInv, Knows, DirInv, CacheTypes, Files, ReadMeta, Looking, Pair
<1>2. CASE dir.meta = NoGen
  <2>1. look' = [look EXCEPT ![r] = Answer(look[r], "notbuilt")]
    BY <1>1, <1>2 DEF ReadMeta
  <2> QED  BY <1>1, <2>1, AnswerKnows, LookMoves
<1>3. CASE dir.meta # NoGen /\ dir.meta \in Foreign
  <2> DEFINE l == [look[r] EXCEPT !.marker = dir.meta, !.failure = <<"version">>, !.pc = "restat"]
  <2>1. <<"version">> \in Failures
    BY DEF Failures
  <2>2. /\ l \in Looks /\ l.pc = "restat" /\ l.marker = dir.meta /\ l.failure = <<"version">>
        /\ l.repeatable = look[r].repeatable /\ l.previous = look[r].previous
    <3> HIDE DEF Failures
    <3> QED  BY <1>1, <2>1 DEF Looks
  <2>3. look' = [look EXCEPT ![r] = l]
    BY <1>1, <1>3 DEF ReadMeta
  <2> HIDE DEF l
  <2>4. \A m \in Nat : MarkerGone(m) => dir.meta # m
    BY DEF MarkerGone
  <2>5. Knows(r, l)
    BY <1>1, <1>3, <2>2, <2>4, Verdicts DEF Knows
  <2> QED  BY <1>1, <2>2, <2>3, <2>5, LookMoves
<1>4. CASE dir.meta # NoGen /\ dir.meta \notin Foreign
  <2> DEFINE l == [look[r] EXCEPT !.marker = dir.meta, !.pc = "load"]
  <2>1. look[r].failure = <<>>
    BY <1>1 DEF Knows
  <2>2. /\ l \in Looks /\ l.pc = "load" /\ l.marker = dir.meta /\ l.failure = <<>>
        /\ l.repeatable = look[r].repeatable /\ l.previous = look[r].previous
    BY <1>1, <2>1 DEF Looks
  <2>3. look' = [look EXCEPT ![r] = l]
    BY <1>1, <1>4 DEF ReadMeta
  <2> HIDE DEF l
  <2>4. \A m \in Nat : MarkerGone(m) => dir.meta # m
    BY DEF MarkerGone
  <2>5. Knows(r, l)
    BY <1>1, <1>4, <2>2, <2>4, Verdicts DEF Knows
  <2> QED  BY <1>1, <2>2, <2>3, <2>5, LookMoves
<1> QED  BY <1>2, <1>3, <1>4

LEMMA LoadIndexKeeps ==
  ASSUME DamageInv, NEW r \in Readers, LoadIndex(r)
  PROVE  DamageInv'
<1>1. /\ Knows(r, look[r]) /\ look[r] \in Looks /\ dir.bin \in Nat /\ look[r].pc = "load" /\ DOMAIN look = Readers
      /\ UNCHANGED <<dir, last, save, quiet>>
      /\ dir.bin <= last
  BY DEF DamageInv, LoadInv, Knows, DirInv, CacheTypes, Files, LoadIndex, Looking, Numbers
<1>2. /\ look[r].marker \in Nat /\ look[r].marker # NoGen /\ look[r].marker \notin Foreign /\ Used(look[r].marker)
  BY <1>1 DEF Knows, Looks
<1>3. CASE look' = [look EXCEPT ![r] = Answer(look[r], "loaded")]
  BY <1>1, <1>3, AnswerKnows, LookMoves
<1>4. CASE /\ ~Fits(dir.bin, look[r].marker)
           /\ look' = [look EXCEPT ![r] = [look[r] EXCEPT !.failure = Corrupt(look[r].marker, dir.bin), !.pc = "restat"]]
  <2> DEFINE f == Corrupt(look[r].marker, dir.bin)
             l == [look[r] EXCEPT !.failure = f, !.pc = "restat"]
  <2>1. f \in Failures
    BY <1>1, <1>2 DEF Failures
  <2>2. /\ l \in Looks /\ l.pc = "restat" /\ l.marker = look[r].marker /\ l.failure = f
        /\ l.repeatable = look[r].repeatable /\ l.previous = look[r].previous
    <3> HIDE DEF Failures, f
    <3> QED  BY <1>1, <2>1 DEF Looks
  <2>3. look' = [look EXCEPT ![r] = l]
    BY <1>4
  <2> HIDE DEF l
  <2>4. \A m, b \in Nat : f = Corrupt(m, b) => m = look[r].marker /\ b = dir.bin
    BY Verdicts
  <2>5. look[r].marker # dir.bin
    BY <1>2, <1>4 DEF Fits
  <2>6. \A b \in Nat : IndexGone(b) => dir.bin # b
    BY DEF IndexGone
  <2>7. f # <<>>
    BY Verdicts
  <2> HIDE DEF f
  <2>8. \A m, b \in Nat : l.failure = Corrupt(m, b) =>
          m = l.marker /\ m # NoGen /\ m # b /\ b <= last
    BY <1>1, <1>2, <2>2, <2>4, <2>5
  <2>9. ~quiet[r] /\ l.repeatable => \A m, b \in Nat : l.previous.failure = Corrupt(m, b) =>
          \/ MarkerGone(m) /\ l.marker # m
          \/ IndexGone(b) /\ l.failure # Corrupt(m, b)
    BY <1>1, <2>2, <2>4, <2>6 DEF Knows
  <2>10. Knows(r, l)
    BY <1>2, <2>2, <2>7, <2>8, <2>9 DEF Knows
  <2> QED  BY <1>1, <2>2, <2>3, <2>10, LookMoves
<1>5. CASE look' = [look EXCEPT ![r].failure = <<"unreadable">>, ![r].pc = "restat"]
  <2> DEFINE l == [look[r] EXCEPT !.failure = <<"unreadable">>, !.pc = "restat"]
  <2>1. <<"unreadable">> \in Failures
    BY DEF Failures
  <2>2. /\ l \in Looks /\ l.pc = "restat" /\ l.marker = look[r].marker /\ l.failure = <<"unreadable">>
        /\ l.repeatable = look[r].repeatable /\ l.previous = look[r].previous
    <3> HIDE DEF Failures
    <3> QED  BY <1>1, <2>1 DEF Looks
  <2>3. look' = [look EXCEPT ![r] = l]
    BY <1>1, <1>5
  <2> HIDE DEF l
  <2>4. Knows(r, l)
    BY <1>1, <1>2, <2>2, Verdicts DEF Knows
  <2> QED  BY <1>1, <2>2, <2>3, <2>4, LookMoves
<1> QED  BY <1>1, <1>3, <1>4, <1>5 DEF LoadIndex, Corrupt

LEMMA RestatKeeps ==
  ASSUME DamageInv, NEW r \in Readers, RestatIndex(r) \/ MarkerMoved(r)
  PROVE  DamageInv'
<1>1. /\ Knows(r, look[r]) /\ look[r] \in Looks /\ dir.bin \in Nat /\ look[r].pc \in {"restat", "reread"}
      /\ DOMAIN look = Readers /\ UNCHANGED <<dir, last, save, quiet>>
  BY DEF DamageInv, LoadInv, Knows, DirInv, CacheTypes, Files, RestatIndex, MarkerMoved, Looking
<1>2. PICK l : /\ look' = [look EXCEPT ![r] = l]
               /\ l \in Looks /\ l.pc \in {"reread", "list"} /\ l.marker = look[r].marker /\ l.failure = look[r].failure
               /\ l.repeatable = look[r].repeatable /\ l.previous = look[r].previous
  <2>1. CASE RestatIndex(r)
    <3> DEFINE l == [look[r] EXCEPT !.after = dir.bin, !.pc = "reread"]
    <3>1. look' = [look EXCEPT ![r] = l]
      BY <1>1, <2>1 DEF RestatIndex
    <3>2. /\ l \in Looks /\ l.pc = "reread" /\ l.marker = look[r].marker /\ l.failure = look[r].failure
          /\ l.repeatable = look[r].repeatable /\ l.previous = look[r].previous
      BY <1>1 DEF Looks
    <3> QED  BY <3>1, <3>2
  <2>2. CASE MarkerMoved(r)
    <3>1. PICK moved \in BOOLEAN : look' = [look EXCEPT ![r].moved = moved, ![r].pc = "list"]
      BY <2>2 DEF MarkerMoved
    <3> DEFINE l == [look[r] EXCEPT !.moved = moved, !.pc = "list"]
    <3>2. look' = [look EXCEPT ![r] = l]
      BY <1>1, <3>1
    <3>3. /\ l \in Looks /\ l.pc = "list" /\ l.marker = look[r].marker /\ l.failure = look[r].failure
          /\ l.repeatable = look[r].repeatable /\ l.previous = look[r].previous
      BY <1>1 DEF Looks
    <3> QED  BY <3>2, <3>3
  <2> QED  BY <2>1, <2>2
<1>3. Knows(r, l)
  BY <1>1, <1>2 DEF Knows
<1> QED  BY <1>1, <1>2, <1>3, LookMoves

(* The decision.  A pair that does not fit, seen twice while nobody wrote and  *)
(* no damage was quiet, would be made of a marker and an index neither of      *)
(* which is gone: the look before this one shows that one of them is.          *)
LEMMA DecideKeeps ==
  ASSUME DamageInv, NEW r \in Readers, Decide(r)
  PROVE  DamageInv'
<1> DEFINE l == look[r]
           writing == (l.moved \/ l.after # l.before) \/ dir.temps # {}
           v == Verdict(l)
<1>1. /\ Knows(r, l) /\ l \in Looks /\ l.pc = "list" /\ DOMAIN look = Readers
      /\ UNCHANGED <<dir, last, save, quiet>>
      /\ dir.bin \in Nat /\ dir.meta \in Nat
  BY DEF DamageInv, LoadInv, Knows, DirInv, CacheTypes, Files, Decide, Looking
<1>2. /\ l.previous \in [marker : Nat, index : Nat, failure : Failures] /\ l.repeatable \in BOOLEAN
      /\ v \in [marker : Nat, index : Nat, failure : Failures] /\ v.failure = l.failure
  BY <1>1 DEF Looks, Verdict
<1>3. CASE look' = [look EXCEPT ![r] = Answer(l, "busy")]
  BY <1>1, <1>3, AnswerKnows, LookMoves
<1>4. CASE look' = [look EXCEPT ![r] = Answer(l, "unreadable")]
  BY <1>1, <1>4, AnswerKnows, LookMoves
<1>5. CASE look' = [look EXCEPT ![r] = Again(l, l.previous, l.repeatable)]
  <2>1. ~quiet[r] /\ l.repeatable =>
          \A m, b \in Nat : l.previous.failure = Corrupt(m, b) => MarkerGone(m) \/ IndexGone(b)
    BY <1>1 DEF Knows
  <2>2. Knows(r, Again(l, l.previous, l.repeatable)) /\ Again(l, l.previous, l.repeatable).pc = "stat"
    <3>1. PICK p, again : p = l.previous /\ again = l.repeatable
      OBVIOUS
    <3>2. Knows(r, Again(l, p, again)) /\ Again(l, p, again).pc = "stat"
      <4>1. /\ again \in BOOLEAN /\ p \in [marker : Nat, index : Nat, failure : Failures] /\ l \in Looks
            /\ ~quiet[r] /\ again => \A m, b \in Nat : p.failure = Corrupt(m, b) => MarkerGone(m) \/ IndexGone(b)
        BY <1>1, <1>2, <2>1, <3>1
      <4> QED  BY <4>1, AgainKnows
    <3> QED  BY <3>1, <3>2
  <2> QED  BY <1>1, <1>5, <2>2, LookMoves
<1>6. CASE ~writing /\ look' = [look EXCEPT ![r] = Again(l, v, TRUE)]
  <2>1. ASSUME ~quiet[r], NEW m \in Nat, NEW b \in Nat, v.failure = Corrupt(m, b)
        PROVE  MarkerGone(m) \/ IndexGone(b)
    <3>1. m = l.marker /\ m # NoGen /\ m # b /\ b <= last /\ Used(m)
      BY <1>1, <1>2, <2>1 DEF Knows
    <3>2. dir.temps = {} /\ ~Damaged(dir)
      BY <1>1, <1>6, <2>1 DEF DamageInv, LoadInv, Watched
    <3>3. CASE dir.meta # m
      BY <3>1, <3>3 DEF MarkerGone
    <3>4. CASE dir.meta = m
      <4>1. dir.bin = m
        BY <3>1, <3>2, <3>4 DEF Damaged, Fits
      <4> QED  BY <3>1, <3>2, <4>1 DEF IndexGone
    <3> QED  BY <3>3, <3>4
  <2>2. Knows(r, Again(l, v, TRUE)) /\ Again(l, v, TRUE).pc = "stat"
    <3>1. ~quiet[r] /\ TRUE => \A m, b \in Nat : v.failure = Corrupt(m, b) => MarkerGone(m) \/ IndexGone(b)
      BY <2>1
    <3> HIDE DEF v
    <3> QED  BY <1>1, <1>2, <3>1, AgainKnows
  <2> QED  BY <1>1, <1>6, <2>2, LookMoves
<1>7. CASE /\ look' = [look EXCEPT ![r] = [l EXCEPT !.pc = "remove"]]
           /\ \/ l.failure = <<"version">>
              \/ l.repeatable /\ v = l.previous /\ l.failure # <<"unreadable">>
  <2> DEFINE k == [l EXCEPT !.pc = "remove"]
  <2>1. /\ k \in Looks /\ k.pc = "remove" /\ k.marker = l.marker /\ k.failure = l.failure
        /\ k.repeatable = l.repeatable /\ k.previous = l.previous
    BY <1>1 DEF Looks
  <2>2. Knows(r, k)
    <3> HIDE DEF k
    <3> QED  BY <1>1, <2>1 DEF Knows
  <2>3. l.failure # <<"version">> => quiet[r]
    <3>1. SUFFICES ASSUME l.failure # <<"version">>, ~quiet[r] PROVE FALSE
      OBVIOUS
    <3>2. l.repeatable /\ l.previous.failure = l.failure /\ l.failure # <<"unreadable">>
      BY <1>2, <1>7, <3>1
    <3>3. PICK m \in Nat, b \in Nat : l.failure = Corrupt(m, b)
      <4>1. l.failure \in Failures /\ l.failure # <<>>
        BY <1>1 DEF Knows, Looks
      <4> QED  BY <3>1, <3>2, <4>1 DEF Failures
    <3>4. m = l.marker
      BY <1>1, <3>3 DEF Knows
    <3> QED  BY <1>1, <3>1, <3>2, <3>3, <3>4 DEF Knows
  <2> HIDE DEF k
  <2> QED  BY <1>1, <1>7, <2>1, <2>2, <2>3, LookMoves DEF k
<1> QED  BY <1>3, <1>4, <1>5, <1>6, <1>7 DEF Decide

LEMMA RemoveDirKeeps ==
  ASSUME DamageInv, NEW r \in Readers, RemoveDir(r)
  PROVE  DamageInv'
<1>1. look[r] \in Looks /\ look[r].pc = "remove"
  BY DEF DamageInv, LoadInv, Knows, RemoveDir, Looking
<1>2. CASE RemoveFile /\ UNCHANGED look
  BY <1>2, RemovalKeeps
<1>3. CASE /\ look' = [look EXCEPT ![r] = Answer(look[r], "removed")]
           /\ UNCHANGED <<dir, last, save, quiet>>
  BY <1>1, <1>3, AnswerKnows, LookMoves
<1> QED  BY <1>2, <1>3 DEF RemoveDir

LEMMA DamageInit == CacheInit => DamageInv
<1> SUFFICES ASSUME CacheInit PROVE DamageInv
  OBVIOUS
<1>1. CacheTypes
  BY CacheInitHolds DEF CacheInv
<1>2. /\ dir.temps = {} /\ dir.bin \in {NoGen, 1, 3} /\ dir.meta = dir.bin /\ last = 3
      /\ \A w \in Writers : save[w] = NoSave
      /\ NoSave.pc = "idle" /\ look = [r \in Readers |-> NoLook] /\ quiet = [r \in Readers |-> FALSE]
  BY DEF CacheInit, NoSave
<1>3. Numbers
  BY <1>2 DEF Numbers, Active, NoGen
<1>5. Pair
  BY <1>2 DEF Pair, Used, NoGen
<1>6. \A r \in Readers : Knows(r, look[r]) /\ Watched(r) /\ look[r].pc = "idle"
  BY <1>2, FreshLook, Verdicts DEF Knows, Watched
<1>7. LoadInv
  BY <1>2, <1>6 DEF LoadInv, OnlyDamageIsRemoved
<1> QED  BY <1>1, <1>3, <1>5, <1>7 DEF DamageInv, DirInv

LEMMA DamageStep ==
  ASSUME DamageInv, [CacheNext]_cvars
  PROVE  DamageInv'
<1>0. DirInv
  BY DEF DamageInv
<1>1. ASSUME NEW w \in Writers, SaveNext(w)
      PROVE  DamageInv'
  <2>1. DirInv' /\ Onward
    BY <1>0, <1>1, SaveMoves
  <2>2. /\ look' = look
        /\ \/ dir' = dir /\ quiet' = quiet
           \/ quiet' = [r \in Readers |-> quiet[r] \/ (look[r].pc # "idle" /\ Damaged(dir'))]
    <3>1. \A d : Put(d) => quiet' = [r \in Readers |-> quiet[r] \/ (look[r].pc # "idle" /\ Damaged(dir'))]
      BY DEF Put
    <3>2. look' = look
      BY <1>1 DEF SaveNext, CacheWriteTemp, CacheWriteMarker, CacheLinkAside, RenameIndex, RenameMarker,
                  RenameBack, GiveUp, SaveReturn, SaveKilled
    <3>3. (dir' = dir /\ quiet' = quiet) \/ (\E d : Put(d))
      BY <1>1 DEF SaveNext, CacheWriteTemp, CacheWriteMarker, CacheLinkAside, RenameIndex, RenameMarker,
                  RenameBack, GiveUp, SaveReturn, SaveKilled
    <3> QED  BY <3>1, <3>2, <3>3
  <2> QED  BY <2>1, <2>2, LoadsStand
<1>2. ASSUME NEW r \in Readers, LoadNext(r)
      PROVE  DamageInv'
  BY <1>2, LoadBeginKeeps, StatIndexKeeps, ReadMetaKeeps, LoadIndexKeeps, RestatKeeps, DecideKeeps,
     RemoveDirKeeps DEF LoadNext
<1>3. CASE CacheSweepTemp
  <2>1. DirInv' /\ Onward
    BY <1>0, <1>3, SweepMoves
  <2>2. /\ look' = look
        /\ quiet' = [r \in Readers |-> quiet[r] \/ (look[r].pc # "idle" /\ Damaged(dir'))]
    BY <1>3 DEF CacheSweepTemp, Put
  <2> QED  BY <2>1, <2>2, LoadsStand
<1>5. CASE CacheSweepFile
  BY <1>5, RemovalKeeps DEF CacheSweepFile
<1>6. CASE CacheSweepDir \/ CacheSweepEnds
  <2>1. UNCHANGED <<dir, last, save, look, quiet>>
    BY <1>6 DEF CacheSweepDir, CacheSweepEnds
  <2> QED  BY <1>0, <2>1, DirStands, LoadsStand
<1>4. CASE UNCHANGED cvars
  <2>1. UNCHANGED <<dir, last, save, look, quiet>>
    BY <1>4 DEF cvars
  <2> QED  BY <1>0, <2>1, DirStands, LoadsStand
<1> QED  BY <1>1, <1>2, <1>3, <1>4, <1>5, <1>6 DEF CacheNext

(* A load removes a directory of its own version only if, at some time during *)
(* that load, the directory was damaged with nobody at work on it, or somebody *)
(* else took a file of it away: however many saves commit, fail, are undone or *)
(* are killed between its reads (LoadCacheDir).                               *)
THEOREM RemovalIsDeserved == CacheSpec => []OnlyDamageIsRemoved
<1>1. CacheInit => DamageInv
  BY DamageInit
<1>2. DamageInv /\ [CacheNext]_cvars => DamageInv'
  BY DamageStep
<1>3. DamageInv => OnlyDamageIsRemoved
  BY DEF DamageInv, LoadInv
<1> QED  BY <1>1, <1>2, <1>3, PTL DEF CacheSpec

-----------------------------------------------------------------------------
(* Sets of numbers, and finite sets in an order.                           *)

LEMMA NatLess == IsWellFoundedOn({p \in Nat \X Nat : p[1] < p[2]}, Nat)
<1>1. OpToRel(<, Nat) = {p \in Nat \X Nat : p[1] < p[2]} BY Zenon DEF OpToRel
<1> QED BY <1>1, NatLessThanWellFounded

LEMMA HasLeast ==
  ASSUME NEW S, S \subseteq Nat, S # {}
  PROVE  \E x \in S : \A y \in S : x <= y
<1>1. PICK R : R = {p \in Nat \X Nat : p[1] < p[2]} OBVIOUS
<1>2. PICK x \in S : \A y \in S : <<y, x>> \notin R BY <1>1, NatLess, WFMin
<1>3. ASSUME NEW y \in S PROVE x <= y
  <2>1. x \in Nat /\ y \in Nat /\ <<y, x>> \in Nat \X Nat OBVIOUS
  <2>2. ~(y < x) BY <1>1, <1>2, <2>1
  <2> QED BY <2>1, <2>2
<1> QED BY <1>3

(* An order of a finite set: its elements are ranked by how many come before. *)
Orders(R, S) ==
  /\ \A x \in S : <<x, x>> \notin R
  /\ \A x, y \in S : x # y => <<x, y>> \in R \/ <<y, x>> \in R
  /\ \A x, y, z \in S : <<x, y>> \in R /\ <<y, z>> \in R => <<x, z>> \in R

LEMMA SmallerRank ==
  ASSUME NEW S, IsFiniteSet(S), NEW R, Orders(R, S), NEW x \in S, NEW y \in S, <<x, y>> \in R
  PROVE  Cardinality({z \in S : <<z, x>> \in R}) < Cardinality({z \in S : <<z, y>> \in R})
<1>1. PICK A : A = {z \in S : <<z, x>> \in R} OBVIOUS
<1>2. PICK B : B = {z \in S : <<z, y>> \in R} OBVIOUS
<1>3. A \subseteq B /\ x \in B /\ x \notin A BY <1>1, <1>2 DEF Orders
<1>4. IsFiniteSet(A) /\ IsFiniteSet(B) BY <1>1, <1>2, FS_Subset
<1>5. Cardinality(A) <= Cardinality(B) /\ Cardinality(A) # Cardinality(B) BY <1>3, <1>4, FS_Subset
<1>6. Cardinality(A) \in Nat /\ Cardinality(B) \in Nat BY <1>4, FS_CardinalityType
<1> QED BY <1>1, <1>2, <1>5, <1>6

LEMMA RankIsPlace ==
  ASSUME NEW S, IsFiniteSet(S), NEW R, Orders(R, S), NEW rank,
         rank = [x \in S |-> Cardinality({z \in S : <<z, x>> \in R}) + 1]
  PROVE  /\ rank \in Bijection(S, 1..Cardinality(S))
         /\ \A x, y \in S : rank[x] < rank[y] => <<x, y>> \in R
<1>1. PICK n : n = Cardinality(S) OBVIOUS
<1>2. n \in Nat BY <1>1, FS_CardinalityType
<1>3. ASSUME NEW x \in S PROVE rank[x] \in 1..n
  <2>1. PICK A : A = {z \in S : <<z, x>> \in R} OBVIOUS
  <2>2. A \subseteq S /\ x \notin A BY <2>1 DEF Orders
  <2>3. IsFiniteSet(A) /\ Cardinality(A) <= n /\ Cardinality(A) # n BY <1>1, <2>2, FS_Subset
  <2>4. Cardinality(A) \in Nat BY <2>3, FS_CardinalityType
  <2> QED BY <1>2, <2>1, <2>3, <2>4
<1>4. rank \in [S -> 1..n] BY <1>3
<1>5. ASSUME NEW x \in S, NEW y \in S, <<x, y>> \in R PROVE rank[x] < rank[y]
  <2>1. Cardinality({z \in S : <<z, x>> \in R}) < Cardinality({z \in S : <<z, y>> \in R}) BY <1>5, SmallerRank
  <2>2. rank[x] \in Int /\ rank[y] \in Int BY <1>3
  <2>3. IsFiniteSet({z \in S : <<z, x>> \in R}) /\ IsFiniteSet({z \in S : <<z, y>> \in R}) BY FS_Subset
  <2>4. Cardinality({z \in S : <<z, x>> \in R}) \in Nat /\ Cardinality({z \in S : <<z, y>> \in R}) \in Nat BY <2>3, FS_CardinalityType
  <2> QED BY <2>1, <2>4
<1>6. \A x, y \in S : x # y => rank[x] < rank[y] \/ rank[y] < rank[x] BY <1>5 DEF Orders
<1>7. \A x \in S : rank[x] \in Nat BY <1>2, <1>3
<1>8. \A x, y \in S : rank[x] < rank[y] => <<x, y>> \in R
  <2> SUFFICES ASSUME NEW x \in S, NEW y \in S, rank[x] < rank[y], <<x, y>> \notin R PROVE FALSE OBVIOUS
  <2>1. x # y BY <1>7
  <2>2. <<y, x>> \in R BY <2>1 DEF Orders
  <2> QED BY <1>5, <1>7, <2>2
<1>9. ASSUME NEW x \in S, NEW y \in S, x # y PROVE rank[x] # rank[y]
  <2>1. rank[x] < rank[y] \/ rank[y] < rank[x] BY <1>6, <1>9
  <2>2. rank[x] \in Nat /\ rank[y] \in Nat BY <1>7
  <2> QED BY <2>1, <2>2
<1>10. rank \in Injection(S, 1..n) BY <1>4, <1>9 DEF Injection, IsInjective
<1>11. IsFiniteSet(1..n) /\ Cardinality(1..n) = n BY <1>2, FS_Interval
<1>12. rank \in Surjection(S, 1..n) BY <1>1, <1>10, <1>11, FS_Injection
<1> QED BY <1>1, <1>8, <1>10, <1>12 DEF Bijection

-----------------------------------------------------------------------------
(* What Sorted and Where make.                                             *)

Ranked(f, S, R) ==
  /\ f = [k \in 1..Cardinality(S) |-> f[k]]
  /\ \A k \in 1..Cardinality(S) : f[k] = CHOOSE x \in S : Cardinality({y \in S : <<y, x>> \in R}) = k - 1

LEMMA PlacesAre ==
  ASSUME NEW S, IsFiniteSet(S), NEW R, Orders(R, S), NEW n, n = Cardinality(S), NEW f, Ranked(f, S, R)
  PROVE  /\ n \in Nat /\ f \in [1..n -> S]
         /\ \A x \in S : \E k \in 1..n : f[k] = x
         /\ \A i, j \in 1..n : i < j => <<f[i], f[j]>> \in R
<1>1. n \in Nat BY FS_CardinalityType
<1>2. PICK rank : rank = [x \in S |-> Cardinality({y \in S : <<y, x>> \in R}) + 1] OBVIOUS
<1>3. rank \in Bijection(S, 1..n) /\ \A x, y \in S : rank[x] < rank[y] => <<x, y>> \in R BY <1>2, RankIsPlace
<1>4. /\ rank \in [S -> 1..n] /\ \A k \in 1..n : \E x \in S : rank[x] = k
      /\ \A x, y \in S : rank[x] = rank[y] => x = y
  BY <1>3 DEF Bijection, Injection, Surjection, IsInjective
<1>5. ASSUME NEW x \in S, NEW k \in 1..n
      PROVE  Cardinality({y \in S : <<y, x>> \in R}) = k - 1 <=> rank[x] = k
  <2>1. PICK c : c = Cardinality({y \in S : <<y, x>> \in R}) OBVIOUS
  <2>2. IsFiniteSet({y \in S : <<y, x>> \in R}) BY FS_Subset
  <2>3. c \in Nat BY <2>1, <2>2, FS_CardinalityType
  <2>4. rank[x] = c + 1 BY <1>2, <2>1
  <2> QED BY <2>1, <2>3, <2>4
<1>6. ASSUME NEW k \in 1..n PROVE f[k] \in S /\ rank[f[k]] = k
  <2>1. PICK x \in S : rank[x] = k BY <1>4
  <2>2. Cardinality({y \in S : <<y, x>> \in R}) = k - 1 BY <1>5, <2>1
  <2>3. f[k] = CHOOSE z \in S : Cardinality({y \in S : <<y, z>> \in R}) = k - 1 BY DEF Ranked
  <2>4. f[k] \in S /\ Cardinality({y \in S : <<y, f[k]>> \in R}) = k - 1 BY <2>2, <2>3
  <2> QED BY <1>5, <2>4
<1>7. f \in [1..n -> S] BY <1>6 DEF Ranked
<1>8. ASSUME NEW x \in S PROVE \E k \in 1..n : f[k] = x
  <2>1. rank[x] \in 1..n BY <1>4
  <2>2. f[rank[x]] \in S /\ rank[f[rank[x]]] = rank[x] BY <1>6, <2>1
  <2> QED BY <1>4, <2>1, <2>2
<1>9. ASSUME NEW i \in 1..n, NEW j \in 1..n, i < j PROVE <<f[i], f[j]>> \in R
  <2>1. f[i] \in S /\ f[j] \in S /\ rank[f[i]] = i /\ rank[f[j]] = j BY <1>6
  <2> QED BY <1>3, <1>9, <2>1
<1> QED BY <1>1, <1>7, <1>8, <1>9

(* The numbers of a set in their order, and the elements at those places.   *)
Placed(at, S) == at = [k \in 1..Cardinality(S) |-> CHOOSE x \in S : Cardinality({y \in S : y < x}) = k - 1]
Taken(t, s, S) == \E at : Placed(at, S) /\ t = [k \in DOMAIN at |-> s[at[k]]]

LEMMA PlacesInOrder ==
  ASSUME NEW m \in Nat, NEW S, S \subseteq 1..m, NEW at, Placed(at, S)
  PROVE  \E n \in Nat : /\ n = Cardinality(S) /\ at \in [1..n -> S]
                        /\ \A x \in S : \E k \in 1..n : at[k] = x
                        /\ \A i, j \in 1..n : i < j => at[i] < at[j]
<1>1. PICK R : R = {p \in S \X S : p[1] < p[2]} OBVIOUS
<1>2. IsFiniteSet(S)
  <2>1. IsFiniteSet(1..m) BY FS_Interval
  <2> QED BY <2>1, FS_Subset
<1>3. \A x \in S : x \in Int OBVIOUS
<1>4. \A x, y \in S : <<x, y>> \in R <=> x < y BY <1>1
<1>5. Orders(R, S) BY <1>3, <1>4 DEF Orders
<1>6. PICK n : n = Cardinality(S) OBVIOUS
<1>7. Ranked(at, S, R)
  <2>1. \A x \in S : {y \in S : y < x} = {y \in S : <<y, x>> \in R} BY <1>4
  <2>2. ASSUME NEW k \in 1..n
        PROVE  at[k] = CHOOSE x \in S : Cardinality({y \in S : <<y, x>> \in R}) = k - 1
    <3>1. at[k] = CHOOSE x \in S : Cardinality({y \in S : y < x}) = k - 1 BY <1>6 DEF Placed
    <3>2. \A x \in S : Cardinality({y \in S : y < x}) = k - 1 <=> Cardinality({y \in S : <<y, x>> \in R}) = k - 1 BY <2>1
    <3> QED BY <3>1, <3>2
  <2>3. at = [k \in 1..n |-> at[k]]
    <3> DEFINE th(k) == CHOOSE x \in S : Cardinality({y \in S : y < x}) = k - 1
    <3>1. at = [k \in 1..n |-> th(k)] BY <1>6 DEF Placed
    <3> HIDE DEF th
    <3> QED BY <3>1
  <2> QED BY <1>6, <2>2, <2>3 DEF Ranked
<1>8. /\ n \in Nat /\ at \in [1..n -> S] /\ \A x \in S : \E k \in 1..n : at[k] = x
      /\ \A i, j \in 1..n : i < j => <<at[i], at[j]>> \in R
  BY <1>2, <1>5, <1>6, <1>7, PlacesAre
<1>9. \A i, j \in 1..n : i < j => at[i] < at[j] BY <1>4, <1>8
<1> QED BY <1>6, <1>8, <1>9

LEMMA TakenAre ==
  ASSUME NEW X, NEW s \in Seq(X), NEW S, S \subseteq DOMAIN s, NEW t, Taken(t, s, S)
  PROVE  /\ t \in Seq(X) /\ Len(t) <= Len(s)
         /\ \A k \in DOMAIN t : \E x \in S : t[k] = s[x]
         /\ \A x \in S : \E k \in DOMAIN t : t[k] = s[x]
<1>1. PICK m : m = Len(s) OBVIOUS
<1>2. m \in Nat /\ DOMAIN s = 1..m BY <1>1
<1>3. PICK at : Placed(at, S) /\ t = [k \in DOMAIN at |-> s[at[k]]] BY DEF Taken
<1>4. PICK n \in Nat : /\ n = Cardinality(S) /\ at \in [1..n -> S]
                       /\ \A x \in S : \E k \in 1..n : at[k] = x
                       /\ \A i, j \in 1..n : i < j => at[i] < at[j]
  <2>1. S \subseteq 1..m BY <1>2
  <2> QED BY <1>2, <1>3, <2>1, PlacesInOrder
<1>5. DOMAIN at = 1..n BY <1>4
<1>6. t \in [1..n -> X]
  <2>1. \A k \in 1..n : at[k] \in 1..m BY <1>2, <1>4
  <2>2. \A k \in 1..m : s[k] \in X BY <1>2
  <2>3. \A k \in 1..n : s[at[k]] \in X BY <2>1, <2>2
  <2> QED BY <1>3, <1>5, <2>3
<1>7. t \in Seq(X) /\ Len(t) = n /\ DOMAIN t = 1..n BY <1>4, <1>6
<1>8. n <= m
  <2>1. IsFiniteSet(1..m) /\ Cardinality(1..m) = m BY <1>2, FS_Interval
  <2> QED BY <1>2, <1>4, <2>1, FS_Subset
<1>9. \A k \in 1..n : at[k] \in S /\ t[k] = s[at[k]] BY <1>3, <1>4, <1>5
<1>10. \A x \in S : \E k \in 1..n : t[k] = s[x] BY <1>4, <1>9
<1> QED BY <1>1, <1>7, <1>8, <1>9, <1>10

-----------------------------------------------------------------------------
(* A fold from the left, step by step.                                     *)

LEMMA GreatestIsIn ==
  ASSUME NEW n \in Nat, NEW s, s \subseteq 1..n, s # {}
  PROVE  Max(s) \in s /\ \A x \in s : x <= Max(s)
<1>1. PICK T : T = {n - x : x \in s} OBVIOUS
<1>2. T \subseteq Nat /\ T # {}
  <2>1. \A x \in s : n - x \in Nat OBVIOUS
  <2> QED BY <1>1, <2>1
<1>3. PICK t \in T : \A u \in T : t <= u BY <1>2, HasLeast
<1>4. PICK m \in s : t = n - m BY <1>1
<1>5. ASSUME NEW x \in s PROVE m >= x
  <2>1. n - x \in T /\ x \in Nat /\ m \in Nat BY <1>1
  <2>2. n - m <= n - x BY <1>3, <1>4, <2>1
  <2> QED BY <2>1, <2>2
<1>6. \E y \in s : \A x \in s : y >= x BY <1>5
<1>7. PICK y : y = Max(s) OBVIOUS
<1>8. y \in s /\ \A x \in s : y >= x BY <1>6, <1>7 DEF Max
<1>9. \A x \in s : x <= y BY <1>8
<1> QED BY <1>7, <1>8, <1>9

Folded(g, base, F) ==
  \A s \in DOMAIN F : F[s] = IF s = {} THEN base ELSE g[<<Max(s), F[s \ {Max(s)}]>>]

LEMMA FoldedExists ==
  ASSUME NEW n \in Nat, NEW Y, NEW base \in Y, NEW g \in [(1..n) \X Y -> Y]
  PROVE  \E F \in [SUBSET (1..n) -> Y] : Folded(g, base, F)
<1> DEFINE Upto(k) == SUBSET (1..k)
<1>1. PICK Failing : Failing = {k \in 0..n : ~\E F \in [Upto(k) -> Y] : Folded(g, base, F)} OBVIOUS
<1>2. Failing = {}
  <2>1. SUFFICES ASSUME Failing # {} PROVE FALSE OBVIOUS
  <2>2. Failing \subseteq Nat BY <1>1
  <2>3. PICK k \in Failing : \A j \in Failing : k <= j BY <2>1, <2>2, HasLeast
  <2>4. k \in 0..n /\ ~\E F \in [Upto(k) -> Y] : Folded(g, base, F) BY <1>1
  <2>5. CASE k = 0
    <3>1. PICK F : F = [s \in Upto(0) |-> base] OBVIOUS
    <3>2. \A s \in Upto(0) : s = {} OBVIOUS
    <3>3. F \in [Upto(0) -> Y] BY <3>1
    <3>4. Folded(g, base, F) BY <3>1, <3>2 DEF Folded
    <3> QED BY <2>4, <2>5, <3>3, <3>4
  <2>6. CASE k # 0
    <3>1. k - 1 \in 0..n /\ ~(k <= k - 1) BY <2>4, <2>6
    <3>2. PICK F \in [Upto(k - 1) -> Y] : Folded(g, base, F) BY <1>1, <2>3, <3>1
    <3>3. PICK H : H = [s \in Upto(k) |-> IF k \in s THEN g[<<k, F[s \ {k}]>>] ELSE F[s]] OBVIOUS
    <3>4. \A s \in Upto(k) : s \ {k} \in Upto(k - 1) BY <2>4, <2>6
    <3>5. \A s \in Upto(k) : k \notin s => s \in Upto(k - 1) BY <3>4
    <3>6. k \in 1..n BY <2>4, <2>6
    <3>7. ASSUME NEW s \in Upto(k) PROVE H[s] \in Y
      <4>1. CASE k \in s BY <3>2, <3>3, <3>4, <3>6, <4>1
      <4>2. CASE k \notin s BY <3>2, <3>3, <3>5, <4>2
      <4> QED BY <4>1, <4>2
    <3>8. H \in [Upto(k) -> Y] BY <3>3, <3>7
    <3>9. ASSUME NEW s \in Upto(k), k \in s PROVE Max(s) = k
      <4>1. k \in Nat /\ s \subseteq 1..k /\ s # {} BY <2>4, <3>9
      <4>2. PICK m : m = Max(s) OBVIOUS
      <4>3. m \in s /\ \A x \in s : x <= m BY <4>1, <4>2, GreatestIsIn
      <4>4. m \in 1..k /\ k <= m BY <3>9, <4>1, <4>3
      <4> QED BY <4>1, <4>2, <4>4
    <3>10. ASSUME NEW s \in Upto(k)
           PROVE  H[s] = IF s = {} THEN base ELSE g[<<Max(s), H[s \ {Max(s)}]>>]
      <4>1. CASE k \in s
        <5>1. H[s] = g[<<k, F[s \ {k}]>>] /\ H[s \ {k}] = F[s \ {k}] BY <3>3, <4>1
        <5> QED BY <3>9, <4>1, <5>1
      <4>2. CASE k \notin s
        <5>1. H[s] = F[s] /\ s \in Upto(k - 1) BY <3>3, <3>5, <4>2
        <5>2. F[s] = IF s = {} THEN base ELSE g[<<Max(s), F[s \ {Max(s)}]>>] BY <3>2, <5>1 DEF Folded
        <5>3. k \notin s \ {Max(s)} /\ s \ {Max(s)} \in Upto(k) BY <4>2
        <5>4. H[s \ {Max(s)}] = F[s \ {Max(s)}] BY <3>3, <5>3
        <5> QED BY <5>1, <5>2, <5>4
      <4> QED BY <4>1, <4>2
    <3>11. Folded(g, base, H) BY <3>8, <3>10 DEF Folded
    <3> QED BY <2>4, <3>8, <3>11
  <2> QED BY <2>5, <2>6
<1>3. n \in 0..n /\ n \notin Failing BY <1>2
<1> QED BY <1>1, <1>3

LEMMA OneStepLess ==
  ASSUME NEW k \in Nat, k # 0
  PROVE  Max(1..k) = k /\ (1..k) \ {k} = 1..(k - 1)
<1>1. k \in 1..k /\ 1..k \subseteq 1..k /\ 1..k # {} OBVIOUS
<1>2. PICK m : m = Max(1..k) OBVIOUS
<1>3. m \in 1..k /\ \A x \in 1..k : x <= m BY <1>1, <1>2, GreatestIsIn
<1>4. k <= m /\ m <= k /\ m \in Nat BY <1>1, <1>3
<1>5. (1..k) \ {k} = 1..(k - 1) OBVIOUS
<1> QED BY <1>2, <1>4, <1>5

LEMMA AllReached ==
  ASSUME NEW n \in Nat, NEW A, 0 \in A, \A k \in 1..n : k - 1 \in A => k \in A
  PROVE  0..n \subseteq A
<1>1. PICK Out : Out = {k \in 0..n : k \notin A} OBVIOUS
<1>2. SUFFICES ASSUME Out # {} PROVE FALSE BY <1>1
<1>3. Out \subseteq Nat BY <1>1
<1>4. PICK k \in Out : \A j \in Out : k <= j BY <1>2, <1>3, HasLeast
<1>5. k \in 1..n /\ k \notin A BY <1>1
<1>6. k - 1 \in 0..n /\ ~(k <= k - 1) BY <1>5
<1>7. k - 1 \in A BY <1>1, <1>4, <1>6
<1> QED BY <1>5, <1>7

(* FlattenSeq, step by step. *)
Joined(seqs, g) == \A i \in DOMAIN g : g[i] = IF i = 1 THEN seqs[i] ELSE g[i - 1] \o seqs[i]

LEMMA JoinedExists ==
  ASSUME NEW S, NEW seqs \in Seq(Seq(S))
  PROVE  \A k \in 1..Len(seqs) : \E g \in [1..k -> Seq(S)] : Joined(seqs, g)
<1> DEFINE Bad == {k \in 1..Len(seqs) : ~\E g \in [1..k -> Seq(S)] : Joined(seqs, g)}
<1>1. SUFFICES ASSUME Bad # {} PROVE FALSE OBVIOUS
<1>2. PICK B : B = Bad OBVIOUS
<1>3. B \subseteq Nat /\ B # {} BY <1>1, <1>2
<1>4. PICK k \in B : \A j \in B : k <= j BY <1>3, HasLeast
<1>5. k \in 1..Len(seqs) /\ ~\E g \in [1..k -> Seq(S)] : Joined(seqs, g) BY <1>2, <1>4
<1>6. seqs[k] \in Seq(S) BY <1>5
<1>7. CASE k = 1
  <2>1. PICK g : g = [i \in 1..1 |-> seqs[1]] OBVIOUS
  <2>2. g \in [1..k -> Seq(S)] BY <1>6, <1>7, <2>1
  <2>3. Joined(seqs, g) BY <2>1 DEF Joined
  <2> QED BY <1>5, <2>2, <2>3
<1>8. CASE k # 1
  <2>1. k - 1 \in 1..Len(seqs) /\ ~(k <= k - 1) BY <1>5, <1>8
  <2>2. k - 1 \in 1..Len(seqs) /\ k - 1 \notin Bad BY <1>2, <1>4, <2>1
  <2>3. PICK g \in [1..(k - 1) -> Seq(S)] : Joined(seqs, g) BY <2>2
  <2>4. PICK h : h = [i \in 1..k |-> IF i = k THEN g[k - 1] \o seqs[k] ELSE g[i]] OBVIOUS
  <2>5. g[k - 1] \o seqs[k] \in Seq(S) BY <1>5, <1>6, <1>8, <2>3
  <2>6. h \in [1..k -> Seq(S)] BY <1>5, <2>3, <2>4, <2>5
  <2>7. ASSUME NEW i \in 1..k PROVE h[i] = IF i = 1 THEN seqs[i] ELSE h[i - 1] \o seqs[i]
    <3>1. CASE i = k
      <4>1. h[i] = g[k - 1] \o seqs[k] BY <2>4, <3>1
      <4>2. k - 1 \in 1..k /\ k - 1 # k BY <1>5, <1>8
      <4>3. h[k - 1] = g[k - 1] BY <2>4, <4>2
      <4> QED BY <1>8, <3>1, <4>1, <4>3
    <3>2. CASE i # k
      <4>1. i \in 1..(k - 1) /\ h[i] = g[i] BY <1>5, <2>4, <3>2
      <4>2. g[i] = IF i = 1 THEN seqs[i] ELSE g[i - 1] \o seqs[i] BY <2>3, <4>1 DEF Joined
      <4>3. i # 1 => h[i - 1] = g[i - 1] BY <1>5, <2>4, <4>1
      <4> QED BY <4>1, <4>2, <4>3
    <3> QED BY <3>1, <3>2
  <2>8. Joined(seqs, h) BY <2>6, <2>7 DEF Joined
  <2> QED BY <1>5, <2>6, <2>8
<1> QED BY <1>7, <1>8

LEMMA JoinedOnce ==
  ASSUME NEW seqs, NEW n \in Nat, NEW m \in 1..n, NEW g, NEW h, DOMAIN g = 1..n, DOMAIN h = 1..m, Joined(seqs, g), Joined(seqs, h)
  PROVE  \A x \in 1..m : g[x] = h[x]
<1>1. PICK Bad : Bad = {i \in 1..m : g[i] # h[i]} OBVIOUS
<1>2. SUFFICES ASSUME Bad # {} PROVE FALSE BY <1>1
<1>3. Bad \subseteq Nat BY <1>1
<1>4. PICK k \in Bad : \A j \in Bad : k <= j BY <1>2, <1>3, HasLeast
<1>5. k \in 1..m /\ k \in 1..n /\ g[k] # h[k] BY <1>1
<1>6. g[k] = (IF k = 1 THEN seqs[k] ELSE g[k - 1] \o seqs[k]) /\ h[k] = (IF k = 1 THEN seqs[k] ELSE h[k - 1] \o seqs[k]) BY <1>5 DEF Joined
<1>7. k # 1 BY <1>5, <1>6
<1>8. k - 1 \in 1..m /\ ~(k <= k - 1) BY <1>5, <1>7
<1>9. k - 1 \in 1..m /\ k - 1 \notin Bad BY <1>4, <1>8
<1> QED BY <1>1, <1>5, <1>6, <1>7, <1>9

LEMMA FlattenIsJoined ==
  ASSUME NEW S, NEW seqs \in Seq(Seq(S)), Len(seqs) # 0
  PROVE  \E g \in [1..Len(seqs) -> Seq(S)] : Joined(seqs, g) /\ FlattenSeq(seqs) = g[Len(seqs)]
<1>1. PICK n : n = Len(seqs) OBVIOUS
<1>2. n \in Nat /\ n \in 1..n BY <1>1
<1>3. PICK g \in [1..n -> Seq(S)] : Joined(seqs, g) BY <1>1, <1>2, JoinedExists
<1> DEFINE fl == CHOOSE f : f = [i \in 1..Len(seqs) |-> IF i = 1 THEN seqs[i] ELSE f[i - 1] \o seqs[i]]
<1>4. g = [i \in 1..Len(seqs) |-> IF i = 1 THEN seqs[i] ELSE g[i - 1] \o seqs[i]] BY <1>1, <1>3 DEF Joined
<1>5. fl = [i \in 1..Len(seqs) |-> IF i = 1 THEN seqs[i] ELSE fl[i - 1] \o seqs[i]] BY <1>4
<1>6. FlattenSeq(seqs) = fl[Len(seqs)] BY DEF FlattenSeq
<1> HIDE DEF fl
<1>7. Joined(seqs, fl) /\ DOMAIN fl = 1..n BY <1>1, <1>5 DEF Joined
<1>8. \A i \in 1..n : g[i] = fl[i] BY <1>2, <1>3, <1>7, JoinedOnce
<1> QED BY <1>1, <1>2, <1>3, <1>6, <1>8

(* What a fold does, one element after the other: it takes the elements up to *)
(* a place by what it makes of those before, and h lists what that comes to.  *)
Steps(h, n, base, g) == h[0] = base /\ \A k \in 1..n : h[k] = g[<<k, h[k - 1]>>]
Iterating(it, n, Y, base, g) ==
  /\ it[{}] = base
  /\ \A t \in SUBSET (1..n) : t # {} /\ it[t \ {Max(t)}] \in Y => it[t] = g[<<Max(t), it[t \ {Max(t)}]>>]

IsStep(g, n, Y) == g \in [(1..n) \X Y -> Y]
IsFold(F, n, Y, base, g) == F \in [SUBSET (1..n) -> Y] /\ Folded(g, base, F)

LEMMA Iterates ==
  ASSUME NEW n \in Nat, NEW Y, NEW base \in Y, NEW g, IsStep(g, n, Y), NEW it, Iterating(it, n, Y, base, g)
  PROVE  \E h \in [0..n -> Y] : Steps(h, n, base, g) /\ h[n] = it[1..n]
<1>1. PICK h : h = [k \in 0..n |-> it[1..k]] OBVIOUS
<1>2. h[0] = base
  <2>1. 1..0 = {} /\ 0 \in 0..n OBVIOUS
  <2> QED BY <1>1, <2>1 DEF Iterating
<1>3. ASSUME NEW k \in 1..n, h[k - 1] \in Y PROVE h[k] = g[<<k, h[k - 1]>>] /\ h[k] \in Y
  <2>1. k \in Nat /\ k # 0 /\ k \in 0..n /\ k - 1 \in 0..n /\ k \in 1..k OBVIOUS
  <2>2. 1..k \in SUBSET (1..n) /\ 1..k # {} BY <2>1
  <2>3. Max(1..k) = k /\ (1..k) \ {k} = 1..(k - 1) BY <2>1, OneStepLess
  <2>4. h[k - 1] = it[1..(k - 1)] /\ h[k] = it[1..k] BY <1>1, <2>1
  <2>5. it[1..k] = g[<<k, it[1..(k - 1)]>>] BY <1>3, <2>2, <2>3, <2>4 DEF Iterating
  <2>6. <<k, h[k - 1]>> \in (1..n) \X Y BY <1>3
  <2> QED BY <2>4, <2>5, <2>6 DEF IsStep
<1>4. PICK A : A = {k \in 0..n : h[k] \in Y} OBVIOUS
<1>5. 0 \in A BY <1>2, <1>4
<1>6. ASSUME NEW k \in 1..n, k - 1 \in A PROVE k \in A
  <2>1. h[k - 1] \in Y /\ k \in 0..n BY <1>4, <1>6
  <2> QED BY <1>3, <1>4, <2>1
<1>7. 0..n \subseteq A BY <1>5, <1>6, AllReached
<1>8. h \in [0..n -> Y]
  <2>1. \A k \in 0..n : h[k] \in Y BY <1>4, <1>7
  <2> QED BY <1>1, <2>1
<1>9. h[n] = it[1..n] BY <1>1
<1>10. ASSUME NEW k \in 1..n PROVE h[k] = g[<<k, h[k - 1]>>]
  <2>1. k - 1 \in 0..n OBVIOUS
  <2> QED BY <1>3, <1>8, <2>1
<1> QED BY <1>2, <1>8, <1>9, <1>10 DEF Steps

(* A fold over F says what the fold does at each set of places.             *)
LEMMA FoldExists ==
  ASSUME NEW n \in Nat, NEW Y, NEW base \in Y, NEW g, IsStep(g, n, Y)
  PROVE  \E F : IsFold(F, n, Y, base, g)
<1>1. g \in [(1..n) \X Y -> Y] BY DEF IsStep
<1>2. PICK F \in [SUBSET (1..n) -> Y] : Folded(g, base, F) BY <1>1, FoldedExists
<1> QED BY <1>2 DEF IsFold

LEMMA FoldedSteps ==
  ASSUME NEW n \in Nat, NEW Y, NEW base, NEW g, NEW F, IsFold(F, n, Y, base, g), NEW t \in SUBSET (1..n), t # {}
  PROVE  /\ Max(t) \in 1..n /\ F[t \ {Max(t)}] \in Y
         /\ F[t] = g[<<Max(t), F[t \ {Max(t)}]>>]
<1>1. Max(t) \in 1..n BY GreatestIsIn
<1>2. t \ {Max(t)} \in SUBSET (1..n) OBVIOUS
<1> QED BY <1>1, <1>2 DEF Folded, IsFold

-----------------------------------------------------------------------------
(***************************************************************************)
(* The build: what the sources name                                        *)
(***************************************************************************)

(* What Where takes of a sequence, for each test it is used with.           *)
LEMMA KeptAre == ASSUME NEW X, NEW s \in Seq(X) PROVE Kept(s) \in Seq(X)
<1>1. PICK S : S = {i \in DOMAIN s : s[i] \notin Placeholders} OBVIOUS
<1>2. Taken(Kept(s), s, S)
  <2>1. PICK at : at = [k \in 1..Cardinality(S) |-> CHOOSE x \in S : Cardinality({y \in S : y < x}) = k - 1] OBVIOUS
  <2>2. Kept(s) = [k \in DOMAIN at |-> s[at[k]]] BY <1>1, <2>1 DEF Kept, Where, Sorted
  <2>3. Placed(at, S) BY <2>1 DEF Placed
  <2> QED BY <2>2, <2>3 DEF Taken
<1>3. S \subseteq DOMAIN s BY <1>1
<1>4. PICK t : t = Kept(s) OBVIOUS
<1>5. t \in Seq(X) BY <1>2, <1>3, <1>4, TakenAre
<1> QED BY <1>4, <1>5

LEMMA UsableAre == ASSUME NEW X, NEW s \in Seq(X) PROVE Usable(s) \in Seq(X)
<1>1. PICK v : v = Kept(s) OBVIOUS
<1>2. v \in Seq(X) BY <1>1, KeptAre
<1>3. PICK S : S = {i \in DOMAIN v : v[i] \notin FlatSuites} OBVIOUS
<1>4. Taken(Usable(s), v, S)
  <2>1. PICK at : at = [k \in 1..Cardinality(S) |-> CHOOSE x \in S : Cardinality({y \in S : y < x}) = k - 1] OBVIOUS
  <2>2. Usable(s) = [k \in DOMAIN at |-> v[at[k]]] BY <1>1, <1>3, <2>1 DEF Usable, Where, Sorted
  <2>3. Placed(at, S) BY <2>1 DEF Placed
  <2> QED BY <2>2, <2>3 DEF Taken
<1>5. PICK t : t = Usable(s) OBVIOUS
<1>6. S \subseteq DOMAIN v /\ Taken(t, v, S) BY <1>3, <1>4, <1>5
<1>7. t \in Seq(X) BY <1>2, <1>6, TakenAre
<1> QED BY <1>5, <1>7

GroupOf(rs, key) == Where(rs, LAMBDA r : GroupKey(r) = key)

LEMMA GroupIs ==
  ASSUME NEW X, NEW rs \in Seq(X), NEW key PROVE GroupOf(rs, key) \in Seq(X)
<1>1. PICK S : S = {i \in DOMAIN rs : GroupKey(rs[i]) = key} OBVIOUS
<1>2. PICK t : t = GroupOf(rs, key) OBVIOUS
<1>3. Taken(t, rs, S)
  <2>1. PICK at : at = [k \in 1..Cardinality(S) |-> CHOOSE x \in S : Cardinality({y \in S : y < x}) = k - 1] OBVIOUS
  <2>2. t = [k \in DOMAIN at |-> rs[at[k]]] BY <1>1, <1>2, <2>1 DEF GroupOf, Where, Sorted
  <2>3. Placed(at, S) BY <2>1 DEF Placed
  <2> QED BY <2>2, <2>3 DEF Taken
<1>4. S \subseteq DOMAIN rs BY <1>1
<1>5. t \in Seq(X) BY <1>3, <1>4, TakenAre
<1> QED BY <1>2, <1>5

LEMMA ReadableAre ==
  ASSUME NEW X, NEW s \in Seq(X)
  PROVE  Readable(s) \in Seq(X) /\ \A k \in DOMAIN Readable(s) : Readable(s)[k].name # None
<1>1. PICK S : S = {i \in DOMAIN s : s[i].name # None} OBVIOUS
<1>2. PICK t : t = Readable(s) OBVIOUS
<1>3. Taken(t, s, S)
  <2>1. PICK at : at = [k \in 1..Cardinality(S) |-> CHOOSE x \in S : Cardinality({y \in S : y < x}) = k - 1] OBVIOUS
  <2>2. t = [k \in DOMAIN at |-> s[at[k]]] BY <1>1, <1>2, <2>1 DEF Readable, Where, Sorted
  <2>3. Placed(at, S) BY <2>1 DEF Placed
  <2> QED BY <2>2, <2>3 DEF Taken
<1>4. S \subseteq DOMAIN s BY <1>1
<1>5. t \in Seq(X) /\ \A k \in DOMAIN t : \E x \in S : t[k] = s[x] BY <1>3, <1>4, TakenAre
<1> QED BY <1>1, <1>2, <1>5

(* Unique, element by element. *)
Added(acc, x) == IF Contains(acc, x) THEN acc ELSE Append(acc, x)

UniqueSteps(h, s, n) ==
  /\ h[0] = <<>> /\ Unique(s) = h[n]
  /\ \A k \in 1..n : h[k] = Added(h[k - 1], s[k])

LEMMA UniqueInSteps ==
  ASSUME NEW X, NEW s \in Seq(X), NEW n, n = Len(s)
  PROVE  \E h \in [0..n -> Seq(X)] : UniqueSteps(h, s, n)
<1> DEFINE It(G) == [t \in SUBSET DOMAIN s |-> IF t = {} THEN <<>> ELSE IF Contains(G[t \ {Max(t)}], s[Max(t)]) THEN G[t \ {Max(t)}]
                       ELSE Append(G[t \ {Max(t)}], s[Max(t)])]
<1> DEFINE it == CHOOSE G : G = It(G)
<1>1. n \in Nat /\ DOMAIN s = 1..n /\ \A k \in 1..n : s[k] \in X OBVIOUS
<1>2. PICK Y : Y = Seq(X) OBVIOUS
<1>3. \A y \in Y, x \in X : Added(y, x) \in Y BY <1>2 DEF Added
<1>4. PICK g : g = [p \in (1..n) \X Y |-> Added(p[2], s[p[1]])] OBVIOUS
<1>5. \A k \in 1..n, y \in Y : g[<<k, y>>] = Added(y, s[k]) BY <1>4
<1>6. IsStep(g, n, Y) /\ <<>> \in Y
  <2>1. \A p \in (1..n) \X Y : Added(p[2], s[p[1]]) \in Y BY <1>1, <1>3
  <2> QED BY <1>2, <1>4, <2>1 DEF IsStep
<1>7. PICK F : IsFold(F, n, Y, <<>>, g) BY <1>1, <1>6, FoldExists
<1>8. ASSUME NEW t \in SUBSET (1..n), t # {}
      PROVE  F[t] = Added(F[t \ {Max(t)}], s[Max(t)])
  <2>1. /\ Max(t) \in 1..n /\ F[t \ {Max(t)}] \in Y
        /\ F[t] = g[<<Max(t), F[t \ {Max(t)}]>>]
    BY <1>1, <1>7, <1>8, FoldedSteps
  <2> QED BY <1>5, <2>1
<1>9. F = It(F)
  <2>1. F[{}] = <<>> BY <1>7 DEF Folded, IsFold
  <2>2. F = [t \in SUBSET DOMAIN s |-> F[t]] BY <1>1, <1>7 DEF IsFold
  <2> QED BY <1>1, <1>8, <2>1, <2>2 DEF Added
<1>10. it = It(it) BY <1>9
<1>11. Unique(s) = it[1..n] BY <1>1 DEF Unique, FoldLeft, MapThenFoldSet
<1> HIDE DEF it
<1>12. Iterating(it, n, Y, <<>>, g)
  <2>1. it[{}] = <<>> BY <1>10
  <2>2. ASSUME NEW t \in SUBSET (1..n), t # {}, it[t \ {Max(t)}] \in Y
        PROVE  it[t] = g[<<Max(t), it[t \ {Max(t)}]>>]
    <3>1. Max(t) \in 1..n BY <1>1, <2>2, GreatestIsIn
    <3>2. it[t] = Added(it[t \ {Max(t)}], s[Max(t)]) BY <1>1, <1>10, <2>2 DEF Added
    <3> QED BY <1>5, <2>2, <3>1, <3>2
  <2> QED BY <2>1, <2>2 DEF Iterating
<1>13. PICK h \in [0..n -> Y] : Steps(h, n, <<>>, g) /\ h[n] = it[1..n]
  <2>1. PICK b : b = <<>> OBVIOUS
  <2>2. b \in Y /\ IsStep(g, n, Y) /\ Iterating(it, n, Y, b, g) BY <1>6, <1>12, <2>1
  <2>3. \E h \in [0..n -> Y] : Steps(h, n, b, g) /\ h[n] = it[1..n] BY <1>1, <2>2, Iterates
  <2> QED BY <2>1, <2>3
<1>14. ASSUME NEW k \in 1..n PROVE h[k] = Added(h[k - 1], s[k])
  <2>1. k - 1 \in 0..n /\ k \in 0..n BY <1>1
  <2>2. h[k - 1] \in Y BY <1>13, <2>1
  <2> QED BY <1>5, <1>13, <2>2 DEF Steps
<1>15. h[0] = <<>> BY <1>13 DEF Steps
<1> QED BY <1>2, <1>11, <1>13, <1>14, <1>15 DEF UniqueSteps

LEMMA UniqueAre == ASSUME NEW X, NEW s \in Seq(X) PROVE Unique(s) \in Seq(X)
<1>1. PICK n : n = Len(s) OBVIOUS
<1>2. n \in 0..n BY <1>1
<1>3. PICK Y : Y = Seq(X) OBVIOUS
<1>4. PICK h \in [0..n -> Y] : UniqueSteps(h, s, n) BY <1>1, <1>3, UniqueInSteps
<1> QED BY <1>2, <1>3, <1>4 DEF UniqueSteps

LEMMA FlattenAre == ASSUME NEW S, NEW seqs \in Seq(Seq(S)) PROVE FlattenSeq(seqs) \in Seq(S)
<1>1. CASE Len(seqs) = 0
  <2>1. seqs = <<>> BY <1>1
  <2>2. FlattenSeq(seqs) = seqs BY <1>1 DEF FlattenSeq
  <2>3. <<>> \in Seq(S) OBVIOUS
  <2> QED BY <2>1, <2>2, <2>3
<1>2. CASE Len(seqs) # 0
  <2>1. PICK n : n = Len(seqs) OBVIOUS
  <2>2. n \in Nat /\ n \in 1..n BY <1>2, <2>1
  <2>3. PICK g \in [1..n -> Seq(S)] : Joined(seqs, g) /\ FlattenSeq(seqs) = g[n] BY <1>2, <2>1, FlattenIsJoined
  <2> QED BY <2>2, <2>3
<1> QED BY <1>1, <1>2

AnyRef == [uri : STRING, suite : STRING, comp : STRING]
AnySource == [uris : Seq(STRING), suites : Seq(STRING), comps : Seq(STRING)]

Passes(s) == StanzaProblem(s) = "" /\ ServesArch(s)
Passing(file) == Where(file, LAMBDA s : Passes(s))

LEMMA SourcesAre == ASSUME NEW file \in SourceFiles PROVE Sources(file) \in Seq(AnySource)
<1>1. file \in Seq(SourceStanza) BY SourcesAssumption
<1>2. PICK S : S = {i \in DOMAIN file : Passes(file[i])} OBVIOUS
<1>3. PICK t : t = Passing(file) OBVIOUS
<1>4. Taken(t, file, S)
  <2>1. PICK at : at = [k \in 1..Cardinality(S) |-> CHOOSE x \in S : Cardinality({y \in S : y < x}) = k - 1] OBVIOUS
  <2>2. t = [k \in DOMAIN at |-> file[at[k]]] BY <1>2, <1>3, <2>1 DEF Passing, Where, Sorted
  <2>3. Placed(at, S) BY <2>1 DEF Placed
  <2> QED BY <2>2, <2>3 DEF Taken
<1>5. S \subseteq DOMAIN file BY <1>2
<1>6. t \in Seq(SourceStanza) BY <1>1, <1>4, <1>5, TakenAre
<1>7. PICK r : r = [i \in DOMAIN t |-> Source(t[i])] OBVIOUS
<1>8. Sources(file) = r BY <1>3, <1>7 DEF Sources, Passing, Passes
<1>9. ASSUME NEW s \in SourceStanza PROVE Source(s) \in AnySource
  <2>1. s.uris \in Seq(STRING) /\ s.suites \in Seq(STRING) /\ s.comps \in Seq(STRING) BY DEF SourceStanza
  <2>2. Kept(s.uris) \in Seq(STRING) /\ Kept(s.comps) \in Seq(STRING) BY <2>1, KeptAre
  <2>3. Usable(s.suites) \in Seq(STRING) BY <2>1, UsableAre
  <2> QED BY <2>2, <2>3 DEF Source, AnySource
<1>10. PICK n \in Nat : DOMAIN t = 1..n /\ \A i \in 1..n : t[i] \in SourceStanza BY <1>6
<1>11. r \in [1..n -> AnySource] BY <1>7, <1>9, <1>10
<1> QED BY <1>8, <1>11

LEMMA SourceRefsAre == ASSUME NEW s \in AnySource PROVE SourceRefs(s) \in Seq(AnyRef)
<1>1. PICK U, D, C : U = s.uris /\ D = s.suites /\ C = s.comps OBVIOUS
<1>2. U \in Seq(STRING) /\ D \in Seq(STRING) /\ C \in Seq(STRING) BY <1>1 DEF AnySource
<1>3. PICK a, b, c : a = Len(U) /\ b = Len(D) /\ c = Len(C) OBVIOUS
<1>4. /\ a \in Nat /\ DOMAIN U = 1..a /\ \A i \in 1..a : U[i] \in STRING
      /\ b \in Nat /\ DOMAIN D = 1..b /\ \A i \in 1..b : D[i] \in STRING
      /\ c \in Nat /\ DOMAIN C = 1..c /\ \A i \in 1..c : C[i] \in STRING
  BY <1>2, <1>3
<1> DEFINE of(u, d) == [x \in 1..c |-> [uri |-> U[u], suite |-> D[d], comp |-> C[x]]]
<1> DEFINE at(u) == [d \in 1..b |-> of(u, d)]
<1> DEFINE all == [u \in 1..a |-> IF U[u] \in Unfetchable THEN <<>> ELSE FlattenSeq(at(u))]
<1>5. ASSUME NEW u \in 1..a, NEW d \in 1..b PROVE of(u, d) \in Seq(AnyRef)
  <2>1. \A x \in 1..c : [uri |-> U[u], suite |-> D[d], comp |-> C[x]] \in AnyRef BY <1>4 DEF AnyRef
  <2>2. of(u, d) \in [1..c -> AnyRef] BY <2>1
  <2> QED BY <1>4, <2>2
<1>6. SourceRefs(s) = FlattenSeq(all) BY <1>1, <1>4 DEF SourceRefs
<1> HIDE DEF of
<1>7. ASSUME NEW u \in 1..a PROVE FlattenSeq(at(u)) \in Seq(AnyRef)
  <2>1. at(u) \in [1..b -> Seq(AnyRef)] BY <1>5
  <2>2. at(u) \in Seq(Seq(AnyRef)) BY <1>4, <2>1
  <2> HIDE DEF at
  <2> QED BY <2>2, FlattenAre
<1> HIDE DEF at
<1>8. all \in [1..a -> Seq(AnyRef)] BY <1>7
<1>9. all \in Seq(Seq(AnyRef)) BY <1>4, <1>8
<1> HIDE DEF all
<1> QED BY <1>6, <1>9, FlattenAre

LEMMA IndexRefsAre == ASSUME NEW file \in SourceFiles PROVE IndexRefs(file) \in Seq(AnyRef)
<1>1. PICK ss : ss = Sources(file) OBVIOUS
<1>2. ss \in Seq(AnySource) BY <1>1, SourcesAre
<1>3. PICK n \in Nat : DOMAIN ss = 1..n /\ \A i \in 1..n : ss[i] \in AnySource BY <1>2
<1>4. PICK lists : lists = [i \in 1..n |-> SourceRefs(ss[i])] OBVIOUS
<1>5. lists \in [1..n -> Seq(AnyRef)] BY <1>3, <1>4, SourceRefsAre
<1>6. lists \in Seq(Seq(AnyRef)) BY <1>5
<1>7. PICK fl : fl = FlattenSeq(lists) OBVIOUS
<1>8. fl \in Seq(AnyRef) BY <1>6, <1>7, FlattenAre
<1>9. IndexRefs(file) = Unique(fl) BY <1>1, <1>3, <1>4, <1>7 DEF IndexRefs
<1>10. Unique(fl) \in Seq(AnyRef) BY <1>8, UniqueAre
<1> QED BY <1>9, <1>10

LEMMA GroupsAre == ASSUME NEW rs \in Seq(AnyRef) PROVE Groups(rs) \in Seq(Seq(AnyRef))
<1>1. PICK n \in Nat : DOMAIN rs = 1..n /\ \A i \in 1..n : rs[i] \in AnyRef
  <2>1. PICK n : n = Len(rs) OBVIOUS
  <2> QED BY <2>1
<1>2. PICK keys : keys = [i \in 1..n |-> GroupKey(rs[i])] OBVIOUS
<1>3. keys \in [1..n -> STRING \X STRING] BY <1>1, <1>2 DEF GroupKey, AnyRef
<1>4. keys \in Seq(STRING \X STRING) BY <1>3
<1>5. PICK u : u = Unique(keys) OBVIOUS
<1>6. u \in Seq(STRING \X STRING) BY <1>4, <1>5, UniqueAre
<1>7. PICK m \in Nat : DOMAIN u = 1..m
  <2>1. PICK m : m = Len(u) OBVIOUS
  <2> QED BY <1>6, <2>1
<1>8. GroupKeys(rs) = u BY <1>1, <1>2, <1>5 DEF GroupKeys
<1>9. PICK gs : gs = [g \in 1..m |-> GroupOf(rs, u[g])] OBVIOUS
<1>10. Groups(rs) = gs BY <1>7, <1>8, <1>9 DEF Groups, GroupOf
<1>11. \A g \in 1..m : GroupOf(rs, u[g]) \in Seq(AnyRef) BY GroupIs
<1>12. gs \in [1..m -> Seq(AnyRef)] BY <1>9, <1>11
<1> QED BY <1>10, <1>12

-----------------------------------------------------------------------------
(***************************************************************************)
(* The merge                                                               *)
(***************************************************************************)

Text == STRING \cup {""}
Entry == [name : Nat, from : (DOMAIN Published) \X Nat, section : Text, desc : Nat, type : Text, cats : Seq(Text)]

(* The j-th stanza is the last of the name of e, and is what e says.        *)
IsLast(s, j, e) ==
  /\ s[j].name = e.name /\ s[j].from = e.from /\ s[j].section = e.section
  /\ \A k \in DOMAIN s : s[k].name = e.name => k <= j

(* Entries merged from the stanzas s: one per name, what the last of it says. *)
MergedTo(es, s) ==
  /\ es \in Seq(Entry) /\ s \in Seq(Entry)
  /\ \A i \in DOMAIN es : es[i].name # None
  /\ \A i, j \in DOMAIN es : es[i].name = es[j].name => i = j
  /\ \A i \in DOMAIN es : \E j \in DOMAIN s : IsLast(s, j, es[i])
  /\ \A j \in DOMAIN s : \E i \in DOMAIN es : es[i].name = s[j].name

(* The entry that is put for e: its description may be dropped. *)
Same(a, b) == a.name = b.name /\ a.from = b.from /\ a.section = b.section

LEMMA AddIs ==
  ASSUME NEW es \in Seq(Entry), NEW e \in Entry
  PROVE  \E kept \in Entry :
           /\ Same(kept, e)
           /\ \/ /\ \A i \in DOMAIN es : es[i].name # e.name
                 /\ MergerAdd(es, e) = Append(es, kept)
              \/ \E c \in DOMAIN es : es[c].name = e.name /\ MergerAdd(es, e) = [es EXCEPT ![c] = kept]
<1>1. PICK at : at = {i \in DOMAIN es : es[i].name = e.name} OBVIOUS
<1>2. PICK old : old = IF at = {} THEN 0 ELSE es[CHOOSE i \in at : TRUE].desc OBVIOUS
<1>3. PICK kept : kept = IF Total(es) - old + e.desc > MaxDescriptions THEN [e EXCEPT !.desc = 0] ELSE e OBVIOUS
<1>4. kept \in Entry /\ Same(kept, e) BY <1>3 DEF Entry, Same
<1>5. MergerAdd(es, e) = IF at = {} THEN Append(es, kept) ELSE [es EXCEPT ![CHOOSE i \in at : TRUE] = kept]
  BY <1>1, <1>2, <1>3 DEF MergerAdd
<1>6. CASE at = {}
  <2>1. \A i \in DOMAIN es : es[i].name # e.name BY <1>1, <1>6
  <2> QED BY <1>4, <1>5, <1>6, <2>1
<1>7. CASE at # {}
  <2>1. PICK c : c = CHOOSE i \in at : TRUE OBVIOUS
  <2>2. c \in at BY <1>7, <2>1
  <2>3. c \in DOMAIN es /\ es[c].name = e.name BY <1>1, <2>2
  <2>4. MergerAdd(es, e) = [es EXCEPT ![c] = kept] BY <1>5, <1>7, <2>1
  <2> QED BY <1>4, <2>3, <2>4
<1> QED BY <1>6, <1>7

LEMMA AddType == ASSUME NEW es \in Seq(Entry), NEW e \in Entry PROVE MergerAdd(es, e) \in Seq(Entry)
<1>1. PICK kept \in Entry :
           \/ MergerAdd(es, e) = Append(es, kept)
           \/ \E c \in DOMAIN es : MergerAdd(es, e) = [es EXCEPT ![c] = kept]
  BY AddIs
<1> QED BY <1>1

LEMMA AddKeeps ==
  ASSUME NEW es, NEW s, MergedTo(es, s), NEW e \in Entry, e.name # None
  PROVE  MergedTo(MergerAdd(es, e), Append(s, e))
<1>1. es \in Seq(Entry) /\ s \in Seq(Entry) BY DEF MergedTo
<1>2. PICK m, n : m = Len(es) /\ n = Len(s) OBVIOUS
<1>3. m \in Nat /\ n \in Nat /\ DOMAIN es = 1..m /\ DOMAIN s = 1..n BY <1>1, <1>2
<1>4. /\ \A i \in 1..m : es[i].name # None
      /\ \A i, j \in 1..m : es[i].name = es[j].name => i = j
      /\ \A i \in 1..m : \E j \in 1..n : IsLast(s, j, es[i])
      /\ \A j \in 1..n : \E i \in 1..m : es[i].name = s[j].name
  BY <1>3 DEF MergedTo
<1>5. PICK t : t = Append(s, e) OBVIOUS
<1>6. /\ t \in Seq(Entry) /\ DOMAIN t = 1..(n + 1) /\ t[n + 1] = e
      /\ \A j \in 1..n : t[j] = s[j]
  BY <1>1, <1>2, <1>3, <1>5
<1>7. PICK fs : fs = MergerAdd(es, e) OBVIOUS
<1>8. PICK kept \in Entry :
        /\ Same(kept, e)
        /\ \/ (\A i \in DOMAIN es : es[i].name # e.name) /\ fs = Append(es, kept)
           \/ \E c \in DOMAIN es : es[c].name = e.name /\ fs = [es EXCEPT ![c] = kept]
  <2>1. \E kept \in Entry :
           /\ Same(kept, e)
           /\ \/ /\ \A i \in DOMAIN es : es[i].name # e.name
                 /\ MergerAdd(es, e) = Append(es, kept)
              \/ \E c \in DOMAIN es : es[c].name = e.name /\ MergerAdd(es, e) = [es EXCEPT ![c] = kept]
    BY <1>1, AddIs
  <2> QED BY <1>7, <2>1
<1>9. kept.name = e.name BY <1>8 DEF Same
<1>10. PICK l \in {m, m + 1}, c \in Nat :
        /\ c \in 1..l
        /\ fs \in Seq(Entry) /\ DOMAIN fs = 1..l /\ l \in Nat
        /\ fs[c] = kept
        /\ \A i \in 1..l : i # c => i \in 1..m /\ fs[i] = es[i] /\ es[i].name # e.name
        /\ \A i \in 1..m : i \in 1..l /\ (i = c => es[i].name = e.name)
  <2>1. CASE (\A i \in DOMAIN es : es[i].name # e.name) /\ fs = Append(es, kept)
    <3>1. fs \in Seq(Entry) /\ DOMAIN fs = 1..(m + 1) /\ fs[m + 1] = kept BY <1>1, <1>2, <1>3, <1>8, <2>1
    <3>2. \A i \in 1..(m + 1) : i # m + 1 => i \in 1..m /\ fs[i] = es[i] /\ es[i].name # e.name BY <1>1, <1>2, <1>3, <2>1
    <3>3. m + 1 \in 1..(m + 1) /\ m + 1 \in Nat /\ \A i \in 1..m : i \in 1..(m + 1) /\ i # m + 1 BY <1>3
    <3> QED BY <3>1, <3>2, <3>3
  <2>2. CASE \E c \in DOMAIN es : es[c].name = e.name /\ fs = [es EXCEPT ![c] = kept]
    <3>1. PICK c \in 1..m : es[c].name = e.name /\ fs = [es EXCEPT ![c] = kept] BY <1>3, <2>2
    <3>2. fs \in Seq(Entry) /\ DOMAIN fs = 1..m /\ fs[c] = kept BY <1>1, <1>3, <1>8, <3>1
    <3>3. \A i \in 1..m : i # c => fs[i] = es[i] /\ es[i].name # e.name BY <1>3, <1>4, <3>1
    <3> QED BY <1>3, <3>1, <3>2, <3>3
  <2> QED BY <1>8, <2>1, <2>2
<1>11. ASSUME NEW i \in 1..l PROVE \E j \in 1..(n + 1) : IsLast(t, j, fs[i])
  <2>1. CASE i = c
    <3>1. IsLast(t, n + 1, kept) BY <1>3, <1>6, <1>8, <1>9 DEF IsLast, Same
    <3>2. n + 1 \in 1..(n + 1) BY <1>3
    <3> QED BY <1>10, <2>1, <3>1, <3>2
  <2>2. CASE i # c
    <3>1. i \in 1..m /\ fs[i] = es[i] /\ es[i].name # e.name BY <1>10, <2>2
    <3>2. PICK j \in 1..n : IsLast(s, j, es[i]) BY <1>4, <3>1
    <3>3. ASSUME NEW k \in 1..(n + 1), t[k].name = es[i].name PROVE k <= j
      <4>1. k # n + 1 BY <1>6, <3>1, <3>3
      <4>2. k \in 1..n /\ t[k] = s[k] BY <1>3, <1>6, <4>1
      <4> QED BY <1>3, <3>2, <3>3, <4>2 DEF IsLast
    <3>4. j \in 1..(n + 1) /\ t[j] = s[j] BY <1>3, <1>6
    <3>5. IsLast(t, j, es[i]) BY <1>6, <3>2, <3>3, <3>4 DEF IsLast
    <3> QED BY <3>1, <3>4, <3>5
  <2> QED BY <2>1, <2>2
<1>12. ASSUME NEW j \in 1..(n + 1) PROVE \E i \in 1..l : fs[i].name = t[j].name
  <2>1. CASE t[j].name = e.name BY <1>9, <1>10, <2>1
  <2>2. CASE t[j].name # e.name
    <3>1. j \in 1..n /\ t[j] = s[j] BY <1>3, <1>6, <2>2
    <3>2. PICK i \in 1..m : es[i].name = s[j].name BY <1>4, <3>1
    <3>3. i \in 1..l /\ i # c BY <1>10, <2>2, <3>1, <3>2
    <3> QED BY <1>10, <3>1, <3>2, <3>3
  <2> QED BY <2>1, <2>2
<1>13. \A i, j \in 1..l : fs[i].name = fs[j].name => i = j BY <1>4, <1>9, <1>10
<1>14. \A i \in 1..l : fs[i].name # None BY <1>4, <1>9, <1>10
<1>15. MergedTo(fs, t) BY <1>6, <1>10, <1>11, <1>12, <1>13, <1>14 DEF MergedTo
<1> QED BY <1>5, <1>7, <1>15

(* The merger, entry by entry. *)
MergeAll(es, s) == FoldLeft(MergerAdd, es, s)

MergeSteps(h, es, s, n) ==
  /\ h[0] = es /\ MergeAll(es, s) = h[n]
  /\ \A k \in 1..n : h[k] = MergerAdd(h[k - 1], s[k])

LEMMA MergeInSteps ==
  ASSUME NEW es \in Seq(Entry), NEW s \in Seq(Entry), NEW n, n = Len(s)
  PROVE  \E h \in [0..n -> Seq(Entry)] : MergeSteps(h, es, s, n)
<1> DEFINE It(G) == [t \in SUBSET DOMAIN s |-> IF t = {} THEN es ELSE MergerAdd(G[t \ {Max(t)}], s[Max(t)])]
<1> DEFINE it == CHOOSE G : G = It(G)
<1>1. n \in Nat /\ DOMAIN s = 1..n /\ \A k \in 1..n : s[k] \in Entry OBVIOUS
<1>2. PICK Y : Y = Seq(Entry) OBVIOUS
<1>3. \A y \in Y, x \in Entry : MergerAdd(y, x) \in Y BY <1>2, AddType
<1>4. PICK g : g = [p \in (1..n) \X Y |-> MergerAdd(p[2], s[p[1]])] OBVIOUS
<1>5. \A k \in 1..n, y \in Y : g[<<k, y>>] = MergerAdd(y, s[k]) BY <1>4
<1>6. IsStep(g, n, Y) /\ es \in Y
  <2>1. \A p \in (1..n) \X Y : MergerAdd(p[2], s[p[1]]) \in Y BY <1>1, <1>3
  <2> QED BY <1>2, <1>4, <2>1 DEF IsStep
<1>7. PICK F : IsFold(F, n, Y, es, g) BY <1>1, <1>6, FoldExists
<1>8. ASSUME NEW t \in SUBSET (1..n), t # {}
      PROVE  F[t] = MergerAdd(F[t \ {Max(t)}], s[Max(t)])
  <2>1. /\ Max(t) \in 1..n /\ F[t \ {Max(t)}] \in Y
        /\ F[t] = g[<<Max(t), F[t \ {Max(t)}]>>]
    BY <1>1, <1>7, <1>8, FoldedSteps
  <2> QED BY <1>5, <2>1
<1>9. F = It(F)
  <2>1. F[{}] = es BY <1>7 DEF Folded, IsFold
  <2>2. F = [t \in SUBSET DOMAIN s |-> F[t]] BY <1>1, <1>7 DEF IsFold
  <2> QED BY <1>1, <1>8, <2>1, <2>2
<1>10. it = It(it) BY <1>9
<1>11. MergeAll(es, s) = it[1..n] BY <1>1 DEF MergeAll, FoldLeft, MapThenFoldSet
<1> HIDE DEF it
<1>12. Iterating(it, n, Y, es, g)
  <2>1. it[{}] = es BY <1>10
  <2>2. ASSUME NEW t \in SUBSET (1..n), t # {}, it[t \ {Max(t)}] \in Y
        PROVE  it[t] = g[<<Max(t), it[t \ {Max(t)}]>>]
    <3>1. Max(t) \in 1..n BY <1>1, <2>2, GreatestIsIn
    <3>2. it[t] = MergerAdd(it[t \ {Max(t)}], s[Max(t)]) BY <1>1, <1>10, <2>2
    <3> QED BY <1>5, <2>2, <3>1, <3>2
  <2> QED BY <2>1, <2>2 DEF Iterating
<1>13. PICK h \in [0..n -> Y] : Steps(h, n, es, g) /\ h[n] = it[1..n]
  <2>1. PICK b : b = es OBVIOUS
  <2>2. b \in Y /\ IsStep(g, n, Y) /\ Iterating(it, n, Y, b, g) BY <1>6, <1>12, <2>1
  <2>3. \E h \in [0..n -> Y] : Steps(h, n, b, g) /\ h[n] = it[1..n] BY <1>1, <2>2, Iterates
  <2> QED BY <2>1, <2>3
<1>14. ASSUME NEW k \in 1..n PROVE h[k] = MergerAdd(h[k - 1], s[k])
  <2>1. k - 1 \in 0..n /\ k \in 0..n BY <1>1
  <2>2. h[k - 1] \in Y BY <1>13, <2>1
  <2> QED BY <1>5, <1>13, <2>2 DEF Steps
<1>15. h[0] = es BY <1>13 DEF Steps
<1> QED BY <1>2, <1>11, <1>13, <1>14, <1>15 DEF MergeSteps

(* The components added so far, and the strings of an image. *)
LEMMA PutIn ==
  ASSUME NEW S, NEW s \in Seq(S), NEW x \in S, NEW c
  PROVE  Append(s, x) \in Seq(S) /\ [s EXCEPT ![c] = x] \in Seq(S)
<1>1. Append(s, x) \in Seq(S) OBVIOUS
<1>2. PICK n : n = Len(s) OBVIOUS
<1>3. n \in Nat /\ s \in [1..n -> S] BY <1>2
<1>4. [s EXCEPT ![c] = x] \in [1..n -> S] BY <1>3
<1>5. [s EXCEPT ![c] = x] \in Seq(S) BY <1>3, <1>4
<1> QED BY <1>1, <1>5

LEMMA AddAppType ==
  ASSUME NEW cs \in Seq(Component), NEW a \in Component PROVE AddApp(cs, a) \in Seq(Component)
<1>1. PICK at : at = {i \in DOMAIN cs : cs[i].name = a.name} OBVIOUS
<1>2. PICK c : c = CHOOSE i \in at : TRUE OBVIOUS
<1>3. AddApp(cs, a) = cs \/ AddApp(cs, a) = Append(cs, a) \/ AddApp(cs, a) = [cs EXCEPT ![c] = a] BY <1>1, <1>2 DEF AddApp
<1>4. PICK S : S = Component OBVIOUS
<1>5. cs \in Seq(S) /\ a \in S BY <1>4
<1>6. Append(cs, a) \in Seq(S) /\ [cs EXCEPT ![c] = a] \in Seq(S) BY <1>5, PutIn
<1> QED BY <1>3, <1>4, <1>6

AddApps(cs, s) == FoldLeft(AddApp, cs, s)

AppsSteps(h, cs, s, n) ==
  /\ h[0] = cs /\ AddApps(cs, s) = h[n]
  /\ \A k \in 1..n : h[k] = AddApp(h[k - 1], s[k])

LEMMA AppsInSteps ==
  ASSUME NEW cs \in Seq(Component), NEW s \in Seq(Component), NEW n, n = Len(s)
  PROVE  \E h \in [0..n -> Seq(Component)] : AppsSteps(h, cs, s, n)
<1> DEFINE It(G) == [t \in SUBSET DOMAIN s |-> IF t = {} THEN cs ELSE AddApp(G[t \ {Max(t)}], s[Max(t)])]
<1> DEFINE it == CHOOSE G : G = It(G)
<1>1. n \in Nat /\ DOMAIN s = 1..n /\ \A k \in 1..n : s[k] \in Component OBVIOUS
<1>2. PICK Y : Y = Seq(Component) OBVIOUS
<1>3. \A y \in Y, x \in Component : AddApp(y, x) \in Y BY <1>2, AddAppType
<1>4. PICK g : g = [p \in (1..n) \X Y |-> AddApp(p[2], s[p[1]])] OBVIOUS
<1>5. \A k \in 1..n, y \in Y : g[<<k, y>>] = AddApp(y, s[k]) BY <1>4
<1>6. IsStep(g, n, Y) /\ cs \in Y
  <2>1. \A p \in (1..n) \X Y : AddApp(p[2], s[p[1]]) \in Y BY <1>1, <1>3
  <2> QED BY <1>2, <1>4, <2>1 DEF IsStep
<1>7. PICK F : IsFold(F, n, Y, cs, g) BY <1>1, <1>6, FoldExists
<1>8. ASSUME NEW t \in SUBSET (1..n), t # {}
      PROVE  F[t] = AddApp(F[t \ {Max(t)}], s[Max(t)])
  <2>1. /\ Max(t) \in 1..n /\ F[t \ {Max(t)}] \in Y
        /\ F[t] = g[<<Max(t), F[t \ {Max(t)}]>>]
    BY <1>1, <1>7, <1>8, FoldedSteps
  <2> QED BY <1>5, <2>1
<1>9. F = It(F)
  <2>1. F[{}] = cs BY <1>7 DEF Folded, IsFold
  <2>2. F = [t \in SUBSET DOMAIN s |-> F[t]] BY <1>1, <1>7 DEF IsFold
  <2> QED BY <1>1, <1>8, <2>1, <2>2
<1>10. it = It(it) BY <1>9
<1>11. AddApps(cs, s) = it[1..n] BY <1>1 DEF AddApps, FoldLeft, MapThenFoldSet
<1> HIDE DEF it
<1>12. Iterating(it, n, Y, cs, g)
  <2>1. it[{}] = cs BY <1>10
  <2>2. ASSUME NEW t \in SUBSET (1..n), t # {}, it[t \ {Max(t)}] \in Y
        PROVE  it[t] = g[<<Max(t), it[t \ {Max(t)}]>>]
    <3>1. Max(t) \in 1..n BY <1>1, <2>2, GreatestIsIn
    <3>2. it[t] = AddApp(it[t \ {Max(t)}], s[Max(t)]) BY <1>1, <1>10, <2>2
    <3> QED BY <1>5, <2>2, <3>1, <3>2
  <2> QED BY <2>1, <2>2 DEF Iterating
<1>13. PICK h \in [0..n -> Y] : Steps(h, n, cs, g) /\ h[n] = it[1..n]
  <2>1. PICK b : b = cs OBVIOUS
  <2>2. b \in Y /\ IsStep(g, n, Y) /\ Iterating(it, n, Y, b, g) BY <1>6, <1>12, <2>1
  <2>3. \E h \in [0..n -> Y] : Steps(h, n, b, g) /\ h[n] = it[1..n] BY <1>1, <2>2, Iterates
  <2> QED BY <2>1, <2>3
<1>14. ASSUME NEW k \in 1..n PROVE h[k] = AddApp(h[k - 1], s[k])
  <2>1. k - 1 \in 0..n /\ k \in 0..n BY <1>1
  <2>2. h[k - 1] \in Y BY <1>13, <2>1
  <2> QED BY <1>5, <1>13, <2>2 DEF Steps
<1>15. h[0] = cs BY <1>13 DEF Steps
<1> QED BY <1>2, <1>11, <1>13, <1>14, <1>15 DEF AppsSteps

LEMMA InternedType ==
  ASSUME NEW table \in Seq(Text), NEW x \in Text PROVE Interned(table, x) \in Seq(Text)
<1>1. Interned(table, x) = table \/ Interned(table, x) = Append(table, x) BY DEF Interned
<1>2. PICK S : S = Text OBVIOUS
<1>3. table \in Seq(S) /\ x \in S BY <1>2
<1>4. Append(table, x) \in Seq(S) BY <1>3, PutIn
<1> QED BY <1>1, <1>2, <1>4

InternAll(table, s) == FoldLeft(Interned, table, s)

TableSteps(h, table, s, n) ==
  /\ h[0] = table /\ InternAll(table, s) = h[n]
  /\ \A k \in 1..n : h[k] = Interned(h[k - 1], s[k])

LEMMA TableInSteps ==
  ASSUME NEW table \in Seq(Text), NEW s \in Seq(Text), NEW n, n = Len(s)
  PROVE  \E h \in [0..n -> Seq(Text)] : TableSteps(h, table, s, n)
<1> DEFINE It(G) == [t \in SUBSET DOMAIN s |-> IF t = {} THEN table ELSE Interned(G[t \ {Max(t)}], s[Max(t)])]
<1> DEFINE it == CHOOSE G : G = It(G)
<1>1. n \in Nat /\ DOMAIN s = 1..n /\ \A k \in 1..n : s[k] \in Text OBVIOUS
<1>2. PICK Y : Y = Seq(Text) OBVIOUS
<1>3. \A y \in Y, x \in Text : Interned(y, x) \in Y BY <1>2, InternedType
<1>4. PICK g : g = [p \in (1..n) \X Y |-> Interned(p[2], s[p[1]])] OBVIOUS
<1>5. \A k \in 1..n, y \in Y : g[<<k, y>>] = Interned(y, s[k]) BY <1>4
<1>6. IsStep(g, n, Y) /\ table \in Y
  <2>1. \A p \in (1..n) \X Y : Interned(p[2], s[p[1]]) \in Y BY <1>1, <1>3
  <2> QED BY <1>2, <1>4, <2>1 DEF IsStep
<1>7. PICK F : IsFold(F, n, Y, table, g) BY <1>1, <1>6, FoldExists
<1>8. ASSUME NEW t \in SUBSET (1..n), t # {}
      PROVE  F[t] = Interned(F[t \ {Max(t)}], s[Max(t)])
  <2>1. /\ Max(t) \in 1..n /\ F[t \ {Max(t)}] \in Y
        /\ F[t] = g[<<Max(t), F[t \ {Max(t)}]>>]
    BY <1>1, <1>7, <1>8, FoldedSteps
  <2> QED BY <1>5, <2>1
<1>9. F = It(F)
  <2>1. F[{}] = table BY <1>7 DEF Folded, IsFold
  <2>2. F = [t \in SUBSET DOMAIN s |-> F[t]] BY <1>1, <1>7 DEF IsFold
  <2> QED BY <1>1, <1>8, <2>1, <2>2
<1>10. it = It(it) BY <1>9
<1>11. InternAll(table, s) = it[1..n] BY <1>1 DEF InternAll, FoldLeft, MapThenFoldSet
<1> HIDE DEF it
<1>12. Iterating(it, n, Y, table, g)
  <2>1. it[{}] = table BY <1>10
  <2>2. ASSUME NEW t \in SUBSET (1..n), t # {}, it[t \ {Max(t)}] \in Y
        PROVE  it[t] = g[<<Max(t), it[t \ {Max(t)}]>>]
    <3>1. Max(t) \in 1..n BY <1>1, <2>2, GreatestIsIn
    <3>2. it[t] = Interned(it[t \ {Max(t)}], s[Max(t)]) BY <1>1, <1>10, <2>2
    <3> QED BY <1>5, <2>2, <3>1, <3>2
  <2> QED BY <2>1, <2>2 DEF Iterating
<1>13. PICK h \in [0..n -> Y] : Steps(h, n, table, g) /\ h[n] = it[1..n]
  <2>1. PICK b : b = table OBVIOUS
  <2>2. b \in Y /\ IsStep(g, n, Y) /\ Iterating(it, n, Y, b, g) BY <1>6, <1>12, <2>1
  <2>3. \E h \in [0..n -> Y] : Steps(h, n, b, g) /\ h[n] = it[1..n] BY <1>1, <2>2, Iterates
  <2> QED BY <2>1, <2>3
<1>14. ASSUME NEW k \in 1..n PROVE h[k] = Interned(h[k - 1], s[k])
  <2>1. k - 1 \in 0..n /\ k \in 0..n BY <1>1
  <2>2. h[k - 1] \in Y BY <1>13, <2>1
  <2> QED BY <1>5, <1>13, <2>2 DEF Steps
<1>15. h[0] = table BY <1>13 DEF Steps
<1> QED BY <1>2, <1>11, <1>13, <1>14, <1>15 DEF TableSteps

-----------------------------------------------------------------------------
(* A list, merged.                                                         *)

LEMMA EmptyIn == ASSUME NEW S PROVE <<>> \in Seq(S)
OBVIOUS

LEMMA OneMoreOf ==
  ASSUME NEW S, NEW s \in Seq(S), NEW l \in Seq(S), NEW k \in 1..Len(l)
  PROVE  s \o SubSeq(l, 1, k) = Append(s \o SubSeq(l, 1, k - 1), l[k])
<1>1. PICK n, m : n = Len(s) /\ m = Len(l) OBVIOUS
<1>2. n \in Nat /\ m \in Nat /\ k \in Nat /\ k >= 1 /\ k <= m BY <1>1
<1>3. PICK a, b : a = SubSeq(l, 1, k) /\ b = SubSeq(l, 1, k - 1) OBVIOUS
<1>4. a \in Seq(S) /\ Len(a) = k /\ \A i \in 1..k : a[i] = l[i] BY <1>1, <1>2, <1>3
<1>5. b \in Seq(S) /\ Len(b) = k - 1 /\ \A i \in 1..(k - 1) : b[i] = l[i] BY <1>1, <1>2, <1>3
<1>6. l[k] \in S BY <1>1, <1>2
<1>7. PICK p, q : p = s \o a /\ q = Append(s \o b, l[k]) OBVIOUS
<1>8. p \in Seq(S) /\ Len(p) = n + k /\ \A i \in 1..(n + k) : p[i] = IF i <= n THEN s[i] ELSE a[i - n]
  <2>1. s \o a \in Seq(S) /\ Len(s \o a) = n + k BY <1>1, <1>4
  <2>2. \A i \in 1..(n + k) : (s \o a)[i] = IF i <= n THEN s[i] ELSE a[i - n] BY <1>1, <1>2, <1>4
  <2> QED BY <1>7, <2>1, <2>2
<1>9. q \in Seq(S) /\ Len(q) = n + k /\ \A i \in 1..(n + k) : q[i] = IF i <= n THEN s[i] ELSE IF i < n + k THEN b[i - n] ELSE l[k]
  <2>1. PICK c : c = s \o b OBVIOUS
  <2>2. c \in Seq(S) /\ Len(c) = n + (k - 1)
    <3>2. b \in Seq(S) BY <1>5
    <3>1. Len(s \o b) = Len(s) + Len(b) /\ s \o b \in Seq(S) BY <3>2
    <3> QED BY <1>1, <1>5, <2>1, <3>1
  <2>3. \A i \in 1..(n + (k - 1)) : c[i] = IF i <= n THEN s[i] ELSE b[i - n] BY <1>1, <1>2, <1>5, <2>1
  <2>4. q = Append(c, l[k]) BY <1>7, <2>1
  <2>5. q \in Seq(S) /\ Len(q) = n + k BY <1>2, <1>6, <2>2, <2>4
  <2>6. \A i \in 1..(n + k) : q[i] = IF i < n + k THEN c[i] ELSE l[k] BY <1>2, <1>6, <2>2, <2>4
  <2>7. \A i \in 1..(n + k) : i < n + k => i \in 1..(n + (k - 1)) BY <1>2
  <2>8. \A i \in 1..(n + k) : ~(i < n + k) => ~(i <= n) BY <1>2
  <2>9. ASSUME NEW i \in 1..(n + k) PROVE q[i] = IF i <= n THEN s[i] ELSE IF i < n + k THEN b[i - n] ELSE l[k]
    <3>1. CASE i < n + k BY <2>3, <2>6, <2>7, <3>1
    <3>2. CASE ~(i < n + k) BY <2>6, <2>8, <3>2
    <3> QED BY <3>1, <3>2
  <2> QED BY <2>5, <2>9
<1>10. ASSUME NEW i \in 1..(n + k) PROVE p[i] = q[i]
  <2>1. CASE i <= n BY <1>8, <1>9, <2>1
  <2>2. CASE i > n /\ i < n + k
    <3>1. i - n \in 1..(k - 1) /\ i - n \in 1..k /\ ~(i <= n) BY <1>2, <2>2
    <3> QED BY <1>4, <1>5, <1>8, <1>9, <2>2, <3>1
  <2>3. CASE i = n + k
    <3>1. i - n = k /\ k \in 1..k /\ ~(i <= n) /\ ~(i < n + k) BY <1>2, <2>3
    <3> QED BY <1>4, <1>8, <1>9, <2>3, <3>1
  <2> QED BY <1>2, <2>1, <2>2, <2>3
<1>11. p = q BY <1>2, <1>8, <1>9, <1>10
<1> QED BY <1>3, <1>7, <1>11

LEMMA FromListAre ==
  ASSUME NEW r \in DOMAIN Published
  PROVE  FromList(r) \in Seq(Entry) /\ \A i \in DOMAIN FromList(r) : FromList(r)[i].name # None
<1>1. Published[r] \in Seq(Listed) BY ArchivesAssumption
<1>2. PICK pub : pub = Published[r] OBVIOUS
<1>3. PICK ps : ps = Readable(pub) OBVIOUS
<1>4. PICK L : L = Listed OBVIOUS
<1>5. ps \in Seq(L) /\ \A k \in DOMAIN ps : ps[k].name # None
  <2>1. pub \in Seq(L) BY <1>1, <1>2, <1>4
  <2> QED BY <1>3, <2>1, ReadableAre
<1>6. PICK n \in Nat : DOMAIN ps = 1..n /\ \A i \in 1..n : ps[i] \in L
  <2>1. PICK n : n = Len(ps) OBVIOUS
  <2> QED BY <1>5, <2>1
<1>7. PICK fl : fl = FromList(r) OBVIOUS
<1>8. fl = [i \in 1..n |-> [name |-> ps[i].name, from |-> <<r, i>>, section |-> ps[i].section, desc |-> ps[i].desc,
                            type |-> "", cats |-> <<>>]]
  BY <1>2, <1>3, <1>6, <1>7 DEF FromList
<1>9. ASSUME NEW i \in 1..n PROVE fl[i] \in Entry /\ fl[i].name = ps[i].name
  <2>1. ps[i].name \in Nat /\ ps[i].section \in STRING /\ ps[i].desc \in Nat BY <1>4, <1>6 DEF Listed
  <2>2. i \in Nat /\ <<>> \in Seq(Text) BY <1>6, EmptyIn
  <2>3. "" \in Text /\ ps[i].section \in Text BY <2>1 DEF Text
  <2> QED BY <1>8, <2>1, <2>2, <2>3 DEF Entry
<1>10. PICK E : E = Entry OBVIOUS
<1>11. fl \in [1..n -> E] BY <1>8, <1>9, <1>10
<1>12. fl \in Seq(E) BY <1>6, <1>11
<1> QED BY <1>5, <1>6, <1>7, <1>8, <1>9, <1>10, <1>12

LEMMA MergeKeeps ==
  ASSUME NEW es, NEW s, MergedTo(es, s), NEW l \in Seq(Entry), \A i \in DOMAIN l : l[i].name # None
  PROVE  MergedTo(MergeAll(es, l), s \o l)
<1>1. es \in Seq(Entry) /\ s \in Seq(Entry) BY DEF MergedTo
<1>2. PICK E : E = Entry OBVIOUS
<1>3. es \in Seq(E) /\ s \in Seq(E) /\ l \in Seq(E) BY <1>1, <1>2
<1>4. PICK n : n = Len(l) OBVIOUS
<1>5. n \in Nat /\ DOMAIN l = 1..n BY <1>3, <1>4
<1>6. PICK h : MergeSteps(h, es, l, n) BY <1>1, <1>4, MergeInSteps
<1>7. PICK A : A = {k \in 0..n : MergedTo(h[k], s \o SubSeq(l, 1, k))} OBVIOUS
<1>8. 0 \in A
  <2>1. PICK p : p = s \o SubSeq(l, 1, 0) OBVIOUS
  <2>2. p = s BY <1>3, <2>1
  <2>3. MergedTo(h[0], p) /\ 0 \in 0..n BY <1>5, <1>6, <2>2 DEF MergeSteps
  <2> QED BY <1>7, <2>1, <2>3
<1>9. ASSUME NEW k \in 1..n, k - 1 \in A PROVE k \in A
  <2>1. PICK j : j = k - 1 OBVIOUS
  <2>2. PICK p : p = s \o SubSeq(l, 1, j) OBVIOUS
  <2>3. MergedTo(h[j], p) BY <1>7, <1>9, <2>1, <2>2
  <2>4. k \in DOMAIN l BY <1>5
  <2>8. l[k] \in Entry /\ l[k].name # None BY <1>2, <1>3, <2>4
  <2>5. MergedTo(MergerAdd(h[j], l[k]), Append(p, l[k])) BY <2>3, <2>8, AddKeeps
  <2>6. s \o SubSeq(l, 1, k) = Append(p, l[k]) BY <1>3, <1>4, <2>1, <2>2, OneMoreOf
  <2>7. h[k] = MergerAdd(h[j], l[k]) /\ k \in 0..n BY <1>5, <1>6, <2>1 DEF MergeSteps
  <2> QED BY <1>7, <2>5, <2>6, <2>7
<1>10. 0..n \subseteq A BY <1>5, <1>8, <1>9, AllReached
<1>11. n \in A BY <1>5, <1>10
<1>12. SubSeq(l, 1, n) = l BY <1>3, <1>4, <1>5
<1> QED BY <1>6, <1>7, <1>11, <1>12 DEF MergeSteps

LEMMA AppsAre ==
  ASSUME NEW cs \in Seq(Component), NEW s \in Seq(Component) PROVE AddApps(cs, s) \in Seq(Component)
<1>1. PICK n : n = Len(s) OBVIOUS
<1>2. n \in 0..n BY <1>1
<1>3. PICK h \in [0..n -> Seq(Component)] : AppsSteps(h, cs, s, n) BY <1>1, AppsInSteps
<1> QED BY <1>2, <1>3 DEF AppsSteps

LEMMA AppliedIs ==
  ASSUME apps \in Seq(Component), NEW e \in Entry PROVE Applied(e) \in Entry /\ Same(Applied(e), e)
<1>1. PICK at : at = {i \in DOMAIN apps : apps[i].name = e.name} OBVIOUS
<1>2. CASE at = {}
  <2>1. Applied(e) = e BY <1>1, <1>2 DEF Applied
  <2> QED BY <2>1 DEF Same
<1>3. CASE at # {}
  <2>1. PICK a : a = apps[CHOOSE i \in at : TRUE] OBVIOUS
  <2>2. a \in Component BY <1>1, <1>3, <2>1
  <2>5. a.type \in STRING /\ a.cats \in Seq(STRING) BY <2>2 DEF Component
  <2>3. a.type \in Text /\ a.cats \in Seq(Text)
    <3>1. PICK c, S : c = a.cats /\ S = STRING OBVIOUS
    <3>2. c \in Seq(S) BY <2>5, <3>1
    <3>3. PICK n : n = Len(c) OBVIOUS
    <3>4. n \in Nat /\ c \in [1..n -> S] BY <3>2, <3>3
    <3>5. c \in [1..n -> Text] BY <3>1, <3>4 DEF Text
    <3>6. c \in Seq(Text) BY <3>4, <3>5
    <3> QED BY <2>5, <3>1, <3>6 DEF Text
  <2>4. Applied(e) = [e EXCEPT !.type = a.type, !.cats = a.cats] BY <1>1, <1>3, <2>1 DEF Applied
  <2> QED BY <2>3, <2>4 DEF Entry, Same
<1> QED BY <1>2, <1>3

(* A list that says the same, entry for entry, is merged from the same stanzas. *)
LEMMA SameKeeps ==
  ASSUME NEW es, NEW s, MergedTo(es, s), NEW fs \in Seq(Entry), DOMAIN fs = DOMAIN es,
         \A i \in DOMAIN es : Same(fs[i], es[i])
  PROVE  MergedTo(fs, s)
<1>1. \A i \in DOMAIN es : fs[i].name = es[i].name BY DEF Same
<1>2. ASSUME NEW i \in DOMAIN es, NEW j \in DOMAIN s, IsLast(s, j, es[i]) PROVE IsLast(s, j, fs[i])
  BY <1>2 DEF IsLast, Same
<1>3. \A i \in DOMAIN fs : \E j \in DOMAIN s : IsLast(s, j, fs[i]) BY <1>2 DEF MergedTo
<1>4. (\A i \in DOMAIN fs : fs[i].name # None) /\ \A i, j \in DOMAIN fs : fs[i].name = fs[j].name => i = j
  BY <1>1 DEF MergedTo
<1>5. \A j \in DOMAIN s : \E i \in DOMAIN fs : fs[i].name = s[j].name
  <2>1. \A j \in DOMAIN s : \E i \in DOMAIN es : es[i].name = s[j].name BY DEF MergedTo
  <2> QED BY <1>1, <2>1
<1>6. s \in Seq(Entry) BY DEF MergedTo
<1> QED BY <1>3, <1>4, <1>5, <1>6 DEF MergedTo

-----------------------------------------------------------------------------
(***************************************************************************)
(* The image and the index                                                 *)
(***************************************************************************)

LEMMA SortedUniqueKeeps ==
  ASSUME NEW es, NEW s, MergedTo(es, s) PROVE MergedTo(SortedUnique(es), s)
<1>1. PICK E : E = Entry OBVIOUS
<1>2. es \in Seq(E) BY <1>1 DEF MergedTo
<1>3. PICK m : m = Len(es) OBVIOUS
<1>4. m \in Nat /\ DOMAIN es = 1..m /\ \A i \in 1..m : es[i] \in E BY <1>2, <1>3
<1>5. /\ \A i \in 1..m : es[i].name # None
      /\ \A i, j \in 1..m : es[i].name = es[j].name => i = j
      /\ \A i \in 1..m : \E j \in DOMAIN s : IsLast(s, j, es[i])
      /\ \A j \in DOMAIN s : \E i \in 1..m : es[i].name = s[j].name
      /\ s \in Seq(Entry)
  BY <1>4 DEF MergedTo
<1>6. \A i \in 1..m : es[i].name \in Nat BY <1>1, <1>4 DEF Entry
<1>7. PICK S : S = {i \in DOMAIN es : es[i].name # None /\ \A j \in DOMAIN es : es[j].name = es[i].name => j <= i} OBVIOUS
<1>8. S = 1..m
  <2>1. ASSUME NEW i \in 1..m, NEW j \in 1..m, es[j].name = es[i].name PROVE j <= i
    <3>1. j = i BY <1>5, <2>1
    <3> QED BY <1>4, <3>1
  <2> QED BY <1>4, <1>5, <1>7, <2>1
<1>9. PICK R : R = {p \in S \X S : es[p[1]].name < es[p[2]].name} OBVIOUS
<1>10. \A x, y \in S : <<x, y>> \in R <=> es[x].name < es[y].name BY <1>9
<1>11. Orders(R, S)
  <2>1. PICK v : v = [x \in S |-> es[x].name] OBVIOUS
  <2>2. (\A x \in S : v[x] \in Nat) /\ (\A x, y \in S : v[x] = v[y] => x = y) BY <1>5, <1>6, <1>8, <2>1
  <2>3. \A x, y \in S : <<x, y>> \in R <=> v[x] < v[y] BY <1>10, <2>1
  <2>4. \A x \in S : <<x, x>> \notin R BY <2>2, <2>3
  <2>5. \A x, y \in S : x # y => <<x, y>> \in R \/ <<y, x>> \in R BY <2>2, <2>3
  <2>6. \A x, y, z \in S : <<x, y>> \in R /\ <<y, z>> \in R => <<x, z>> \in R BY <2>2, <2>3
  <2> QED BY <2>4, <2>5, <2>6 DEF Orders
<1>12. PICK order : order = [k \in 1..Cardinality(S) |-> CHOOSE x \in S : Cardinality({y \in S : es[y].name < es[x].name}) = k - 1]
  OBVIOUS
<1>13. Ranked(order, S, R)
  <2>1. \A x \in S : {y \in S : es[y].name < es[x].name} = {y \in S : <<y, x>> \in R} BY <1>10
  <2>2. ASSUME NEW k \in 1..Cardinality(S)
        PROVE  order[k] = CHOOSE x \in S : Cardinality({y \in S : <<y, x>> \in R}) = k - 1
    <3>1. order[k] = CHOOSE x \in S : Cardinality({y \in S : es[y].name < es[x].name}) = k - 1 BY <1>12
    <3>2. \A x \in S : Cardinality({y \in S : es[y].name < es[x].name}) = k - 1 <=> Cardinality({y \in S : <<y, x>> \in R}) = k - 1 BY <2>1
    <3> QED BY <3>1, <3>2
  <2>3. order = [k \in 1..Cardinality(S) |-> order[k]]
    <3> DEFINE th(k) == CHOOSE x \in S : Cardinality({y \in S : es[y].name < es[x].name}) = k - 1
    <3>1. order = [k \in 1..Cardinality(S) |-> th(k)] BY <1>12
    <3> HIDE DEF th
    <3> QED BY <3>1
  <2> QED BY <2>2, <2>3 DEF Ranked
<1>14. PICK fs : fs = SortedUnique(es) OBVIOUS
<1>15. fs = [k \in DOMAIN order |-> es[order[k]]] BY <1>7, <1>12, <1>14 DEF SortedUnique, Sorted
<1>16. IsFiniteSet(S) /\ Cardinality(S) = m BY <1>4, <1>8, FS_Interval
<1>17. /\ order \in [1..m -> S] /\ \A x \in S : \E k \in 1..m : order[k] = x
       /\ \A i, j \in 1..m : i < j => <<order[i], order[j]>> \in R
  BY <1>11, <1>13, <1>16, PlacesAre
<1>18. \A k \in 1..m : order[k] \in 1..m /\ fs[k] = es[order[k]] BY <1>8, <1>15, <1>17
<1>19. fs \in Seq(Entry) /\ DOMAIN fs = 1..m
  <2>1. fs \in [1..m -> E] BY <1>4, <1>15, <1>17, <1>18
  <2>2. fs \in Seq(E) BY <1>4, <2>1
  <2> QED BY <1>1, <2>1, <2>2
<1>20. ASSUME NEW i \in 1..m, NEW j \in 1..m, fs[i].name = fs[j].name PROVE i = j
  <2>1. order[i] = order[j]
    <3>1. PICK x, y : x = order[i] /\ y = order[j] OBVIOUS
    <3>2. x \in 1..m /\ y \in 1..m /\ fs[i] = es[x] /\ fs[j] = es[y] BY <1>18, <3>1
    <3>3. es[x].name = es[y].name BY <1>20, <3>2
    <3>4. x = y BY <1>5, <3>2, <3>3
    <3> QED BY <3>1, <3>4
  <2>2. <<order[i], order[j]>> \notin R /\ <<order[j], order[i]>> \notin R BY <1>11, <1>17, <2>1 DEF Orders
  <2>3. ~(i < j) /\ ~(j < i) BY <1>17, <2>2
  <2> QED BY <1>4, <2>3
<1>21. \A j \in DOMAIN s : \E i \in 1..m : fs[i].name = s[j].name
  <2>1. ASSUME NEW j \in DOMAIN s PROVE \E i \in 1..m : fs[i].name = s[j].name
    <3>1. PICK x \in 1..m : es[x].name = s[j].name BY <1>5
    <3>2. PICK i \in 1..m : order[i] = x BY <1>8, <1>17
    <3> QED BY <1>18, <3>1, <3>2
  <2> QED BY <2>1
<1>22. ASSUME NEW i \in 1..m PROVE fs[i].name # None /\ \E j \in DOMAIN s : IsLast(s, j, fs[i])
  <2>1. PICK x : x = order[i] OBVIOUS
  <2>2. x \in 1..m /\ fs[i] = es[x] BY <1>18, <2>1
  <2> QED BY <1>5, <2>2
<1> QED BY <1>5, <1>14, <1>19, <1>20, <1>21, <1>22 DEF MergedTo

(* Each string of the entries is numbered.                                 *)
LEMMA AllNumbered ==
  ASSUME NEW s \in Seq(Text), NEW b \in Seq(Text)
  PROVE  \A j \in DOMAIN s : \E i \in DOMAIN InternAll(b, s) : InternAll(b, s)[i] = s[j]
<1>1. PICK T : T = Text OBVIOUS
<1>2. PICK n : n = Len(s) OBVIOUS
<1>3. s \in Seq(T) BY <1>1
<1>4. n \in Nat /\ DOMAIN s = 1..n /\ \A k \in 1..n : s[k] \in T BY <1>2, <1>3
<1>7. PICK h \in [0..n -> Seq(Text)] : TableSteps(h, b, s, n) BY <1>2, TableInSteps
<1>8. PICK A : A = {k \in 0..n : \A j \in 1..k : \E i \in DOMAIN h[k] : h[k][i] = s[j]} OBVIOUS
<1>9. 0 \in A BY <1>4, <1>8
<1>10. ASSUME NEW k \in 1..n, k - 1 \in A PROVE k \in A
  <2>1. PICK p, q : p = h[k - 1] /\ q = h[k] OBVIOUS
  <2>2. k - 1 \in 0..n /\ k \in 0..n BY <1>4
  <2>3. p \in Seq(T) /\ q = Interned(p, s[k]) BY <1>1, <1>7, <2>1, <2>2 DEF TableSteps
  <2>4. \A j \in 1..(k - 1) : \E i \in DOMAIN p : p[i] = s[j] BY <1>8, <1>10, <2>1
  <2>5. (\A i \in DOMAIN p : i \in DOMAIN q /\ q[i] = p[i]) /\ \E i \in DOMAIN q : q[i] = s[k]
    <3>1. CASE \E i \in DOMAIN p : p[i] = s[k] BY <2>3, <3>1 DEF Interned
    <3>2. CASE ~\E i \in DOMAIN p : p[i] = s[k]
      <4>1. q = Append(p, s[k]) BY <2>3, <3>2 DEF Interned
      <4>2. PICK x, l : x = s[k] /\ l = Len(p) OBVIOUS
      <4>3. l \in Nat /\ DOMAIN p = 1..l BY <2>3, <4>2
      <4>4. DOMAIN q = 1..(l + 1) /\ q[l + 1] = x /\ \A i \in 1..l : q[i] = p[i] BY <2>3, <4>1, <4>2
      <4> QED BY <4>2, <4>3, <4>4
    <3> QED BY <3>1, <3>2
  <2>6. ASSUME NEW j \in 1..k PROVE \E i \in DOMAIN q : q[i] = s[j]
    <3>1. CASE j = k BY <2>5, <3>1
    <3>2. CASE j # k
      <4>1. j \in 1..(k - 1) BY <3>2
      <4> QED BY <2>4, <2>5, <4>1
    <3> QED BY <3>1, <3>2
  <2> QED BY <1>8, <2>1, <2>2, <2>6
<1>11. 0..n \subseteq A BY <1>4, <1>9, <1>10, AllReached
<1>12. n \in A BY <1>4, <1>11
<1> QED BY <1>4, <1>7, <1>8, <1>12 DEF TableSteps

(* What is flattened has each element of each sequence.                    *)
LEMMA FlattenHas ==
  ASSUME NEW S, NEW seqs \in Seq(Seq(S)), NEW i \in DOMAIN seqs, NEW x, \E j \in DOMAIN seqs[i] : seqs[i][j] = x
  PROVE  \E k \in DOMAIN FlattenSeq(seqs) : FlattenSeq(seqs)[k] = x
<1>1. PICK n : n = Len(seqs) OBVIOUS
<1>2. n \in Nat /\ DOMAIN seqs = 1..n /\ i \in 1..n /\ n \in 1..n /\ n # 0 BY <1>1
<1>3. PICK g \in [1..n -> Seq(S)] : Joined(seqs, g) /\ FlattenSeq(seqs) = g[n] BY <1>1, <1>2, FlattenIsJoined
<1>4. PICK A : A = {k \in 0..n : k < i \/ \E j \in DOMAIN g[k] : g[k][j] = x} OBVIOUS
<1>5. 0 \in A BY <1>2, <1>4
<1>6. ASSUME NEW k \in 1..n, k - 1 \in A PROVE k \in A
  <2>1. CASE k < i BY <1>2, <1>4, <2>1
  <2>2. CASE ~(k < i)
    <3>1. CASE k = 1
      <4>1. k = i BY <1>2, <2>2, <3>1
      <4>2. g[k] = seqs[k] BY <1>2, <1>3, <3>1 DEF Joined
      <4> QED BY <1>2, <1>4, <4>1, <4>2
    <3>2. CASE k # 1
      <4>1. k - 1 \in 1..n /\ k \in 0..n BY <1>2, <3>2
      <4>2. PICK p, q, r : p = g[k - 1] /\ q = seqs[k] /\ r = g[k] OBVIOUS
      <4>9. g[k] = g[k - 1] \o seqs[k] BY <1>3, <3>2 DEF Joined
      <4>10. p \in Seq(S) /\ q \in Seq(S) /\ r = p \o q
        <5>1. seqs[k] \in Seq(S) BY <1>2
        <5>2. g[k - 1] \in Seq(S) BY <1>3, <4>1
        <5> QED BY <4>2, <4>9, <5>1, <5>2
      <4>3. p \in Seq(S) /\ q \in Seq(S) /\ r = p \o q BY <4>10
      <4>4. PICK a, b : a = Len(p) /\ b = Len(q) OBVIOUS
      <4>5. a \in Nat /\ b \in Nat /\ DOMAIN p = 1..a /\ DOMAIN q = 1..b BY <4>3, <4>4
      <4>6. DOMAIN r = 1..(a + b) /\ \A j \in 1..(a + b) : r[j] = IF j <= a THEN p[j] ELSE q[j - a] BY <4>3, <4>4, <4>5
      <4>7. CASE k = i
        <5>1. PICK j \in 1..b : q[j] = x BY <4>2, <4>5, <4>7
        <5>2. a + j \in 1..(a + b) /\ ~(a + j <= a) /\ (a + j) - a = j BY <4>5
        <5>3. r[a + j] = x BY <4>6, <5>1, <5>2
        <5> QED BY <1>4, <4>1, <4>2, <4>6, <5>2, <5>3
      <4>8. CASE k # i
        <5>1. ~(k - 1 < i) BY <1>2, <2>2, <4>8
        <5>2. PICK j \in 1..a : p[j] = x BY <1>4, <1>6, <4>2, <4>5, <5>1
        <5>3. j \in 1..(a + b) /\ j <= a BY <4>5
        <5>4. r[j] = x BY <4>6, <5>2, <5>3
        <5> QED BY <1>4, <4>1, <4>2, <4>6, <5>3, <5>4
      <4> QED BY <4>7, <4>8
    <3> QED BY <3>1, <3>2
  <2> QED BY <2>1, <2>2
<1>7. 0..n \subseteq A BY <1>2, <1>5, <1>6, AllReached
<1>8. n \in A /\ ~(n < i) BY <1>2, <1>7
<1> QED BY <1>3, <1>4, <1>8

(* The image says of each entry what the entry says.                       *)
StringsOf(es) == FlattenSeq([i \in DOMAIN es |-> Strings(es[i])])
TableOf(es) == InternAll(<<"">>, StringsOf(es))
RecordOf(table, e) ==
  [name |-> e.name, from |-> e.from, type |-> e.type, desc |-> e.desc, section |-> IdOf(table, e.section),
   cats |-> [c \in DOMAIN e.cats |-> IdOf(table, e.cats[c])]]

LEMMA ImageIs ==
  ASSUME NEW es
  PROVE  /\ BuildImage(es).table = TableOf(es)
         /\ BuildImage(es).records = [i \in DOMAIN es |-> RecordOf(TableOf(es), es[i])]
  BY DEF BuildImage, TableOf, StringsOf, InternAll, RecordOf

LEMMA NumberedIsRead ==
  ASSUME NEW img, NEW s, \E i \in DOMAIN img.table : img.table[i] = s
  PROVE  StringAt(img, IdOf(img.table, s)) = s
<1>1. PICK id : id = IdOf(img.table, s) OBVIOUS
<1>2. id \in DOMAIN img.table /\ img.table[id] = s BY <1>1 DEF IdOf
<1>3. StringAt(img, id) = img.table[id] BY <1>2, Zenon DEF StringAt
<1> QED BY <1>1, <1>2, <1>3

LEMMA SectionIsString ==
  ASSUME NEW es \in Seq(Entry), NEW i \in DOMAIN es
  PROVE  /\ StringsOf(es) \in Seq(Text)
         /\ \E k \in DOMAIN StringsOf(es) : StringsOf(es)[k] = es[i].section
<1>1. PICK E, T : E = Entry /\ T = Text OBVIOUS
<1>2. PICK n : n = Len(es) OBVIOUS
<1>3. es \in Seq(E) BY <1>1
<1>4. n \in Nat /\ DOMAIN es = 1..n /\ i \in 1..n /\ \A k \in 1..n : es[k] \in E BY <1>2, <1>3
<1>5. PICK seqs : seqs = [k \in 1..n |-> Strings(es[k])] OBVIOUS
<1>6. ASSUME NEW k \in 1..n
      PROVE  seqs[k] \in Seq(T) /\ 1 \in DOMAIN seqs[k] /\ seqs[k][1] = es[k].section
  <2>1. PICK a, cats : a = es[k].section /\ cats = es[k].cats OBVIOUS
  <2>2. es[k] \in Entry BY <1>1, <1>4
  <2>3. a \in T /\ cats \in Seq(T) BY <1>1, <2>1, <2>2 DEF Entry
  <2>4. seqs[k] = <<a>> \o cats BY <1>5, <2>1 DEF Strings
  <2>5. PICK m : m = Len(cats) OBVIOUS
  <2>6. m \in Nat BY <2>3, <2>5
  <2>7. <<a>> \in Seq(T) /\ Len(<<a>>) = 1 BY <2>3
  <2>8. <<a>> \o cats \in Seq(T) /\ Len(<<a>> \o cats) = 1 + m BY <2>3, <2>5, <2>7
  <2>9. (<<a>> \o cats)[1] = a BY <2>3, <2>5, <2>6, <2>7
  <2>10. 1 \in DOMAIN (<<a>> \o cats) BY <2>6, <2>8
  <2> QED BY <2>1, <2>4, <2>8, <2>9, <2>10
<1>7. seqs \in [1..n -> Seq(T)] BY <1>5, <1>6
<1>8. seqs \in Seq(Seq(T)) /\ i \in DOMAIN seqs BY <1>4, <1>7
<1>9. StringsOf(es) = FlattenSeq(seqs) BY <1>4, <1>5 DEF StringsOf
<1>10. FlattenSeq(seqs) \in Seq(T) BY <1>8, FlattenAre
<1>11. PICK x : x = es[i].section OBVIOUS
<1>12. \E j \in DOMAIN seqs[i] : seqs[i][j] = x BY <1>4, <1>6, <1>11
<1>13. \E k \in DOMAIN FlattenSeq(seqs) : FlattenSeq(seqs)[k] = x BY <1>8, <1>12, FlattenHas
<1> QED BY <1>1, <1>9, <1>10, <1>11, <1>13

LEMMA DecodedIs ==
  ASSUME NEW es \in Seq(Entry), NEW d, d = Decode(BuildImage(es))
  PROVE  DOMAIN d = DOMAIN es /\ \A i \in DOMAIN es : Same(d[i], es[i])
<1>1. PICK img : img = BuildImage(es) OBVIOUS
<1>2. PICK table : table = TableOf(es) OBVIOUS
<1>3. img.table = table /\ img.records = [i \in DOMAIN es |-> RecordOf(table, es[i])] BY <1>1, <1>2, ImageIs
<1>4. DOMAIN d = DOMAIN es /\ \A i \in DOMAIN es : d[i] = EntryAt(img, i) BY <1>1, <1>3 DEF Decode
<1>5. ASSUME NEW i \in DOMAIN es PROVE Same(EntryAt(img, i), es[i])
  <2>1. PICK s : s = StringsOf(es) OBVIOUS
  <2>2. s \in Seq(Text) /\ \E k \in DOMAIN s : s[k] = es[i].section BY <2>1, SectionIsString
  <2>3. PICK b : b = <<"">> OBVIOUS
  <2>4. table = InternAll(b, s)
    BY <1>2, <2>1, <2>3, Zenon DEF TableOf
  <2>5. b \in Seq(Text)
    <3>1. PICK e : e = "" OBVIOUS
    <3>2. e \in Text BY <3>1, Zenon DEF Text
    <3>3. b = <<e>> BY <2>3, <3>1, Zenon
    <3>4. PICK T : T = Text OBVIOUS
    <3>5. <<e>> \in Seq(T) BY <3>2, <3>4
    <3> QED BY <3>3, <3>4, <3>5
  <2>6. \E k \in DOMAIN table : table[k] = es[i].section BY <2>2, <2>4, <2>5, AllNumbered
  <2>7. StringAt(img, IdOf(table, es[i].section)) = es[i].section BY <1>3, <2>6, NumberedIsRead
  <2>8. img.records[i] = RecordOf(table, es[i]) BY <1>3
  <2>9. PICK r : r = img.records[i] OBVIOUS
  <2>10. r.name = es[i].name /\ r.from = es[i].from /\ r.section = IdOf(table, es[i].section) BY <2>8, <2>9 DEF RecordOf
  <2>11. PICK o : o = EntryAt(img, i) OBVIOUS
  <2>12. o.name = r.name /\ o.from = r.from /\ o.section = StringAt(img, r.section) BY <2>9, <2>11 DEF EntryAt
  <2> QED BY <2>7, <2>10, <2>11, <2>12 DEF Same
<1> QED BY <1>4, <1>5

(* The index has the rows of what it is built from, each once, by name.     *)
IsOrder(order, es, n) ==
  /\ order \in [1..n -> 1..n] /\ Ordered(es) = [k \in 1..n |-> es[order[k]]]
  /\ \A x \in 1..n : \E k \in 1..n : order[k] = x
  /\ \A i, j \in 1..n : i < j => es[order[i]].name <= es[order[j]].name

LEMMA OrderedIs ==
  ASSUME NEW n \in Nat, NEW es, DOMAIN es = 1..n, \A i \in 1..n : es[i].name \in Nat
  PROVE  \E order : IsOrder(order, es, n)
<1>1. PICK S : S = DOMAIN es OBVIOUS
<1>2. PICK v : v = [x \in S |-> es[x].name] OBVIOUS
<1>3. S = 1..n /\ (\A x \in S : v[x] \in Nat /\ v[x] = es[x].name /\ x \in Nat) BY <1>1, <1>2
<1>4. PICK R : R = {p \in S \X S : es[p[1]].name < es[p[2]].name \/ (es[p[1]].name = es[p[2]].name /\ p[1] < p[2])} OBVIOUS
<1>5. \A x, y \in S : <<x, y>> \in R <=> es[x].name < es[y].name \/ (es[x].name = es[y].name /\ x < y) BY <1>4
<1>6. ASSUME NEW x \in S, NEW y \in S PROVE <<x, y>> \in R <=> v[x] < v[y] \/ (v[x] = v[y] /\ x < y)
  <2>1. <<x, y>> \in R <=> es[x].name < es[y].name \/ (es[x].name = es[y].name /\ x < y) BY <1>5
  <2>2. v[x] = es[x].name /\ v[y] = es[y].name BY <1>3
  <2> QED BY <2>1, <2>2
<1>7. Orders(R, S)
  <2>1. \A x \in S : <<x, x>> \notin R BY <1>3, <1>6
  <2>2. \A x, y \in S : x # y => <<x, y>> \in R \/ <<y, x>> \in R BY <1>3, <1>6
  <2>3. ASSUME NEW x \in S, NEW y \in S, NEW z \in S, <<x, y>> \in R, <<y, z>> \in R PROVE <<x, z>> \in R
    <3>1. PICK a, b, c : a = v[x] /\ b = v[y] /\ c = v[z] OBVIOUS
    <3>2. a \in Nat /\ b \in Nat /\ c \in Nat /\ x \in Nat /\ y \in Nat /\ z \in Nat BY <1>3, <3>1
    <3>3. (a < b \/ (a = b /\ x < y)) /\ (b < c \/ (b = c /\ y < z)) BY <1>6, <2>3, <3>1
    <3>4. a < c \/ (a = c /\ x < z) BY <3>2, <3>3
    <3> QED BY <1>6, <3>1, <3>4
  <2> QED BY <2>1, <2>2, <2>3 DEF Orders
<1>8. PICK order : order = [k \in 1..Cardinality(S) |-> CHOOSE x \in S :
                     Cardinality({y \in S : es[y].name < es[x].name \/ (es[y].name = es[x].name /\ y < x)}) = k - 1]
  OBVIOUS
<1>9. Ranked(order, S, R)
  <2>1. \A x \in S : {y \in S : es[y].name < es[x].name \/ (es[y].name = es[x].name /\ y < x)} = {y \in S : <<y, x>> \in R} BY <1>5
  <2>2. ASSUME NEW k \in 1..Cardinality(S)
        PROVE  order[k] = CHOOSE x \in S : Cardinality({y \in S : <<y, x>> \in R}) = k - 1
    <3>1. order[k] = CHOOSE x \in S : Cardinality({y \in S : es[y].name < es[x].name \/ (es[y].name = es[x].name /\ y < x)}) = k - 1 BY <1>8
    <3>2. \A x \in S : Cardinality({y \in S : es[y].name < es[x].name \/ (es[y].name = es[x].name /\ y < x)}) = k - 1
                       <=> Cardinality({y \in S : <<y, x>> \in R}) = k - 1 BY <2>1
    <3> QED BY <3>1, <3>2
  <2>3. order = [k \in 1..Cardinality(S) |-> order[k]]
    <3> DEFINE th(k) == CHOOSE x \in S : Cardinality({y \in S : es[y].name < es[x].name \/ (es[y].name = es[x].name /\ y < x)}) = k - 1
    <3>1. order = [k \in 1..Cardinality(S) |-> th(k)] BY <1>8
    <3> HIDE DEF th
    <3> QED BY <3>1
  <2> QED BY <2>2, <2>3 DEF Ranked
<1>10. IsFiniteSet(S) /\ Cardinality(S) = n BY <1>3, FS_Interval
<1>11. /\ order \in [1..n -> S] /\ \A x \in S : \E k \in 1..n : order[k] = x
       /\ \A i, j \in 1..n : i < j => <<order[i], order[j]>> \in R
  BY <1>7, <1>9, <1>10, PlacesAre
<1>12. Ordered(es) = [k \in 1..n |-> es[order[k]]] BY <1>1, <1>8 DEF Ordered, Sorted
<1>13. ASSUME NEW i \in 1..n, NEW j \in 1..n, i < j PROVE es[order[i]].name <= es[order[j]].name
  <2>1. PICK x, y : x = order[i] /\ y = order[j] OBVIOUS
  <2>2. x \in S /\ y \in S /\ <<x, y>> \in R BY <1>11, <1>13, <2>1
  <2>3. v[x] < v[y] \/ v[x] = v[y] BY <1>6, <2>2
  <2>4. v[x] <= v[y] BY <1>3, <2>2, <2>3
  <2> QED BY <1>3, <2>1, <2>2, <2>4
<1> QED BY <1>3, <1>11, <1>12, <1>13 DEF IsOrder

(* Rows that say what the last stanza of each name says.                    *)
Matching(rows, s) ==
  /\ \E n \in Nat : DOMAIN rows = 1..n
  /\ \A k \in DOMAIN rows : \E j \in DOMAIN s : IsLast(s, j, rows[k])
  /\ \A j \in DOMAIN s : \E k \in DOMAIN rows : rows[k].name = s[j].name

LEMMA IndexMatches ==
  ASSUME NEW es, NEW s, MergedTo(es, s)
  PROVE  Matching(NewSearchIndex(Decode(BuildImage(SortedUnique(es)))).rows, s)
<1>1. PICK fs : fs = SortedUnique(es) OBVIOUS
<1>2. MergedTo(fs, s) BY <1>1, SortedUniqueKeeps
<1>3. PICK E : E = Entry OBVIOUS
<1>4. fs \in Seq(Entry) /\ fs \in Seq(E) BY <1>2, <1>3 DEF MergedTo
<1>5. PICK n : n = Len(fs) OBVIOUS
<1>6. n \in Nat /\ DOMAIN fs = 1..n /\ \A i \in 1..n : fs[i] \in E BY <1>4, <1>5
<1>7. PICK d : d = Decode(BuildImage(fs)) OBVIOUS
<1>8. DOMAIN d = 1..n /\ \A i \in 1..n : Same(d[i], fs[i]) BY <1>4, <1>6, <1>7, DecodedIs
<1>9. \A i \in 1..n : d[i].name \in Nat BY <1>3, <1>6, <1>8 DEF Same, Entry
<1>10. PICK order : IsOrder(order, d, n) BY <1>6, <1>8, <1>9, OrderedIs
<1>11. PICK rows : rows = Ordered(d) OBVIOUS
<1>12. DOMAIN rows = 1..n /\ \A k \in 1..n : order[k] \in 1..n /\ rows[k] = d[order[k]] BY <1>10, <1>11 DEF IsOrder
<1>13. ASSUME NEW k \in 1..n PROVE \E j \in DOMAIN s : IsLast(s, j, rows[k])
  <2>1. PICK x : x = order[k] OBVIOUS
  <2>2. x \in 1..n /\ rows[k] = d[x] BY <1>12, <2>1
  <2>3. Same(rows[k], fs[x]) BY <1>8, <2>2
  <2>4. PICK j \in DOMAIN s : IsLast(s, j, fs[x]) BY <1>2, <1>6, <2>2 DEF MergedTo
  <2>5. IsLast(s, j, rows[k]) BY <2>3, <2>4 DEF Same, IsLast
  <2> QED BY <2>5
<1>14. ASSUME NEW j \in DOMAIN s PROVE \E k \in 1..n : rows[k].name = s[j].name
  <2>1. PICK x \in 1..n : fs[x].name = s[j].name BY <1>2, <1>6 DEF MergedTo
  <2>2. PICK k \in 1..n : order[k] = x BY <1>10 DEF IsOrder
  <2>3. rows[k] = d[x] BY <1>12, <2>2
  <2>4. d[x].name = fs[x].name BY <1>8 DEF Same
  <2> QED BY <2>1, <2>3, <2>4
<1>15. Matching(rows, s) BY <1>6, <1>12, <1>13, <1>14 DEF Matching
<1>16. NewSearchIndex(d).rows = rows BY <1>11 DEF NewSearchIndex
<1> QED BY <1>1, <1>7, <1>15, <1>16

JoinedTo(seqs, n, g) == n \in Nat /\ DOMAIN g = 1..n /\ Joined(seqs, g)

LEMMA JoinedSame ==
  ASSUME NEW seqs, NEW n, NEW m, NEW g, NEW h, JoinedTo(seqs, n, g), JoinedTo(seqs, m, h), m >= 1, m <= n
  PROVE  g[m] = h[m]
<1>1. n \in Nat /\ m \in 1..n /\ m \in 1..m BY DEF JoinedTo
<1>2. DOMAIN g = 1..n /\ DOMAIN h = 1..m /\ Joined(seqs, g) /\ Joined(seqs, h) BY DEF JoinedTo
<1>3. \A x \in 1..m : g[x] = h[x] BY <1>1, <1>2, JoinedOnce
<1> QED BY <1>1, <1>3

LEMMA OneMoreList ==
  ASSUME NEW S, NEW seqs \in Seq(Seq(S)), NEW k \in 1..Len(seqs)
  PROVE  FlattenSeq(SubSeq(seqs, 1, k)) = FlattenSeq(SubSeq(seqs, 1, k - 1)) \o seqs[k]
<1>1. PICK Y : Y = Seq(S) OBVIOUS
<1>2. PICK n : n = Len(seqs) OBVIOUS
<1>3. seqs \in Seq(Y) BY <1>1
<1>4. n \in Nat /\ k \in 1..n /\ \A i \in 1..n : seqs[i] \in Y BY <1>2, <1>3
<1>5. PICK p : p = SubSeq(seqs, 1, k) OBVIOUS
<1>6. p \in Seq(Y) /\ Len(p) = k /\ \A i \in 1..k : p[i] = seqs[i] BY <1>2, <1>3, <1>4, <1>5
<1>7. PICK g \in [1..k -> Seq(S)] : Joined(p, g) /\ FlattenSeq(p) = g[k]
  <2>1. p \in Seq(Seq(S)) /\ Len(p) # 0 BY <1>1, <1>4, <1>6
  <2>2. \E g \in [1..Len(p) -> Seq(S)] : Joined(p, g) /\ FlattenSeq(p) = g[Len(p)] BY <2>1, FlattenIsJoined
  <2> QED BY <1>6, <2>2
<1>8. k \in 1..k BY <1>4
<1>9. CASE k = 1
  <2>1. g[k] = p[k] BY <1>7, <1>8, <1>9 DEF Joined
  <2>2. PICK q : q = SubSeq(seqs, 1, 0) OBVIOUS
  <2>3. q = <<>> /\ Len(q) = 0 BY <1>3, <2>2
  <2>4. FlattenSeq(q) = <<>> BY <2>3 DEF FlattenSeq
  <2>5. seqs[k] \in Seq(S) BY <1>1, <1>4
  <2>6. <<>> \o seqs[k] = seqs[k] BY <2>5
  <2>7. SubSeq(seqs, 1, k - 1) = q BY <1>9, <2>2
  <2>8. FlattenSeq(SubSeq(seqs, 1, k)) = seqs[k] BY <1>5, <1>6, <1>7, <1>8, <2>1
  <2> QED BY <2>4, <2>6, <2>7, <2>8
<1>10. CASE k # 1
  <2>1. PICK j : j = k - 1 OBVIOUS
  <2>2. j \in Nat /\ j \in 1..k /\ j \in 1..n /\ j \in 1..j /\ k \in Nat BY <1>4, <1>10, <2>1
  <2>3. PICK q : q = SubSeq(seqs, 1, j) OBVIOUS
  <2>4. q \in Seq(Y) /\ Len(q) = j /\ \A i \in 1..j : q[i] = seqs[i] BY <1>2, <1>3, <2>2, <2>3
  <2>5. PICK h \in [1..j -> Seq(S)] : Joined(q, h) /\ FlattenSeq(q) = h[j]
    <3>1. q \in Seq(Seq(S)) /\ Len(q) # 0 BY <1>1, <2>2, <2>4
    <3>2. \E h \in [1..Len(q) -> Seq(S)] : Joined(q, h) /\ FlattenSeq(q) = h[Len(q)] BY <3>1, FlattenIsJoined
    <3> QED BY <2>4, <3>2
  <2>6. Joined(p, h)
    <3>1. \A i \in 1..j : i \in 1..k BY <2>1, <2>2
    <3>2. \A i \in 1..j : q[i] = p[i] BY <1>6, <2>4, <3>1
    <3>3. DOMAIN h = 1..j BY <2>5
    <3> QED BY <2>5, <3>2, <3>3 DEF Joined
  <2>7. DOMAIN g = 1..k /\ DOMAIN h = 1..j BY <1>7, <2>5
  <2>8. g[j] = h[j]
    <3>1. JoinedTo(p, k, g) /\ JoinedTo(p, j, h) BY <1>7, <2>2, <2>6, <2>7 DEF JoinedTo
    <3>2. j >= 1 /\ j <= k BY <2>2
    <3> QED BY <3>1, <3>2, JoinedSame
  <2>9. g[k] = g[k - 1] \o p[k] BY <1>7, <1>8, <1>10, <2>7 DEF Joined
  <2> QED BY <1>5, <1>6, <1>7, <1>8, <2>1, <2>2, <2>3, <2>5, <2>8, <2>9
<1> QED BY <1>9, <1>10

-----------------------------------------------------------------------------
(***************************************************************************)
(* What holds throughout a build that has not failed                       *)
(***************************************************************************)

Phases == {"resolve", "download", "parse", "dep11", "index", "done"}
BuildWorker == [pc : {"idle", "get", "done"}, group : Nat, mirror : Nat, err : BOOLEAN]
Endings == [state : {"none", "list", "missing", "failed"}, mirror : Nat]
Lists == [g \in DOMAIN got |-> IF got[g].state = "list" THEN FromList(ListRef(g)) ELSE <<>>]
Read(k) == FlattenSeq(SubSeq(Lists, 1, k))

BuildTypes ==
  /\ phase \in Phases /\ refs \in Seq(AnyRef) /\ next \in Nat /\ next >= 1 /\ upto \in Nat
  /\ worker \in [Workers -> BuildWorker] /\ apps \in Seq(Component)
  /\ got \in [IF phase = "resolve" THEN {} ELSE DOMAIN Groups(refs) -> Endings]

(* The mirrors a worker has been at that did not fail have no list.         *)
Silent(g, m) == \A i \in DOMAIN Groups(refs)[g] : i < m => Groups(refs)[g][i] \notin DOMAIN Published
Tries(w) ==
  worker[w].pc = "get" =>
    /\ phase # "resolve" /\ worker[w].group \in DOMAIN Groups(refs) /\ worker[w].mirror >= 1
    /\ ~worker[w].err => Silent(worker[w].group, worker[w].mirror)
Downloaded ==
  \A g \in DOMAIN got :
    /\ got[g].state = "missing" => \A i \in DOMAIN Groups(refs)[g] : Groups(refs)[g][i] \notin DOMAIN Published
    /\ got[g].state = "list" => ListRef(g) \in DOMAIN Published

MergedSoFar ==
  /\ phase \in {"resolve", "download"} => entries = <<>> /\ upto = 0 /\ apps = <<>>
  /\ phase = "parse" => upto <= Len(got) /\ MergedTo(entries, Read(upto))
  /\ phase \in {"dep11", "index"} => MergedTo(entries, Stanzas)
  /\ phase = "done" => Matching(index.rows, Stanzas)

SourcesInv == phase # "failed" => BuildTypes /\ (\A w \in Workers : Tries(w)) /\ Downloaded /\ MergedSoFar

LEMMA GroupsInSeq == ASSUME BuildTypes PROVE \E n \in Nat : DOMAIN Groups(refs) = 1..n /\ Len(Groups(refs)) = n
<1>1. PICK rs : rs = refs OBVIOUS
<1>2. rs \in Seq(AnyRef) BY <1>1 DEF BuildTypes
<1>3. PICK Y : Y = Seq(AnyRef) OBVIOUS
<1>4. PICK gs : gs = Groups(rs) OBVIOUS
<1>5. gs \in Seq(Y) BY <1>2, <1>3, <1>4, GroupsAre
<1>6. PICK n : n = Len(gs) OBVIOUS
<1>7. n \in Nat /\ DOMAIN gs = 1..n BY <1>5, <1>6
<1> QED BY <1>1, <1>4, <1>6, <1>7

LEMMA GroupInSeq ==
  ASSUME BuildTypes, NEW g \in DOMAIN Groups(refs)
  PROVE  \E n \in Nat : DOMAIN Groups(refs)[g] = 1..n /\ Len(Groups(refs)[g]) = n
<1>1. PICK rs : rs = refs OBVIOUS
<1>2. rs \in Seq(AnyRef) BY <1>1 DEF BuildTypes
<1>3. PICK Y : Y = Seq(AnyRef) OBVIOUS
<1>4. PICK gs : gs = Groups(rs) OBVIOUS
<1>5. gs \in Seq(Y) BY <1>2, <1>3, <1>4, GroupsAre
<1>6. PICK u : u = gs[g] OBVIOUS
<1>7. u \in Y BY <1>1, <1>4, <1>5, <1>6
<1>8. u \in Seq(AnyRef) BY <1>3, <1>7
<1>9. PICK n : n = Len(u) OBVIOUS
<1>10. n \in Nat /\ DOMAIN u = 1..n BY <1>8, <1>9
<1> QED BY <1>1, <1>4, <1>6, <1>9, <1>10

(* The lists, once a build has its groups.                                 *)
LEMMA ListsAre ==
  ASSUME BuildTypes, Downloaded, phase # "resolve"
  PROVE  \E n \in Nat : /\ Len(got) = n /\ DOMAIN got = 1..n /\ Lists \in Seq(Seq(Entry)) /\ Len(Lists) = n
                        /\ Stanzas = Read(n)
<1>1. PICK n \in Nat : DOMAIN Groups(refs) = 1..n BY GroupsInSeq
<1>2. got \in [1..n -> Endings] BY <1>1 DEF BuildTypes
<1>3. DOMAIN got = 1..n /\ Len(got) = n BY <1>2
<1>4. PICK Y : Y = Seq(Entry) OBVIOUS
<1>5. PICK ls : ls = Lists OBVIOUS
<1>6. ASSUME NEW g \in 1..n PROVE ls[g] \in Y
  <2>1. CASE got[g].state = "list"
    <3>1. PICK r : r = ListRef(g) OBVIOUS
    <3>2. r \in DOMAIN Published BY <1>3, <2>1, <3>1 DEF Downloaded
    <3>3. FromList(r) \in Seq(Entry) BY <3>2, FromListAre
    <3>4. ls[g] = FromList(r) BY <1>3, <1>5, <2>1, <3>1 DEF Lists
    <3> QED BY <1>4, <3>3, <3>4
  <2>2. CASE got[g].state # "list"
    <3>1. ls[g] = <<>> BY <1>3, <1>5, <2>2 DEF Lists
    <3>2. <<>> \in Seq(Entry) BY EmptyIn
    <3> QED BY <1>4, <3>1, <3>2
  <2> QED BY <2>1, <2>2
<1>7. ls \in [1..n -> Y]
  <2>1. ls = [g \in 1..n |-> ls[g]] BY <1>3, <1>5 DEF Lists
  <2> QED BY <1>6, <2>1
<1>8. ls \in Seq(Y) /\ Len(ls) = n BY <1>7
<1>9. SubSeq(ls, 1, n) = ls BY <1>8
<1>10. Stanzas = FlattenSeq(ls) BY <1>5 DEF Stanzas, Lists
<1> QED BY <1>3, <1>4, <1>5, <1>8, <1>9, <1>10 DEF Read

LEMMA BuildStays ==
  ASSUME refs' = refs, got' = got
  PROVE  /\ Lists' = Lists /\ Stanzas' = Stanzas /\ \A k : Read(k)' = Read(k)
         /\ Downloaded => Downloaded'
<1>1. Groups(refs)' = Groups(refs) OBVIOUS
<1>2. \A g : ListRef(g)' = ListRef(g) BY <1>1 DEF ListRef
<1>3. Lists' = Lists BY <1>2 DEF Lists
<1>4. Stanzas' = Stanzas BY <1>2 DEF Stanzas
<1>5. \A k : Read(k)' = Read(k) BY <1>3 DEF Read
<1>6. Downloaded => Downloaded' BY <1>1, <1>2 DEF Downloaded
<1> QED BY <1>3, <1>4, <1>5, <1>6

LEMMA WorkersStay ==
  ASSUME refs' = refs, worker' = worker, phase' # "resolve", NEW w \in Workers, Tries(w)
  PROVE  Tries(w)'
BY DEF Tries, Silent

LEMMA NothingMerged == ASSUME BuildTypes, Downloaded, phase # "resolve" PROVE MergedTo(<<>>, Read(0))
<1>1. PICK ls : ls = Lists OBVIOUS
<1>2. PICK Y : Y = Seq(Entry) OBVIOUS
<1>3. ls \in Seq(Y) BY <1>1, <1>2, ListsAre
<1>4. PICK q : q = SubSeq(ls, 1, 0) OBVIOUS
<1>5. q = <<>> /\ Len(q) = 0 BY <1>3, <1>4
<1>6. FlattenSeq(q) = <<>> BY <1>5 DEF FlattenSeq
<1>7. Read(0) = <<>> BY <1>1, <1>4, <1>6 DEF Read
<1>8. <<>> \in Seq(Entry) BY EmptyIn
<1>9. DOMAIN <<>> = {} OBVIOUS
<1>10. MergedTo(<<>>, <<>>) BY <1>8, <1>9 DEF MergedTo
<1> QED BY <1>7, <1>10

LEMMA SourcesInit == BuildInit => SourcesInv
<1> SUFFICES ASSUME BuildInit PROVE SourcesInv OBVIOUS
<1>1. PICK file \in SourceFiles : refs = IndexRefs(file) BY DEF BuildInit
<1>2. refs \in Seq(AnyRef) BY <1>1, IndexRefsAre
<1>3. phase = "resolve" /\ next = 1 /\ upto = 0 /\ entries = <<>> /\ apps = <<>> /\ got = <<>> BY DEF BuildInit
<1>4. worker = [w \in Workers |-> NoWorker] BY DEF BuildInit
<1>5. NoWorker \in BuildWorker /\ NoWorker.pc = "idle" BY DEF NoWorker, BuildWorker
<1>6. worker \in [Workers -> BuildWorker] /\ \A w \in Workers : Tries(w) BY <1>4, <1>5 DEF Tries
<1>7. <<>> \in Seq(Component) BY EmptyIn
<1>8. got \in [{} -> Endings] BY <1>3
<1>9. BuildTypes BY <1>2, <1>3, <1>6, <1>7, <1>8 DEF BuildTypes, Phases
<1>10. Downloaded BY <1>8 DEF Downloaded
<1>11. MergedSoFar BY <1>3 DEF MergedSoFar
<1> QED BY <1>6, <1>9, <1>10, <1>11 DEF SourcesInv

LEMMA FailKeeps == Fail => SourcesInv'
BY DEF Fail, SourcesInv

LEMMA TargetKeeps == ASSUME SourcesInv, BuildTarget PROVE SourcesInv'
<1>1. CASE Fail BY <1>1, FailKeeps
<1>2. CASE ~Fail
  <2>1. phase = "resolve" /\ phase' = "download" /\ got' = [g \in DOMAIN Groups(refs) |-> Ended("none", 0)]
        /\ UNCHANGED <<refs, problems, ctx, next, worker, upto, entries, apps, index>>
    BY <1>2 DEF BuildTarget
  <2>2. BuildTypes /\ (\A w \in Workers : Tries(w)) /\ MergedSoFar BY <2>1 DEF SourcesInv
  <2>3. Ended("none", 0) \in Endings /\ Ended("none", 0).state = "none" BY DEF Ended, Endings
  <2>4. got' \in [DOMAIN Groups(refs) -> Endings] BY <2>1, <2>3
  <2>5. BuildTypes' BY <2>1, <2>2, <2>4 DEF BuildTypes, Phases
  <2>6. \A w \in Workers : Tries(w)' BY <2>1, <2>2 DEF Tries
  <2>7. \A g \in DOMAIN got' : got'[g].state = "none" BY <2>1, <2>3
  <2>8. Downloaded' BY <2>7 DEF Downloaded
  <2>9. MergedSoFar' BY <2>1, <2>2 DEF MergedSoFar
  <2> QED BY <2>5, <2>6, <2>8, <2>9 DEF SourcesInv
<1> QED BY <1>1, <1>2

LEMMA CancelKeeps == ASSUME SourcesInv, CancelContext PROVE SourcesInv'
<1>1. phase # "failed" /\ phase # "resolve"
      /\ UNCHANGED <<refs, problems, phase, next, worker, got, upto, entries, apps, index>>
  BY DEF CancelContext
<1>2. BuildTypes /\ (\A w \in Workers : Tries(w)) /\ Downloaded /\ MergedSoFar BY <1>1 DEF SourcesInv
<1>3. BuildTypes' BY <1>1, <1>2 DEF BuildTypes
<1>4. \A w \in Workers : Tries(w)' BY <1>1, <1>2, WorkersStay
<1>5. Downloaded' /\ Stanzas' = Stanzas /\ \A k : Read(k)' = Read(k) BY <1>1, <1>2, BuildStays
<1>6. MergedSoFar' BY <1>1, <1>2, <1>5 DEF MergedSoFar
<1> QED BY <1>3, <1>4, <1>5, <1>6 DEF SourcesInv

LEMMA TakeGroupKeeps == ASSUME SourcesInv, NEW w \in Workers, TakeGroup(w) PROVE SourcesInv'
<1>1. /\ phase = "download" /\ next' = next + 1
      /\ UNCHANGED <<refs, problems, phase, ctx, got, upto, entries, apps, index>>
  BY DEF TakeGroup
<1>2. BuildTypes /\ (\A v \in Workers : Tries(v)) /\ Downloaded /\ MergedSoFar BY <1>1 DEF SourcesInv
<1>3. PICK n \in Nat : DOMAIN Groups(refs) = 1..n /\ Len(Groups(refs)) = n BY <1>2, GroupsInSeq
<1>4. PICK to : /\ worker' = [worker EXCEPT ![w] = to]
                /\ \/ to = [NoWorker EXCEPT !.pc = "done"]
                   \/ ~(next > n) /\ to = [pc |-> "get", group |-> next, mirror |-> 1, err |-> FALSE]
  BY <1>3 DEF TakeGroup
<1>5. to \in BuildWorker /\ (to.pc = "get" => to.group \in DOMAIN Groups(refs) /\ to.mirror = 1)
  <2>1. next \in Nat /\ next >= 1 BY <1>2 DEF BuildTypes
  <2>2. CASE to = [NoWorker EXCEPT !.pc = "done"] BY <2>2 DEF NoWorker, BuildWorker
  <2>3. CASE ~(next > n) /\ to = [pc |-> "get", group |-> next, mirror |-> 1, err |-> FALSE]
    <3>1. next \in 1..n BY <2>1, <2>3
    <3> QED BY <1>3, <2>1, <2>3, <3>1 DEF BuildWorker
  <2> QED BY <1>4, <2>2, <2>3
<1>6. worker' \in [Workers -> BuildWorker] /\ worker'[w] = to /\ \A v \in Workers \ {w} : worker'[v] = worker[v]
  BY <1>2, <1>4, <1>5 DEF BuildTypes
<1>7. BuildTypes' BY <1>1, <1>2, <1>6 DEF BuildTypes
<1>8. ASSUME NEW v \in Workers PROVE Tries(v)'
  <2>1. CASE v = w
    <3>1. PICK g, m : g = to.group /\ m = to.mirror OBVIOUS
    <3>2. to.pc = "get" => g \in DOMAIN Groups(refs) /\ m >= 1 /\ Silent(g, m)
      <4>1. SUFFICES ASSUME to.pc = "get" PROVE g \in DOMAIN Groups(refs) /\ m >= 1 /\ Silent(g, m) OBVIOUS
      <4>2. g \in DOMAIN Groups(refs) /\ m = 1 BY <1>5, <3>1, <4>1
      <4>3. PICK l \in Nat : DOMAIN Groups(refs)[g] = 1..l BY <1>2, <4>2, GroupInSeq
      <4>4. \A i \in 1..l : ~(i < m) BY <4>2
      <4>5. Silent(g, m) BY <4>3, <4>4 DEF Silent
      <4> QED BY <4>2, <4>5
    <3> QED BY <1>1, <1>6, <2>1, <3>1, <3>2 DEF Tries, Silent
  <2>2. CASE v # w BY <1>1, <1>2, <1>6, <2>2 DEF Tries, Silent
  <2> QED BY <2>1, <2>2
<1>9. Downloaded' BY <1>1, <1>2, BuildStays
<1>10. MergedSoFar' BY <1>1, <1>2 DEF MergedSoFar
<1> QED BY <1>7, <1>8, <1>9, <1>10 DEF SourcesInv

LEMMA FetchKeeps == ASSUME SourcesInv, NEW w \in Workers, FetchGroup(w) PROVE SourcesInv'
<1>1. phase = "download" /\ worker[w].pc = "get"
      /\ UNCHANGED <<refs, problems, phase, ctx, next, upto, entries, apps, index>>
  BY DEF FetchGroup
<1>2. BuildTypes /\ (\A v \in Workers : Tries(v)) /\ Downloaded /\ MergedSoFar BY <1>1 DEF SourcesInv
<1>3. PICK g, m, err : g = worker[w].group /\ m = worker[w].mirror /\ err = worker[w].err OBVIOUS
<1>4. PICK urls : urls = Groups(refs)[g] OBVIOUS
<1>5. PICK out :
        /\ out \in Outcomes(urls[m])
        /\ IF out \in {"missing", "failed"} /\ m < Len(urls)
           THEN worker' = [worker EXCEPT ![w].mirror = @ + 1, ![w].err = (err \/ out = "failed")] /\ UNCHANGED got
           ELSE /\ worker' = [worker EXCEPT ![w] = NoWorker]
                /\ got' = [got EXCEPT ![g] = IF out = "list" THEN Ended("list", m)
                                             ELSE Ended(IF (err \/ out = "failed") \/ out = "cancelled"
                                                        THEN "failed" ELSE "missing", 0)]
  BY <1>3, <1>4 DEF FetchGroup
<1>13. PICK bad, more : bad = (err \/ out = "failed") /\ more = (out \in {"missing", "failed"} /\ m < Len(urls)) OBVIOUS
<1>6. worker \in [Workers -> BuildWorker] /\ got \in [DOMAIN Groups(refs) -> Endings] BY <1>1, <1>2 DEF BuildTypes
<1>7. worker[w] \in BuildWorker /\ m \in Nat /\ err \in BOOLEAN BY <1>3, <1>6 DEF BuildWorker
<1>8. g \in DOMAIN Groups(refs) /\ m >= 1 /\ (~err => Silent(g, m)) BY <1>1, <1>2, <1>3 DEF Tries
<1>9. PICK n \in Nat : DOMAIN urls = 1..n /\ Len(urls) = n BY <1>2, <1>4, <1>8, GroupInSeq
<1>10. (out = "missing" => urls[m] \notin DOMAIN Published) /\ (out = "list" => urls[m] \in DOMAIN Published)
       /\ out \in {"failed", "list", "missing", "cancelled"}
  BY <1>5 DEF Outcomes
<1>11. CASE more
  <2>1. worker' = [worker EXCEPT ![w].mirror = @ + 1, ![w].err = bad] /\ got' = got BY <1>5, <1>13, <1>11
  <2>2. out \in {"missing", "failed"} BY <1>13, <1>11
  <2>3. PICK to : to = [worker[w] EXCEPT !.mirror = m + 1, !.err = bad] OBVIOUS
  <2>4. bad \in BOOLEAN /\ m + 1 \in Nat BY <1>13, <1>7
  <2>5. to \in BuildWorker /\ to.pc = "get" /\ to.group = g /\ to.mirror = m + 1 /\ to.err = bad
    BY <1>1, <1>3, <1>7, <2>3, <2>4 DEF BuildWorker
  <2>6. worker' = [worker EXCEPT ![w] = to] BY <1>3, <1>6, <1>7, <2>1, <2>3 DEF BuildWorker
  <2>7. worker' \in [Workers -> BuildWorker] /\ worker'[w] = to /\ \A v \in Workers \ {w} : worker'[v] = worker[v]
    BY <1>6, <2>5, <2>6
  <2>8. ~bad => Silent(g, m + 1)
    <3>1. SUFFICES ASSUME ~bad PROVE Silent(g, m + 1) OBVIOUS
    <3>2. ~err /\ out = "missing" BY <1>13, <1>7, <2>2, <3>1
    <3>3. Silent(g, m) /\ urls[m] \notin DOMAIN Published BY <1>8, <1>10, <3>2
    <3>4. ASSUME NEW i \in DOMAIN urls, i < m + 1 PROVE urls[i] \notin DOMAIN Published
      <4>1. i \in Nat BY <1>9
      <4>2. i < m \/ i = m BY <1>7, <3>4, <4>1
      <4> QED BY <1>4, <3>3, <4>2 DEF Silent
    <3> QED BY <1>4, <3>4 DEF Silent
  <2>9. BuildTypes' BY <1>1, <1>2, <2>1, <2>7 DEF BuildTypes
  <2>10. ASSUME NEW v \in Workers PROVE Tries(v)'
    <3>1. CASE v = w
      <4>1. m + 1 >= 1 BY <1>7
      <4>2. PICK k : k = m + 1 OBVIOUS
      <4> QED BY <1>1, <1>8, <2>5, <2>7, <2>8, <3>1, <4>1, <4>2 DEF Tries, Silent
    <3>2. CASE v # w BY <1>1, <1>2, <2>7, <3>2 DEF Tries, Silent
    <3> QED BY <3>1, <3>2
  <2>11. Downloaded' BY <1>1, <1>2, <2>1, BuildStays
  <2>12. MergedSoFar' BY <1>1, <1>2 DEF MergedSoFar
  <2> QED BY <2>9, <2>10, <2>11, <2>12 DEF SourcesInv
<1>12. CASE ~more
  <2>1. worker' = [worker EXCEPT ![w] = NoWorker] BY <1>5, <1>13, <1>12
  <2>2. PICK end : /\ end = IF out = "list" THEN Ended("list", m)
                            ELSE Ended(IF bad \/ out = "cancelled" THEN "failed" ELSE "missing", 0)
    OBVIOUS
  <2>3. got' = [got EXCEPT ![g] = end] BY <1>5, <1>13, <1>12, <2>2
  <2>4. end \in Endings BY <1>7, <2>2 DEF Ended, Endings
  <2>5. got' \in [DOMAIN Groups(refs) -> Endings] /\ got'[g] = end /\ \A h \in DOMAIN got \ {g} : got'[h] = got[h]
    BY <1>6, <1>8, <2>3, <2>4
  <2>6. NoWorker \in BuildWorker /\ NoWorker.pc = "idle" BY DEF NoWorker, BuildWorker
  <2>7. worker' \in [Workers -> BuildWorker] /\ worker'[w] = NoWorker /\ \A v \in Workers \ {w} : worker'[v] = worker[v]
    BY <1>6, <2>1, <2>6
  <2>8. BuildTypes' BY <1>1, <1>2, <2>5, <2>7 DEF BuildTypes
  <2>9. ASSUME NEW v \in Workers PROVE Tries(v)'
    <3>1. CASE v = w BY <2>6, <2>7, <3>1 DEF Tries
    <3>2. CASE v # w BY <1>1, <1>2, <2>7, <3>2 DEF Tries, Silent
    <3> QED BY <3>1, <3>2
  <2>10. Downloaded'
    <3>1. end.state = "missing" => \A i \in DOMAIN urls : urls[i] \notin DOMAIN Published
      <4>1. SUFFICES ASSUME end.state = "missing", NEW i \in DOMAIN urls PROVE urls[i] \notin DOMAIN Published OBVIOUS
      <4>2. ~bad /\ out = "missing" BY <1>10, <2>2, <4>1, <1>13 DEF Ended
      <4>3. ~err /\ ~(m < n) BY <1>13, <1>7, <1>9, <1>12, <4>2
      <4>4. Silent(g, m) /\ urls[m] \notin DOMAIN Published BY <1>8, <1>10, <4>2, <4>3
      <4>5. i < m \/ i = m BY <1>7, <1>9, <4>1, <4>3
      <4> QED BY <1>4, <4>1, <4>4, <4>5 DEF Silent
    <3>2. end.state = "list" => urls[end.mirror] \in DOMAIN Published
      <4>1. SUFFICES ASSUME end.state = "list" PROVE urls[end.mirror] \in DOMAIN Published OBVIOUS
      <4>2. out = "list" /\ end.mirror = m BY <2>2, <4>1 DEF Ended
      <4> QED BY <1>10, <4>2
    <3>3. ASSUME NEW h \in DOMAIN got'
          PROVE  /\ got'[h].state = "missing" => \A i \in DOMAIN Groups(refs)[h] : Groups(refs)[h][i] \notin DOMAIN Published
                 /\ got'[h].state = "list" => Groups(refs)[h][got'[h].mirror] \in DOMAIN Published
      <4>1. CASE h = g BY <1>4, <2>5, <3>1, <3>2, <4>1
      <4>2. CASE h # g
        <5>1. h \in DOMAIN got /\ got'[h] = got[h] BY <1>6, <2>5, <4>2
        <5> QED BY <1>2, <5>1 DEF Downloaded, ListRef
      <4> QED BY <4>1, <4>2
    <3> QED BY <1>1, <3>3 DEF Downloaded, ListRef
  <2>11. MergedSoFar' BY <1>1, <1>2 DEF MergedSoFar
  <2> QED BY <2>8, <2>9, <2>10, <2>11 DEF SourcesInv
<1> QED BY <1>11, <1>12

LEMMA DownloadsKeep == ASSUME SourcesInv, DownloadsDone PROVE SourcesInv'
<1>1. CASE Fail BY <1>1, FailKeeps
<1>2. CASE ~Fail
  <2>1. phase = "download" /\ phase' = "parse"
        /\ UNCHANGED <<refs, problems, ctx, next, worker, got, upto, entries, apps, index>>
    BY <1>2 DEF DownloadsDone
  <2>2. BuildTypes /\ (\A w \in Workers : Tries(w)) /\ Downloaded /\ MergedSoFar BY <2>1 DEF SourcesInv
  <2>3. BuildTypes' BY <2>1, <2>2 DEF BuildTypes, Phases
  <2>4. \A w \in Workers : Tries(w)' BY <2>1, <2>2, WorkersStay
  <2>5. Downloaded' /\ \A k : Read(k)' = Read(k) BY <2>1, <2>2, BuildStays
  <2>6. entries = <<>> /\ upto = 0 BY <2>1, <2>2 DEF MergedSoFar
  <2>7. MergedTo(<<>>, Read(0)) BY <2>1, <2>2, NothingMerged
  <2>8. 0 <= Len(got)
    <3>1. PICK n \in Nat : Len(got) = n BY <2>1, <2>2, ListsAre
    <3> QED BY <3>1
  <2>9. MergedSoFar'
    <3>1. MergedTo(<<>>, Read(0))' BY <2>5, <2>7 DEF MergedTo, IsLast
    <3>2. (upto <= Len(got) /\ MergedTo(entries, Read(upto)))' BY <2>1, <2>5, <2>6, <2>7, <2>8
    <3> QED BY <2>1, <3>2 DEF MergedSoFar
  <2> QED BY <2>3, <2>4, <2>5, <2>9 DEF SourcesInv
<1> QED BY <1>1, <1>2

LEMMA ParseKeeps == ASSUME SourcesInv, ParseGroup PROVE SourcesInv'
<1>1. phase = "parse" /\ upto < Len(got) /\ UNCHANGED <<refs, problems, ctx, next, worker, got, apps, index>>
  BY DEF ParseGroup
<1>2. BuildTypes /\ (\A w \in Workers : Tries(w)) /\ Downloaded /\ MergedSoFar BY <1>1 DEF SourcesInv
<1>3. PICK n \in Nat : /\ Len(got) = n /\ DOMAIN got = 1..n /\ Lists \in Seq(Seq(Entry)) /\ Len(Lists) = n
                       /\ Stanzas = Read(n)
  BY <1>1, <1>2, ListsAre
<1>4. upto \in Nat BY <1>2 DEF BuildTypes
<1>5. PICK g : g = upto + 1 OBVIOUS
<1>6. g \in 1..n /\ g - 1 = upto BY <1>1, <1>3, <1>4, <1>5
<1>7. MergedTo(entries, Read(upto)) BY <1>1, <1>2 DEF MergedSoFar
<1>8. Read(g) = Read(upto) \o Lists[g]
  <2>1. FlattenSeq(SubSeq(Lists, 1, g)) = FlattenSeq(SubSeq(Lists, 1, g - 1)) \o Lists[g]
    BY <1>3, <1>6, OneMoreList
  <2>2. Read(g) = Read(g - 1) \o Lists[g] BY <2>1 DEF Read
  <2> QED BY <1>6, <2>2
<1>9. Downloaded' /\ \A k : Read(k)' = Read(k) BY <1>1, <1>2, BuildStays
<1>10. phase' = "failed" => SourcesInv' BY DEF SourcesInv
<1>11. ASSUME phase' = phase, upto' = g, MergedTo(entries', Read(g)) PROVE SourcesInv'
  <2>1. BuildTypes'
    <3>1. upto' \in Nat BY <1>4, <1>5, <1>11
    <3> QED BY <1>1, <1>2, <1>11, <3>1 DEF BuildTypes
  <2>2. \A w \in Workers : Tries(w)' BY <1>1, <1>2, <1>11, WorkersStay
  <2>3. MergedSoFar'
    <3>1. g <= Len(got) BY <1>3, <1>6
    <3>2. PICK s : s = Read(g) OBVIOUS
    <3>3. Read(g)' = s BY <1>9, <3>2
    <3>4. Read(upto)' = s BY <1>11, <3>3
    <3>5. MergedTo(entries', s) BY <1>11, <3>2
    <3>6. MergedTo(entries, Read(upto))' BY <3>4, <3>5
    <3> QED BY <1>1, <1>11, <3>1, <3>6 DEF MergedSoFar
  <2> QED BY <1>9, <2>1, <2>2, <2>3 DEF SourcesInv
<1>12. CASE got[g].state = "missing" /\ upto' = g /\ UNCHANGED <<entries, phase>>
  <2>1. Lists[g] = <<>> BY <1>3, <1>6, <1>12 DEF Lists
  <2>2. PICK s : s = Read(upto) OBVIOUS
  <2>3. s \in Seq(Entry) BY <1>7, <2>2 DEF MergedTo
  <2>4. s \o <<>> = s BY <2>3
  <2>5. Read(g) = s BY <1>8, <2>1, <2>2, <2>4
  <2> QED BY <1>7, <1>11, <1>12, <2>2, <2>5
<1>13. CASE phase' = "failed" BY <1>10, <1>13
<1>14. CASE /\ got[g].state = "list" /\ ctx = "live" /\ ~ParseFails(ListRef(g))
            /\ entries' = FoldLeft(MergerAdd, entries, FromList(ListRef(g)))
            /\ upto' = g /\ UNCHANGED phase
  <2>1. PICK r : r = ListRef(g) OBVIOUS
  <2>2. r \in DOMAIN Published BY <1>2, <1>3, <1>6, <1>14, <2>1 DEF Downloaded
  <2>3. PICK l : l = FromList(r) OBVIOUS
  <2>4. l \in Seq(Entry) /\ \A i \in DOMAIN l : l[i].name # None BY <2>2, <2>3, FromListAre
  <2>5. Lists[g] = l BY <1>3, <1>6, <1>14, <2>1, <2>3 DEF Lists
  <2>6. entries' = MergeAll(entries, l) BY <1>14, <2>1, <2>3 DEF MergeAll
  <2>7. PICK s : s = Read(upto) OBVIOUS
  <2>8. MergedTo(MergeAll(entries, l), s \o l) BY <1>7, <2>4, <2>7, MergeKeeps
  <2>9. Read(g) = s \o l BY <1>8, <2>5, <2>7
  <2> QED BY <1>11, <1>14, <2>6, <2>8, <2>9
<1> QED BY <1>5, <1>12, <1>13, <1>14 DEF ParseGroup

LEMMA ParsesKeep == ASSUME SourcesInv, ParsesDone PROVE SourcesInv'
<1>1. phase = "parse" /\ upto = Len(got) /\ phase' = "dep11" /\ upto' = 0
      /\ UNCHANGED <<refs, problems, ctx, next, worker, got, entries, apps, index>>
  BY DEF ParsesDone
<1>2. BuildTypes /\ (\A w \in Workers : Tries(w)) /\ Downloaded /\ MergedSoFar BY <1>1 DEF SourcesInv
<1>3. Stanzas = Read(upto)
  <2>1. PICK n : n = Len(got) /\ Stanzas = Read(n) BY <1>1, <1>2, ListsAre
  <2> QED BY <1>1, <2>1
<1>4. MergedTo(entries, Stanzas) BY <1>1, <1>2, <1>3 DEF MergedSoFar
<1>5. Downloaded' /\ Stanzas' = Stanzas BY <1>1, <1>2, BuildStays
<1>6. BuildTypes' BY <1>1, <1>2 DEF BuildTypes, Phases
<1>7. \A w \in Workers : Tries(w)' BY <1>1, <1>2, WorkersStay
<1>8. MergedSoFar'
  <2>1. PICK s : s = Stanzas OBVIOUS
  <2>2. MergedTo(entries, Stanzas)' BY <1>1, <1>4, <1>5, <2>1
  <2> QED BY <1>1, <2>2 DEF MergedSoFar
<1> QED BY <1>5, <1>6, <1>7, <1>8 DEF SourcesInv

LEMMA MetadataKeeps == ASSUME SourcesInv, LoadMetadata PROVE SourcesInv'
<1>1. phase = "dep11" /\ UNCHANGED <<refs, problems, ctx, next, worker, got, entries, index>> BY DEF LoadMetadata
<1>2. BuildTypes /\ (\A w \in Workers : Tries(w)) /\ Downloaded /\ MergedSoFar BY <1>1 DEF SourcesInv
<1>3. PICK file : file = IF refs[upto + 1] \in DOMAIN Metadata THEN Metadata[refs[upto + 1]] ELSE <<>> OBVIOUS
<1>4. file \in Seq(Component)
  <2>1. <<>> \in Seq(Component) BY EmptyIn
  <2> QED BY <1>3, <2>1, ArchivesAssumption
<1>5. CASE ctx = "cancelled" BY <1>5 DEF LoadMetadata, SourcesInv
<1>6. CASE ctx # "cancelled"
  <2>1. PICK n \in 0..Len(file) : apps' = FoldLeft(AddApp, apps, SubSeq(file, 1, n))
    BY <1>3, <1>6 DEF LoadMetadata
  <2>2. upto' = upto + 1 /\ phase' = phase BY <1>6 DEF LoadMetadata
  <2>3. PICK cs : cs = SubSeq(file, 1, n) OBVIOUS
  <2>4. cs \in Seq(Component)
    <3>1. PICK S : S = Component OBVIOUS
    <3>2. file \in Seq(S) BY <1>4, <3>1
    <3>3. cs \in Seq(S) BY <2>3, <3>2
    <3> QED BY <3>1, <3>3
  <2>5. apps' = AddApps(apps, cs) BY <2>1, <2>3 DEF AddApps
  <2>6. apps \in Seq(Component) BY <1>2 DEF BuildTypes
  <2>7. apps' \in Seq(Component) BY <2>4, <2>5, <2>6, AppsAre
  <2>8. BuildTypes' BY <1>1, <1>2, <2>2, <2>7 DEF BuildTypes
  <2>9. \A w \in Workers : Tries(w)' BY <1>1, <1>2, <2>2, WorkersStay
  <2>10. Downloaded' /\ Stanzas' = Stanzas BY <1>1, <1>2, BuildStays
  <2>11. MergedSoFar' BY <1>1, <1>2, <2>2, <2>10 DEF MergedSoFar
  <2> QED BY <2>8, <2>9, <2>10, <2>11 DEF SourcesInv
<1> QED BY <1>5, <1>6

LEMMA AppliedKeeps == ASSUME SourcesInv, MetadataDone PROVE SourcesInv'
<1>1. CASE Fail BY <1>1, FailKeeps
<1>2. CASE ~Fail
  <2>1. phase = "dep11" /\ entries' = [i \in DOMAIN entries |-> Applied(entries[i])] /\ phase' = "index"
        /\ UNCHANGED <<refs, problems, ctx, next, worker, got, upto, apps, index>>
    BY <1>2 DEF MetadataDone
  <2>2. BuildTypes /\ (\A w \in Workers : Tries(w)) /\ Downloaded /\ MergedSoFar BY <2>1 DEF SourcesInv
  <2>3. PICK s : s = Stanzas OBVIOUS
  <2>4. MergedTo(entries, s) BY <2>1, <2>2, <2>3 DEF MergedSoFar
  <2>5. PICK E : E = Entry OBVIOUS
  <2>6. entries \in Seq(E) BY <2>4, <2>5 DEF MergedTo
  <2>7. PICK n : n = Len(entries) OBVIOUS
  <2>8. n \in Nat /\ DOMAIN entries = 1..n /\ \A i \in 1..n : entries[i] \in E BY <2>6, <2>7
  <2>9. PICK fs : fs = entries' OBVIOUS
  <2>10. apps \in Seq(Component) BY <2>2 DEF BuildTypes
  <2>11. fs = [i \in 1..n |-> Applied(entries[i])] BY <2>1, <2>8, <2>9
  <2>12. ASSUME NEW i \in 1..n PROVE fs[i] \in E /\ Same(fs[i], entries[i])
    <3>1. PICK e : e = entries[i] OBVIOUS
    <3>2. e \in Entry BY <2>5, <2>8, <3>1
    <3>3. Applied(e) \in Entry /\ Same(Applied(e), e) BY <2>10, <3>2, AppliedIs
    <3> QED BY <2>5, <2>11, <3>1, <3>3
  <2>13. fs \in [1..n -> E] BY <2>11, <2>12
  <2>14. fs \in Seq(E) /\ DOMAIN fs = 1..n BY <2>8, <2>13
  <2>15. \A i \in DOMAIN entries : Same(fs[i], entries[i]) BY <2>8, <2>12
  <2>16. MergedTo(fs, s)
    <3>1. fs \in Seq(Entry) /\ DOMAIN fs = DOMAIN entries BY <2>5, <2>8, <2>14
    <3> QED BY <2>4, <2>15, <3>1, SameKeeps
  <2>17. Downloaded' /\ Stanzas' = s BY <2>1, <2>2, <2>3, BuildStays
  <2>18. BuildTypes' BY <2>1, <2>2 DEF BuildTypes, Phases
  <2>19. \A w \in Workers : Tries(w)' BY <2>1, <2>2, WorkersStay
  <2>20. MergedSoFar'
    <3>1. MergedTo(entries, Stanzas)' BY <2>9, <2>16, <2>17
    <3> QED BY <2>1, <3>1 DEF MergedSoFar
  <2> QED BY <2>17, <2>18, <2>19, <2>20 DEF SourcesInv
<1> QED BY <1>1, <1>2

LEMMA IndexKeeps == ASSUME SourcesInv, BuildIndex PROVE SourcesInv'
<1>1. CASE Fail BY <1>1, FailKeeps
<1>2. CASE ~Fail
  <2>1. phase = "index" /\ index' = NewSearchIndex(Decode(BuildImage(SortedUnique(entries)))) /\ phase' = "done"
        /\ UNCHANGED <<refs, problems, ctx, next, worker, got, upto, entries, apps>>
    BY <1>2 DEF BuildIndex
  <2>2. BuildTypes /\ (\A w \in Workers : Tries(w)) /\ Downloaded /\ MergedSoFar BY <2>1 DEF SourcesInv
  <2>3. PICK s : s = Stanzas OBVIOUS
  <2>4. MergedTo(entries, s) BY <2>1, <2>2, <2>3 DEF MergedSoFar
  <2>5. Matching(NewSearchIndex(Decode(BuildImage(SortedUnique(entries)))).rows, s) BY <2>4, IndexMatches
  <2>6. PICK rows : rows = index'.rows OBVIOUS
  <2>7. Matching(rows, s) BY <2>1, <2>5, <2>6
  <2>8. Downloaded' /\ Stanzas' = s BY <2>1, <2>2, <2>3, BuildStays
  <2>9. BuildTypes' BY <2>1, <2>2 DEF BuildTypes, Phases
  <2>10. \A w \in Workers : Tries(w)' BY <2>1, <2>2, WorkersStay
  <2>11. MergedSoFar'
    <3>1. Matching(index.rows, Stanzas)' BY <2>6, <2>7, <2>8
    <3> QED BY <2>1, <3>1 DEF MergedSoFar
  <2> QED BY <2>8, <2>9, <2>10, <2>11 DEF SourcesInv
<1> QED BY <1>1, <1>2

LEMMA StepKeepsSources == ASSUME SourcesInv, [BuildNext]_bvars PROVE SourcesInv'
<1>1. CASE BuildTarget BY <1>1, TargetKeeps
<1>2. CASE CancelContext BY <1>2, CancelKeeps
<1>3. CASE DownloadsDone BY <1>3, DownloadsKeep
<1>4. CASE ParseGroup BY <1>4, ParseKeeps
<1>5. CASE ParsesDone BY <1>5, ParsesKeep
<1>6. CASE LoadMetadata BY <1>6, MetadataKeeps
<1>7. CASE MetadataDone BY <1>7, AppliedKeeps
<1>8. CASE BuildIndex BY <1>8, IndexKeeps
<1>9. ASSUME NEW w \in Workers, TakeGroup(w) PROVE SourcesInv' BY <1>9, TakeGroupKeeps
<1>10. ASSUME NEW w \in Workers, FetchGroup(w) PROVE SourcesInv' BY <1>10, FetchKeeps
<1>11. CASE UNCHANGED bvars
  <2>1. UNCHANGED <<refs, problems, phase, ctx, next, worker, got, upto, entries, apps, index>> BY <1>11 DEF bvars
  <2>2. CASE phase = "failed" BY <2>1, <2>2 DEF SourcesInv
  <2>3. CASE phase # "failed"
    <3>1. BuildTypes /\ (\A w \in Workers : Tries(w)) /\ Downloaded /\ MergedSoFar BY <2>3 DEF SourcesInv
    <3>2. BuildTypes' BY <2>1, <3>1 DEF BuildTypes
    <3>3. ASSUME NEW w \in Workers PROVE Tries(w)' BY <2>1, <3>1 DEF Tries, Silent
    <3>4. Downloaded' /\ Stanzas' = Stanzas /\ \A k : Read(k)' = Read(k) BY <2>1, <3>1, BuildStays
    <3>5. MergedSoFar' BY <2>1, <3>1, <3>4 DEF MergedSoFar
    <3> QED BY <3>2, <3>3, <3>4, <3>5 DEF SourcesInv
  <2> QED BY <2>2, <2>3
<1> QED BY <1>1, <1>2, <1>3, <1>4, <1>5, <1>6, <1>7, <1>8, <1>9, <1>10, <1>11 DEF BuildNext

(* Rows that match say, by name, what the last stanza of the name says.     *)
Says(rows, s) ==
  /\ {rows[k].name : k \in DOMAIN rows} = {s[i].name : i \in DOMAIN s}
  /\ \A k \in DOMAIN rows :
       LET same == {i \in DOMAIN s : s[i].name = rows[k].name}
           final == CHOOSE i \in same : \A j \in same : j <= i
       IN rows[k].from = s[final].from /\ rows[k].section = s[final].section

LEMMA MatchingSays ==
  ASSUME NEW rows, NEW s, Matching(rows, s), \A j \in DOMAIN s : j \in Nat
  PROVE  Says(rows, s)
<1>1. /\ \A k \in DOMAIN rows : \E j \in DOMAIN s : IsLast(s, j, rows[k])
      /\ \A j \in DOMAIN s : \E k \in DOMAIN rows : rows[k].name = s[j].name
  BY DEF Matching
<1>2. {rows[k].name : k \in DOMAIN rows} = {s[i].name : i \in DOMAIN s} BY <1>1 DEF IsLast
<1>3. ASSUME NEW k \in DOMAIN rows
      PROVE  LET same == {i \in DOMAIN s : s[i].name = rows[k].name}
                 final == CHOOSE i \in same : \A j \in same : j <= i
             IN rows[k].from = s[final].from /\ rows[k].section = s[final].section
  <2>1. PICK j \in DOMAIN s : IsLast(s, j, rows[k]) BY <1>1
  <2> DEFINE same == {i \in DOMAIN s : s[i].name = rows[k].name}
             final == CHOOSE i \in same : \A x \in same : x <= i
  <2>2. j \in same /\ \A x \in same : x <= j BY <2>1 DEF IsLast
  <2>3. final \in same /\ \A x \in same : x <= final BY <2>2
  <2>4. final <= j /\ j <= final /\ final \in Nat /\ j \in Nat BY <2>2, <2>3
  <2>5. final = j BY <2>4
  <2> HIDE DEF final
  <2>6. rows[k].from = s[final].from /\ rows[k].section = s[final].section BY <2>1, <2>5 DEF IsLast
  <2> QED BY <2>6 DEF final
<1> QED BY <1>2, <1>3 DEF Says

LEMMA SourcesAreRead == SourcesInv => IndexIsTheSources
<1> SUFFICES ASSUME SourcesInv, phase = "done" PROVE IndexIsTheSources BY DEF IndexIsTheSources
<1>1. BuildTypes /\ Downloaded /\ Matching(index.rows, Stanzas) BY DEF SourcesInv, MergedSoFar
<1>2. PICK s : s = Stanzas OBVIOUS
<1>3. PICK rows : rows = index.rows OBVIOUS
<1>4. \A j \in DOMAIN s : j \in Nat
  <2>1. PICK ls : ls = Lists OBVIOUS
  <2>2. ls \in Seq(Seq(Entry)) BY <1>1, <2>1, ListsAre
  <2>3. FlattenSeq(ls) \in Seq(Entry) BY <2>2, FlattenAre
  <2>4. s = FlattenSeq(ls) BY <1>2, <2>1 DEF Stanzas, Lists
  <2>5. PICK E : E = Entry OBVIOUS
  <2>6. s \in Seq(E) BY <2>3, <2>4, <2>5
  <2> QED BY <2>6
<1>5. Matching(rows, s) BY <1>1, <1>2, <1>3
<1>6. Says(rows, s) BY <1>4, <1>5, MatchingSays
<1>7. \A g \in DOMAIN got : got[g].state = "missing" =>
        \A i \in DOMAIN Groups(refs)[g] : Groups(refs)[g][i] \notin DOMAIN Published
  BY <1>1 DEF Downloaded
<1> QED BY <1>2, <1>3, <1>6, <1>7 DEF IndexIsTheSources, Says

(* A catalogue that was built is what was read from the archives: it lacks a   *)
(* list only if every archive that should offer it said there is none, and the *)
(* row of a package is the stanza read last in the order of the sources, for   *)
(* any sources, mirrors, workers and order of downloads (packagesFetchGroup,   *)
(* packagesMerger.add, cacheBuildImage).                                       *)
THEOREM CatalogueIsTheSources == BuildSpec => []IndexIsTheSources
<1>1. BuildInit => SourcesInv BY SourcesInit
<1>2. SourcesInv /\ [BuildNext]_bvars => SourcesInv' BY StepKeepsSources
<1>3. SourcesInv => IndexIsTheSources BY SourcesAreRead
<1> QED BY <1>1, <1>2, <1>3, PTL DEF BuildSpec
=============================================================================
