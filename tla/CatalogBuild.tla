---------------------------- MODULE CatalogBuild ----------------------------
(***************************************************************************)
(* A build of the catalogue (gui/internal/catalog): from the apt sources   *)
(* of a target (sources.go, resolve.go, iface.go) to the indexes to fetch, *)
(* their download by concurrent workers and the entries read from them     *)
(* (packages.go), the application metadata (dep11.go), and the index that  *)
(* answers queries.                                                        *)
(*                                                                         *)
(* A stanza, an index reference and a package list are records of names;   *)
(* what an archive publishes under a reference is fixed, whether it        *)
(* answers is not.                                                         *)
(***************************************************************************)
EXTENDS CatalogSearch

CONSTANTS
  SourceFiles,       \* the source files a target may have: sequences of stanzas
  Arch,              \* the target's architecture
  Placeholders,      \* values with an unexpanded ${...}
  Unfetchable,       \* URIs the catalogue does not fetch from
  FlatSuites,        \* suites with a slash
  Published,         \* reference -> package list, for the lists archives publish
  Metadata,          \* reference -> application components, likewise
  Workers,           \* download workers
  MaxEntries,        \* packagesDefaultMaxEntries
  MaxDescriptions,   \* packagesMaxDescriptionsBytes
  Texts,             \* search texts
  MainCategories     \* searchMainCategories

VARIABLES
  refs,      \* Target.IndexRefs
  problems,  \* SourceProblems: the kinds reported
  phase,     \* resolve, download, parse, dep11, index, done, failed
  ctx,       \* the build's context: live or cancelled
  next,      \* the next group to download
  worker,    \* per worker: the group, the mirror it is at, what went wrong
  got,       \* per group: what its download ended with
  upto,      \* groups read, or metadata files read
  entries,   \* the merger's entries
  apps,      \* dep11Index.byPackage
  index      \* the index in memory

bvars == <<refs, problems, phase, ctx, next, worker, got, upto, entries, apps, index>>

(* The shapes of what is given: the fields of a stanza, of a package and of an  *)
(* application component that the code reads.                                 *)
SourceStanza == [broken : BOOLEAN, enabled : BOOLEAN, types : Seq(STRING), uris : Seq(STRING),
                 suites : Seq(STRING), comps : Seq(STRING), arches : SUBSET STRING]
Listed == [name : Nat, section : STRING, desc : Nat]
Component == [name : Nat, type : STRING, cats : Seq(STRING)]
ASSUME SourcesAssumption == SourceFiles \subseteq Seq(SourceStanza)
ASSUME ArchivesAssumption ==
  /\ \A r \in DOMAIN Published : Published[r] \in Seq(Listed)
  /\ \A r \in DOMAIN Metadata : Metadata[r] \in Seq(Component)

-----------------------------------------------------------------------------
(* From sources to references.                                             *)

Kept(values) == Where(values, LAMBDA v : v \notin Placeholders)
Usable(suites) == Where(Kept(suites), LAMBDA s : s \notin FlatSuites)
Noted(values) == IF Len(Kept(values)) < Len(values) THEN <<"placeholder">> ELSE <<>>

(* srcStanzaEntry and srcOneLineEntry: why a stanza is not used, in the order the *)
(* questions are asked; "" if it is.                                              *)
StanzaProblem(s) ==
  IF s.broken \/ <<s.types, s.uris, s.suites, s.comps>> = <<<<>>, <<>>, <<>>, <<>>>> THEN "malformed"
  ELSE IF ~s.enabled THEN "disabled"
  ELSE IF s.types # <<>> /\ ~Contains(s.types, "deb") THEN IF Contains(s.types, "deb-src") THEN "source-only" ELSE "unknown-type"
  ELSE IF Kept(s.uris) = <<>> THEN "no-uri"
  ELSE IF Kept(s.suites) = <<>> THEN "no-suite"
  ELSE IF Usable(s.suites) = <<>> THEN "flat-repository"
  ELSE IF Kept(s.comps) = <<>> THEN "no-component"
  ELSE ""

Source(s) == [uris |-> Kept(s.uris), suites |-> Usable(s.suites), comps |-> Kept(s.comps)]

(* SourcesForArch *)
ServesArch(s) == s.arches = {} \/ {Arch, "any"} \cap s.arches # {}

(* ResolveBase and ResolveSnapshot: the sources that can be used, and what was  *)
(* reported of the others.                                                      *)
Sources(file) == LET used == Where(file, LAMBDA s : StanzaProblem(s) = "" /\ ServesArch(s))
                 IN [i \in DOMAIN used |-> Source(used[i])]
StanzaReport(s) ==
  IF StanzaProblem(s) # "" THEN <<StanzaProblem(s)>>
  ELSE IF ~ServesArch(s) THEN <<"other-architecture">>
  ELSE Noted(s.uris) \o Noted(s.suites) \o Noted(s.comps)
SourceReport(s) == IF \E i \in DOMAIN s.uris : s.uris[i] \in Unfetchable THEN <<"unsupported-scheme">> ELSE <<>>
Report(file) == FlattenSeq([i \in DOMAIN file |-> StanzaReport(file[i])]) \o
                FlattenSeq([i \in DOMAIN Sources(file) |-> SourceReport(Sources(file)[i])])

(* IndexRefsWithProblems: every fetchable URI, suite and component, each once. *)
Unique(seq) == FoldLeft(LAMBDA acc, x : IF Contains(acc, x) THEN acc ELSE Append(acc, x), <<>>, seq)
SourceRefs(s) ==
  FlattenSeq([u \in DOMAIN s.uris |->
    IF s.uris[u] \in Unfetchable THEN <<>>
    ELSE FlattenSeq([d \in DOMAIN s.suites |->
           [c \in DOMAIN s.comps |-> [uri |-> s.uris[u], suite |-> s.suites[d], comp |-> s.comps[c]]]])])
IndexRefs(file) == Unique(FlattenSeq([i \in DOMAIN Sources(file) |-> SourceRefs(Sources(file)[i])]))

(* packagesGroupsFor: references that differ in the URI only are one group. *)
GroupKey(r) == <<r.suite, r.comp>>
GroupKeys(rs) == Unique([i \in DOMAIN rs |-> GroupKey(rs[i])])
Groups(rs) == [g \in DOMAIN GroupKeys(rs) |-> Where(rs, LAMBDA r : GroupKey(r) = GroupKeys(rs)[g])]

-----------------------------------------------------------------------------
(* What the download of a group ended with, and the mirror a list came from. *)
Ended(state, mirror) == [state |-> state, mirror |-> mirror]
ListRef(g) == Groups(refs)[g][got[g].mirror]

NoWorker == [pc |-> "idle", group |-> 0, mirror |-> 0, err |-> FALSE]

BuildInit ==
  /\ \E file \in SourceFiles : refs = IndexRefs(file) /\ problems = Report(file)
  /\ phase = "resolve" /\ ctx = "live" /\ next = 1
  /\ worker = [w \in Workers |-> NoWorker]
  /\ got = <<>> /\ upto = 0 /\ entries = <<>> /\ apps = <<>> /\ index = NewSearchIndex(<<>>)

Fail == phase' = "failed" /\ UNCHANGED <<refs, problems, ctx, next, worker, got, upto, entries, apps, index>>

(* Target.Validate and the start of PackagesLoader.Load. *)
BuildTarget ==
  /\ phase = "resolve"
  /\ IF refs = <<>> \/ Contains(problems, "placeholder") THEN Fail
     ELSE /\ phase' = "download"
          /\ got' = [g \in DOMAIN Groups(refs) |-> Ended("none", 0)]
          /\ UNCHANGED <<refs, problems, ctx, next, worker, upto, entries, apps, index>>

CancelContext ==
  /\ ctx = "live" /\ phase \in {"download", "parse", "dep11", "index"}
  /\ ctx' = "cancelled"
  /\ UNCHANGED <<refs, problems, phase, next, worker, got, upto, entries, apps, index>>

(* packagesDownloadAll: a worker takes the next group, or is done. *)
TakeGroup(w) ==
  /\ phase = "download" /\ worker[w].pc = "idle"
  /\ next' = next + 1
  /\ worker' = [worker EXCEPT ![w] = IF next > Len(Groups(refs)) \/ ctx = "cancelled"
                                     THEN [NoWorker EXCEPT !.pc = "done"]
                                     ELSE [pc |-> "get", group |-> next, mirror |-> 1, err |-> FALSE]]
  /\ UNCHANGED <<refs, problems, phase, ctx, got, upto, entries, apps, index>>

(* packagesGet: a list, a 404, a cancelled request or any other failure. *)
Outcomes(r) == {"failed"} \cup (IF r \in DOMAIN Published THEN {"list"} ELSE {"missing"})
                          \cup (IF ctx = "cancelled" THEN {"cancelled"} ELSE {})

\* Mutant of FetchGroup: only the last mirror's failure counts.
FetchGroupLastError(w) ==
  /\ phase = "download" /\ worker[w].pc = "get"
  /\ LET g == worker[w].group
         urls == Groups(refs)[g]
     IN \E out \in Outcomes(urls[worker[w].mirror]) :
          IF out \in {"missing", "failed"} /\ worker[w].mirror < Len(urls)
          THEN worker' = [worker EXCEPT ![w].mirror = @ + 1] /\ UNCHANGED got
          ELSE /\ worker' = [worker EXCEPT ![w] = NoWorker]
               /\ got' = [got EXCEPT ![g] = IF out = "list" THEN Ended("list", worker[w].mirror)
                                            ELSE Ended(IF out \in {"failed", "cancelled"} THEN "failed" ELSE "missing", 0)]
  /\ UNCHANGED <<refs, problems, phase, ctx, next, upto, entries, apps, index>>

(* packagesFetchGroup: the first mirror that answers; a miss only if all miss. *)
FetchGroup(w) ==
  /\ phase = "download" /\ worker[w].pc = "get"
  /\ LET g == worker[w].group
         urls == Groups(refs)[g]
     IN \E out \in Outcomes(urls[worker[w].mirror]) :
          LET err  == worker[w].err \/ out = "failed"
              more == out \in {"missing", "failed"} /\ worker[w].mirror < Len(urls)
          IN IF more
             THEN /\ worker' = [worker EXCEPT ![w].mirror = @ + 1, ![w].err = err]
                  /\ UNCHANGED got
             ELSE /\ worker' = [worker EXCEPT ![w] = NoWorker]
                  /\ got' = [got EXCEPT ![g] = IF out = "list" THEN Ended("list", worker[w].mirror)
                                               ELSE Ended(IF err \/ out = "cancelled" THEN "failed" ELSE "missing", 0)]
  /\ UNCHANGED <<refs, problems, phase, ctx, next, upto, entries, apps, index>>

(* Load, once every worker is done: any failure is the build's. *)
DownloadsDone ==
  /\ phase = "download" /\ \A w \in Workers : worker[w].pc = "done"
  /\ IF ctx = "cancelled" \/ \E g \in DOMAIN got : got[g].state = "failed" THEN Fail
     ELSE /\ phase' = "parse"
          /\ UNCHANGED <<refs, problems, ctx, next, worker, got, upto, entries, apps, index>>

-----------------------------------------------------------------------------
(* Reading the lists.                                                       *)

(* ParsePackagesIndex: the stanzas that have a usable name. *)
Readable(list) == Where(list, LAMBDA p : p.name # None)

Total(es) == FoldLeft(LAMBDA n, e : n + e.desc, 0, es)

(* packagesMerger.add: the last stanza read of a name replaces the one before, *)
(* in its place; a description over the budget is dropped.                     *)
MergerAdd(es, e) ==
  LET at   == {i \in DOMAIN es : es[i].name = e.name}
      old  == IF at = {} THEN 0 ELSE es[CHOOSE i \in at : TRUE].desc
      kept == IF Total(es) - old + e.desc > MaxDescriptions THEN [e EXCEPT !.desc = 0] ELSE e
  IN IF at = {} THEN Append(es, kept) ELSE [es EXCEPT ![CHOOSE i \in at : TRUE] = kept]

FromList(r) == [i \in DOMAIN Readable(Published[r]) |->
                  LET p == Readable(Published[r])[i]
                  IN [name |-> p.name, from |-> <<r, i>>, section |-> p.section, desc |-> p.desc, type |-> "", cats |-> <<>>]]

(* packagesParseBody and packagesParseVerdict: too many stanzas, or some but    *)
(* none that can be read.                                                       *)
ParseFails(r) == Len(Readable(Published[r])) > MaxEntries
                 \/ (Published[r] # <<>> /\ Readable(Published[r]) = <<>>)

ParseGroup ==
  /\ phase = "parse" /\ upto < Len(got)
  /\ LET g == upto + 1
     IN \/ got[g].state = "missing" /\ upto' = g /\ UNCHANGED <<entries, phase>>
        \/ /\ got[g].state = "list" /\ (ctx = "cancelled" \/ ParseFails(ListRef(g)))
           /\ phase' = "failed" /\ UNCHANGED <<entries, upto>>
        \/ /\ got[g].state = "list" /\ ctx = "live" /\ ~ParseFails(ListRef(g))
           /\ entries' = FoldLeft(MergerAdd, entries, FromList(ListRef(g)))
           /\ upto' = g /\ UNCHANGED phase
  /\ UNCHANGED <<refs, problems, ctx, next, worker, got, apps, index>>

ParsesDone ==
  /\ phase = "parse" /\ upto = Len(got)
  /\ phase' = "dep11" /\ upto' = 0
  /\ UNCHANGED <<refs, problems, ctx, next, worker, got, entries, apps, index>>

-----------------------------------------------------------------------------
(* Application metadata.                                                    *)

TypeRank(t) == CASE t = "desktop-application" -> 4 [] t = "console-application" -> 3
                 [] t = "web-application" -> 2 [] t = "addon" -> 0 [] OTHER -> 1

(* dep11Decode and dep11Index.Add: add-ons are left out, and a component gives  *)
(* way only to one of a higher rank.                                            *)
AddApp(as, a) ==
  LET at == {i \in DOMAIN as : as[i].name = a.name}
  IN IF a.type = "addon" \/ a.name = None THEN as
     ELSE IF at = {} THEN Append(as, a)
     ELSE LET i == CHOOSE i \in at : TRUE
          IN IF TypeRank(as[i].type) >= TypeRank(a.type) THEN as ELSE [as EXCEPT ![i] = a]

(* dep11LoadRef: read whole, in part, or not at all; none of these is fatal, *)
(* a cancelled context is.                                                   *)
LoadMetadata ==
  /\ phase = "dep11" /\ upto < Len(refs)
  /\ LET r == refs[upto + 1]
         file == IF r \in DOMAIN Metadata THEN Metadata[r] ELSE <<>>
     IN IF ctx = "cancelled" THEN phase' = "failed" /\ UNCHANGED <<apps, upto>>
        ELSE /\ \E n \in 0..Len(file) : apps' = FoldLeft(AddApp, apps, SubSeq(file, 1, n))
             /\ upto' = upto + 1 /\ UNCHANGED phase
  /\ UNCHANGED <<refs, problems, ctx, next, worker, got, entries, index>>

(* Reconcile and Apply: only components of packages the target has. *)
Applied(e) ==
  LET at == {i \in DOMAIN apps : apps[i].name = e.name}
  IN IF at = {} THEN e
     ELSE LET a == apps[CHOOSE i \in at : TRUE] IN [e EXCEPT !.type = a.type, !.cats = a.cats]

MetadataDone ==
  /\ phase = "dep11" /\ upto = Len(refs)
  /\ IF ctx = "cancelled" THEN Fail
     ELSE /\ entries' = [i \in DOMAIN entries |-> Applied(entries[i])]
          /\ phase' = "index"
          /\ UNCHANGED <<refs, problems, ctx, next, worker, got, upto, apps, index>>

(* SaveCache and load: through the image, as a later start will read it. *)
BuildIndex ==
  /\ phase = "index"
  /\ LET img == BuildImage(SortedUnique(entries))
     IN IF ctx = "cancelled" \/ ~img.ok THEN Fail
        ELSE /\ index' = NewSearchIndex(Decode(img))
             /\ phase' = "done"
             /\ UNCHANGED <<refs, problems, ctx, next, worker, got, upto, entries, apps>>

-----------------------------------------------------------------------------
BuildNext ==
  \/ BuildTarget \/ CancelContext \/ DownloadsDone \/ ParseGroup \/ ParsesDone
  \/ LoadMetadata \/ MetadataDone \/ BuildIndex
  \/ \E w \in Workers : TakeGroup(w) \/ FetchGroup(w)

BuildSpec == BuildInit /\ [][BuildNext]_bvars

-----------------------------------------------------------------------------
(* Properties.                                                             *)

(* A catalogue that was built is what was read from the archives.  It lacks    *)
(* the packages of a list only if every archive that should offer it said there *)
(* is none: a mirror that fails is never taken for one that has nothing,       *)
(* whichever workers and mirrors met it.  And the row of a package is the      *)
(* stanza read last in the order of the sources, whatever order the downloads  *)
(* ended in, unchanged by the merge, the image and the index                   *)
(* (packagesFetchGroup, packagesMerger.add, cacheBuildImage).                  *)
Stanzas == FlattenSeq([g \in DOMAIN got |-> IF got[g].state = "list" THEN FromList(ListRef(g)) ELSE <<>>])
IndexIsTheSources ==
  phase = "done" =>
    /\ \A g \in DOMAIN got : got[g].state = "missing" =>
         \A i \in DOMAIN Groups(refs)[g] : Groups(refs)[g][i] \notin DOMAIN Published
    /\ {index.rows[k].name : k \in DOMAIN index.rows} = {Stanzas[i].name : i \in DOMAIN Stanzas}
    /\ \A k \in DOMAIN index.rows :
         LET same == {i \in DOMAIN Stanzas : Stanzas[i].name = index.rows[k].name}
             last == CHOOSE i \in same : \A j \in same : j <= i
         IN index.rows[k].from = Stanzas[last].from /\ index.rows[k].section = Stanzas[last].section

(* Every page of every search is a part of one list, the matches by rank and    *)
(* then by name, none twice and none left out; and a category holds as many     *)
(* rows as it is said to (Search, Categories).                                  *)
Queries == [text : Texts \cup {<<>>}, cat : DOMAIN index.postings \cup {<<>>}, apps : BOOLEAN, limit : 1..2]
Better(q, i, j) ==
  LET r(k) == IF q.text = <<>> THEN 0 ELSE SearchRank(index.rows[k], q.text)
  IN r(i) < r(j) \/ (r(i) = r(j) /\ i < j)
Matches(q) ==
  {k \in DOMAIN index.rows :
     /\ q.cat = <<>> \/ q.cat \in CategoryIds(index.rows[k])
     /\ q.apps => IsApp(index.rows[k])
     /\ q.text = <<>> \/ SearchRank(index.rows[k], q.text) # NoRank}
SearchIsRanked ==
  phase = "done" =>
    /\ \A q \in Queries : \A offset \in 0..Cardinality(Matches(q)) :
         LET ranked == Sorted(Matches(q), LAMBDA i, j : Better(q, i, j))
             page   == Search(index, [text |-> q.text, cat |-> q.cat, apps |-> q.apps, limit |-> q.limit, offset |-> offset])
         IN /\ page.total = Len(ranked)
            /\ page.rows = SubSeq(ranked, offset + 1, IF offset + q.limit < Len(ranked) THEN offset + q.limit ELSE Len(ranked))
    /\ \A id \in DOMAIN Categories(index, MainCategories) :
         Categories(index, MainCategories)[id] = Cardinality({k \in DOMAIN index.rows : id \in CategoryIds(index.rows[k])})

(* "Load fetches every IndexPackages ref of t and parses it into entries"       *)
(* (PackagesLoader.Load): a catalogue that was built has every package that an  *)
(* archive of the target publishes.                                             *)
EverySourceIsRead ==
  phase = "done" =>
    \A i \in DOMAIN refs : refs[i] \in DOMAIN Published =>
      \A j \in DOMAIN FromList(refs[i]) : Get(index, FromList(refs[i])[j].name) # None
=============================================================================
