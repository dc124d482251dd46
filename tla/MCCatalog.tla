------------------------------ MODULE MCCatalog ------------------------------
(* The three parts of the catalogue side by side: a behaviour moves one of   *)
(* them, the others staying where they start, so that the run explores each  *)
(* part's states once and not their product.  The cache is moved by two       *)
(* saves, or by one beside sweeps.                                            *)
EXTENDS CatalogCache, Catalog, CatalogBuild, TLC

(* Sources: two mirrors of one suite and a second suite of one of them; a     *)
(* suite nobody publishes; and stanzas that are not used, each for another    *)
(* reason.                                                                    *)
Stanza(uris, suites, comps) ==
  [broken |-> FALSE, enabled |-> TRUE, types |-> <<"deb">>, uris |-> uris, suites |-> suites, comps |-> comps, arches |-> {}]
Mirrored == Stanza(<<"a", "b">>, <<"stable">>, <<"main">>)
Updates == Stanza(<<"a">>, <<"updates">>, <<"main">>)
Vendor == Stanza(<<"v">>, <<"stable">>, <<"main">>)
MCSourceFiles == {
  <<Mirrored, Updates>>,
  <<Stanza(<<"a", "b">>, <<"updates", "nowhere">>, <<"main">>)>>,
  <<[Mirrored EXCEPT !.arches = {"arm64"}], Stanza(<<"cdrom">>, <<"stable">>, <<"main">>), [Updates EXCEPT !.enabled = FALSE],
    [Updates EXCEPT !.types = <<"deb-src">>], [Updates EXCEPT !.suites = <<"flat/">>], Stanza(<<"a">>, <<"long">>, <<"main">>)>>,
  <<Stanza(<<"a">>, <<"${release}", "stable">>, <<"main">>)>> }
MCVendorFiles == {<<Stanza(<<"a">>, <<"stable">>, <<"main">>), Vendor>>}

Package(name, section, desc) == [name |-> name, section |-> section, desc |-> desc]
Ref(uri, suite) == [uri |-> uri, suite |-> suite, comp |-> "main"]
StableList == <<Package(2, "net", 1), Package(1, "", 1), Package(0, "net", 0), Package(3, "web", 2)>>
MCPublished ==
  Ref("a", "stable") :> StableList @@ Ref("b", "stable") :> StableList
  @@ Ref("a", "updates") :> <<Package(1, "web", 1), Package(4, "net", 1), Package(4, "web", 1)>>
  @@ Ref("a", "long") :> <<Package(1, "", 0), Package(2, "", 0), Package(3, "", 0), Package(4, "", 0), Package(5, "", 0)>>
  @@ Ref("v", "stable") :> <<Package(5, "web", 1)>>
App(name, type, cats) == [name |-> name, type |-> type, cats |-> cats]
MCMetadata ==
  Ref("a", "stable") :> <<App(3, "console-application", <<"Network">>), App(3, "desktop-application", <<"Network", "Qt">>), App(9, "font", <<>>)>>
  @@ Ref("a", "updates") :> <<App(3, "web-application", <<>>), App(1, "addon", <<"Qt">>), App(4, "desktop-application", <<"Qt", "Office">>)>>

Hit(name, app, summary) == [name |-> name, app |-> app, summary |-> summary]
MCTexts == {
  <<Hit("prefix", "none", "none"), Hit("sub", "exact", "word"), Hit("none", "word", "sub"), Hit("none", "none", "word"), Hit("none", "none", "none")>>,
  <<Hit("word", "none", "none"), Hit("word", "none", "none"), Hit("exact", "exact", "none"), Hit("word", "sub", "none"), Hit("none", "none", "sub")>> }
MCNameLen(n) == IF n = 1 THEN 3 ELSE 2

OneSave == 4

VARIABLE part   \* which of them this behaviour moves

CatalogInit ==
  /\ CacheInit /\ MemInit /\ BuildInit
  /\ part \in {"cache", "sweep", "memory", "build"}
  /\ dir.bin = 0 <=> part \notin {"cache", "sweep"}   \* a load of a damaged cache empties it too
  /\ part # "memory" => disk = [t \in Targets |-> 0]
  /\ part # "build" => refs = IndexRefs(CHOOSE f \in SourceFiles : TRUE)

CatalogNext ==
  \/ part = "cache" /\ CacheNext /\ ~sweeping' /\ UNCHANGED <<mvars, bvars, part>>
  \/ part = "sweep" /\ CacheNext /\ last' <= OneSave /\ UNCHANGED <<mvars, bvars, part>>
  \/ part = "memory" /\ MemNext /\ UNCHANGED <<cvars, bvars, part>>
  \/ part = "build" /\ BuildNext /\ UNCHANGED <<cvars, mvars, part>>

CatalogSpec == CatalogInit /\ [][CatalogNext]_<<cvars, mvars, bvars, part>>

VendorInit == CatalogInit /\ part = "build"
VendorSpec == VendorInit /\ [][CatalogNext]_<<cvars, mvars, bvars, part>>

Symmetry == Permutations(Writers) \cup Permutations(Callers)
=============================================================================
