---------------------------- MODULE MCBundleBuild ----------------------------
(* BundleBuild on a small instance: two versions of one package, one of     *)
(* another that the operator supplied, and requests that differ in what     *)
(* they select, sign, prune and write beside the bundle; and BundleOpen on   *)
(* archives of up to three entries; and Policy on files of up to three        *)
(* fields.  A behaviour does one of these, or one of what MCDelivery adds.    *)
EXTENDS BundleBuild, BundleOpen, Policy, TLC

OldApp == [name |-> "app", version |-> 1, user |-> FALSE]
NewApp == [name |-> "app", version |-> 2, user |-> FALSE]
OldTool == [name |-> "tool", version |-> 1, user |-> TRUE]
NewTool == [name |-> "tool", version |-> 2, user |-> FALSE]

MCPoolFiles == {OldApp, NewApp, OldTool, NewTool}

Asked(sel, sign, extras, prune, asTar) ==
    [sel |-> sel, sign |-> sign, extras |-> extras, prune |-> prune, tar |-> asTar]

MCRequests ==
    { Asked({OldApp, OldTool}, TRUE, {"sbom"}, FALSE, FALSE),
      Asked({OldApp}, FALSE, {}, FALSE, TRUE),
      Asked({NewApp, NewTool}, TRUE, {"bin"}, TRUE, TRUE),
      Asked({NewApp}, FALSE, {"sbom", "bin"}, TRUE, FALSE) }

E(n, k, sz) == [name |-> n, odd |-> FALSE, abs |-> FALSE, kind |-> k, size |-> sz]
MCFolded == [p \in {"a", "A", "d", ".."} |-> IF p = "A" THEN "a" ELSE p]

(* Files and directories that meet, differ in case, leave the directory or    *)
(* come back into it, and reach the limits of an entry and of the archive.    *)
Plain == {E(<<"a">>, "reg", 0), E(<<"a">>, "reg", 2), E(<<"d", "a">>, "reg", 2), E(<<"d">>, "dir", 0), E(<<"d", ".", "A">>, "reg", 1)}
Unusual == {E(<<"A">>, "reg", 1), E(<<"d">>, "reg", 3), E(<<"a">>, "dir", 0), E(<<"d", "..", "a">>, "reg", 1), E(<<"..", "a">>, "reg", 1),
            E(<<".">>, "dir", 0), E(<<"d">>, "link", 0), [E(<<"a">>, "reg", 0) EXCEPT !.odd = TRUE], [E(<<"a">>, "reg", 0) EXCEPT !.abs = TRUE]}
MCArchives ==
    {<<>>} \cup {<<x>> : x \in Plain \cup Unusual} \cup {<<x, y>> : x, y \in Plain \cup Unusual} \cup {<<x, y, z>> : x, y \in Plain, z \in Plain \cup Unusual}

FirstRequest == CHOOSE r \in Requests : r.tar /\ ~r.sign

Field(k, l, ws) == [key |-> k, list |-> l, words |-> ws]
Version == Field("schema_version", FALSE, {"debark.policy/v1"})
MCSpelled == ("FP1" :> "FP1") @@ ("0xfp1" :> "FP1") @@ ("FP2" :> "FP2")
MCGlobs == ("app*" :> {"app", "app-dbg"}) @@ ("*" :> {"app", "app-dbg", "tool"})
MCLower == ("Main" :> "main") @@ ("DKMS" :> "dkms") @@ ("HTTPS" :> "https")
    @@ ("APT" :> "apt") @@ ("Install-Recommends" :> "install-recommends") @@ ("Binary" :> "binary") @@ ("Solver" :> "solver")
    @@ ("RemoveManual" :> "removemanual") @@ ("Architectures" :> "architectures") @@ ("Acquire" :> "acquire") @@ ("Proxy" :> "proxy")
    @@ ("DPkg" :> "dpkg") @@ ("Pre-Invoke" :> "pre-invoke") @@ ("Dir" :> "dir") @@ ("Cache" :> "cache")
    @@ ("Get" :> "get") @@ ("AllowUnauthenticated" :> "allowunauthenticated") @@ ("Deep" :> "deep")
MCFields ==
    {Field("allow_components", TRUE, {"Main"}), Field("deny_components", TRUE, {"universe"}), Field("allow_packages", TRUE, {"app*"}), Field("deny_packages", TRUE, {"app*"}),
     Field("deny_packages", TRUE, {"[a"}), Field("require_signed_publisher", FALSE, {"true"}), Field("require_signed_publisher", FALSE, {"yes"}),
     Field("allow_url_inputs", FALSE, {"false"}), Field("approved_keys", TRUE, {"0xfp1"}), Field("approved_keys", TRUE, {"short"}), Field("deny_flags", TRUE, {"DKMS"}),
     Field("deny_flags", TRUE, {}), Field("deny_flags", FALSE, {"dkms"}), Field("deny_flag", TRUE, {"dkms"}), Field("default_severity", FALSE, {"deny"}),
     Field("approved_keys", FALSE, {}), Field("allow_url_inputs", FALSE, {}), Field("default_severity", FALSE, {""}),
     Field("default_severity", FALSE, {"info"}), Field("default_severity", FALSE, {"Deny"})}
MCDocuments ==
    {<<>>, <<Field("schema_version", FALSE, {"debark.policy/v2"})>>} \cup {<<Version>>} \cup {<<x, Version>> : x \in MCFields} \cup {<<Version, x, y>> : x, y \in MCFields}
     \cup {<<Version, Field("default_severity", FALSE, {"deny"}), x>> : x \in MCFields}
MainArchive == <<"deb.debian.org", "debian">>
VendorHost == <<"vendor.example">>
VendorRepo == <<"vendor.example", "stable">>
Pkg(n, c, offers, fl, fp) ==
    [name |-> n, component |-> c, section |-> "universe", pv |-> "", external |-> FALSE, scheme |-> "file", flags |-> fl, fp |-> fp, offers |-> offers]
MCPlans == {{Pkg("app", "main", {MainArchive}, {}, "FP1")},
            {[Pkg("app", "", {}, {"dkms"}, "") EXCEPT !.pv = "url-unverified", !.external = TRUE, !.scheme = "HTTPS"]},
            {Pkg("app", "main", {MainArchive, VendorRepo}, {}, "FP2"), Pkg("tool", "main", {MainArchive}, {"user-supplied"}, "FP1")}}

Ring(p, b, bytes, fps) == [path |-> p, base |-> b, local |-> TRUE, bytes |-> bytes, fps |-> fps]
Rings == <<Ring("/trusted/a.gpg", "a.gpg", "one", {"FP1"}), Ring("/keyrings/a.gpg", "a.gpg", "two", {"FP2"}), Ring("/keyrings/b.asc", "b.asc", "junk", {})>>
Entry(u, t, form, names) == [uri |-> u, trusted |-> t, form |-> form, names |-> names]
File(deb822, es) == [deb822 |-> deb822, local |-> TRUE, entries |-> es]
Setting(keys, v) == [directive |-> "", keys |-> keys, value |-> v]
Settings ==
    {Setting(<<<<"APT", "Install-Recommends">>>>, "plain"), Setting(<<<<"APT">>, <<"Install-Recommends">>, <<"Deep">>>>, "plain"),
     Setting(<<<<"Binary">>, <<"apt-get">>, <<"APT">>, <<"Solver">>>>, "plain"), Setting(<<<<"APT", "Solver">>>>, "path"),
     Setting(<<<<"APT", "Solver">>, <<"RemoveManual">>>>, "plain"), Setting(<<<<"APT", "Architectures">>, <<>>>>, "plain"),
     Setting(<<<<"Acquire">>, <<"http", "Proxy">>>>, "plain"), Setting(<<<<"DPkg">>, <<"Pre-Invoke">>, <<>>>>, "plain"),
     Setting(<<<<"Binary", "apt-get">>, <<"Dir">>, <<"Cache">>>>, "plain"), Setting(<<<<"APT">>, <<"Get">>, <<"AllowUnauthenticated">>>>, "plain"),
     [directive |-> "#clear", keys |-> <<>>, value |-> ""], [directive |-> "#", keys |-> <<>>, value |-> ""]}
SpecOf(sources, conf, extra) == [keyrings |-> Rings, sources |-> sources, conf |-> conf, extra |-> extra, status |-> TRUE, allowProxy |-> FALSE]
OnePinned == SpecOf({File(TRUE, {Entry(MainArchive, FALSE, "list", <<"/trusted/a.gpg">>)})}, {}, {})
MCRootSpecs ==
    {OnePinned,
     SpecOf({File(FALSE, {Entry(MainArchive, FALSE, "list", <<"/keyrings/a.gpg", "/gone.gpg">>)}), File(TRUE, {Entry(VendorHost, TRUE, "none", <<>>)})}, Settings, {}),
     [SpecOf({File(FALSE, {Entry(MainArchive, FALSE, "list", <<"/trusted/a.gpg", "/keyrings/a.gpg">>)})}, Settings, {<<"", "staging">>}) EXCEPT !.allowProxy = TRUE],
     [SpecOf({File(FALSE, {Entry(VendorRepo, TRUE, "list", <<"/keyrings/a.gpg">>)}), File(TRUE, {Entry(MainArchive, FALSE, "list", <<"/gone.gpg">>)})}, {}, {}) EXCEPT !.status = FALSE],
     SpecOf({File(TRUE, {Entry(MainArchive, FALSE, "list", <<"FP1">>), Entry(VendorRepo, FALSE, "list", <<"/keyrings/b.asc">>)})}, {}, {}),
     [OnePinned EXCEPT !.keyrings[2].local = FALSE]}
MCKeyPaths == {"/trusted/a.gpg", "/keyrings/a.gpg", "/keyrings/b.asc", "/gone.gpg"}
MCKeyFiles == {{}, {"#"}, {"#", "FP1"}, {"FP2"}, {"FP1", "short"}}
AnyPlan == {Pkg("app", "main", {MainArchive}, {}, "FP1")}

VARIABLE part   \* what this behaviour does

BundleParts == {"build", "open", "policy"}
bundleVars == <<vars, ovars, pvars>>

\* What the part does not move starts in one way.
PartInit(p) ==
    /\ IF p = "build" THEN Init ELSE req = [b \in Gens |-> FirstRequest] /\ Init
    /\ IF p = "open" THEN OpenInit ELSE archive = <<>> /\ OpenInit
    /\ IF p = "policy" THEN PolicyInit ELSE document = <<>> /\ keyFile = {} /\ plan = AnyPlan /\ snapshot = OnePinned /\ PolicyInit
BundleNext ==
    \/ part = "build" /\ Next /\ UNCHANGED <<ovars, pvars, part>>
    \/ part = "open" /\ OpenNext /\ UNCHANGED <<vars, pvars, part>>
    \/ part = "policy" /\ PolicyNext /\ UNCHANGED <<vars, ovars, part>>
=============================================================================
