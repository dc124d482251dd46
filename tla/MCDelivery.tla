----------------------------- MODULE MCDelivery -----------------------------
(* A bundle's way, in six parts: those of MCBundleBuild (its directory, its    *)
(* archive, the policy and the private root), and the two ends where apt works: *)
(* resolving on the builder (one build with faults, or two that share the        *)
(* volume and the working directory) and installing on the target.  A           *)
(* behaviour moves one of them.                                                *)
EXTENDS MCBundleBuild, AptBackend, Install

MCNameOrder == <<"base", "hold", "lib", "prog", "vend">>
MCArchive == [f \in {<<"base", 1>>, <<"hold", 1>>, <<"hold", 2>>, <<"lib", 1>>, <<"lib", 2>>, <<"prog", 1>>} |-> FALSE]
MCVendor == {<<"vend", 1>>, <<"lib", 2>>}
MCInstalled == "base" :> 0 @@ "hold" :> 1 @@ "lib" :> 1 @@ "prog" :> 0 @@ "vend" :> 0
MCNeeds == "base" :> {} @@ "hold" :> {} @@ "lib" :> {"base"} @@ "prog" :> {"lib", "hold"} @@ "vend" :> {"lib", "base"}
Ask == [packages |-> {"prog"}, externals |-> {}, upgrades |-> FALSE, volume |-> FALSE, backend |-> "auto"]
Vend == [Ask EXCEPT !.packages = {}, !.externals = {"vend"}, !.backend = "container", !.volume = TRUE]
MCResolves == {Ask, Vend, [Vend EXCEPT !.packages = {"prog"}], [Vend EXCEPT !.packages = {"prog"}, !.upgrades = TRUE, !.backend = "local"]}

MCPaths == <<"Packages", "a.deb", "b.deb", "c.deb", "lock.json">>
MCPoolDebs == {"a.deb", "b.deb", "c.deb"}
Disk(p, a, b, c, l) == "Packages" :> p @@ "a.deb" :> a @@ "b.deb" :> b @@ "c.deb" :> c @@ "lock.json" :> l
Doc == [ok |-> TRUE, arch |-> "amd64", foreign |-> {}, packages |-> "a.deb" :> 1 @@ "b.deb" :> 1,
        install |-> {"a.deb"}, upgrade |-> {"b.deb"}, assumed |-> {"b.deb"}]
Doc2 == [Doc EXCEPT !.packages = "a.deb" :> 2 @@ "c.deb" :> 2, !.install = {"a.deb", "c.deb"}, !.upgrade = {}]
MCLockDocs == 0 :> NoDoc @@ 1 :> Doc @@ 2 :> Doc2 @@ 9 :> NoDoc
MCIndexes == <<Disk(0, 1, 1, 0, 0), Disk(0, 2, 0, 2, 0)>>
WholeBundle == [manifest |-> [state |-> "ok", files |-> Disk(1, 1, 1, 0, 1), lock |-> 1, repository |-> 1, dup |-> FALSE],
          sig |-> [state |-> "ok", over |-> TRUE, blocks |-> <<"untrusted", "valid">>], disk |-> Disk(1, 1, 1, 0, 1), shared |-> FALSE]
MCMedia == {WholeBundle,
  [WholeBundle EXCEPT !.disk["c.deb"] = 2], [WholeBundle EXCEPT !.disk["b.deb"] = 2],
  [WholeBundle EXCEPT !.sig.blocks = <<"untrusted">>, !.shared = TRUE],
  [WholeBundle EXCEPT !.manifest.lock = 2, !.manifest.files["lock.json"] = 2, !.disk["lock.json"] = 2] }
Opt == [skip |-> FALSE, allowUnsigned |-> FALSE, sameMedia |-> FALSE, keep |-> FALSE, dpkg |-> FALSE, all |-> FALSE, only |-> {},
        upgrade |-> FALSE, apply |-> TRUE, yes |-> TRUE, tty |-> FALSE]
MCRunOptions == {Opt, [Opt EXCEPT !.dpkg = TRUE, !.allowUnsigned = TRUE], [Opt EXCEPT !.upgrade = TRUE, !.keep = TRUE, !.allowUnsigned = TRUE],
   [Opt EXCEPT !.apply = FALSE], [Opt EXCEPT !.yes = FALSE, !.all = TRUE], [Opt EXCEPT !.only = {"b.deb"}], [Opt EXCEPT !.only = {NoName}], [Opt EXCEPT !.skip = TRUE]}

DeliveryParts == {"resolve", "resolves", "install"}

DeliveryInit ==
  /\ part \in BundleParts \cup DeliveryParts /\ PartInit(part) /\ AptInit /\ InstallInit
  /\ part # "install" => bundle = WholeBundle

Began(reqs) == \A b \in Builds : task'[b].run # task[b].run => task'[b].req \in reqs
Alone ==   \* a build, and the same request once more in the same directories
  /\ Cardinality({b \in Builds : task'[b] # NoTask}) <= 1
  /\ Began(MCResolves \ {Vend})
  /\ \A b \in Builds : task[b].run > 0 => task'[b].req.backend = task[b].req.backend
Pair == UNCHANGED tally.faults /\ Began({Ask, Vend})

DeliveryNext ==
  \/ BundleNext /\ UNCHANGED <<avars, ivars>>
  \/ part = "resolve" /\ AptNext /\ Alone /\ UNCHANGED <<bundleVars, ivars, part>>
  \/ part = "resolves" /\ AptNext /\ Pair /\ UNCHANGED <<bundleVars, ivars, part>>
  \/ part = "install" /\ InstallNext /\ UNCHANGED <<bundleVars, avars, part>>

DeliverySpec == DeliveryInit /\ [][DeliveryNext]_<<bundleVars, avars, ivars, part>>

Symmetry == Permutations(Builds)
=============================================================================
