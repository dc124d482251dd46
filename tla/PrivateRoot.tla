----------------------------- MODULE PrivateRoot -----------------------------
(* The private apt root that a build makes from a snapshot (core/apt root.go, *)
(* sources.go, aptconf.go): the captured keyrings are copied into one         *)
(* directory, the Signed-By values of the sources are rewritten to the        *)
(* copies, and of the captured apt.conf only the settings that change what    *)
(* apt selects are carried over.                                              *)
(* A spec is [keyrings, sources, conf, extra, status, allowProxy]:            *)
(*   a keyring is [path, base, local, bytes, fps], in the order of its        *)
(*     archive path, fps what its bytes hold;                                 *)
(*   a source file is [deb822, local, entries], an entry [uri, trusted, form, *)
(*     names], form saying how Signed-By is given: none, inline or list;      *)
(*   a setting is [directive, keys, value], keys one path for each block that *)
(*     holds it and its own last, <<>> when it is a bare value of a list.     *)
(* A URI is the sequence of its segments, without scheme and credentials:     *)
(* what aptURItoFileName keeps apart.                                         *)
EXTENDS Naturals, Sequences, SequencesExt

CONSTANTS
    KeyPaths,  \* the Signed-By elements that are absolute paths
    Lower      \* the lower-case form of the words that have another

Empty == ""   \* the empty string

FoldCase(w) == IF w \in DOMAIN Lower THEN Lower[w] ELSE w
Fold(path) == [i \in DOMAIN path |-> FoldCase(path[i])]

(***************************************************************************)
(* Keyrings                                                                *)
(***************************************************************************)

\* Mutant of KeyringName: a name that was used before is used again.
KeyringNameAgain(ks, i) == <<ks[i].base, Empty>>

\* A base name that an earlier keyring took is told apart by the path.
KeyringName(ks, i) ==
    <<ks[i].base, IF \E j \in 1..(i - 1) : ks[j].base = ks[i].base THEN ks[i].path ELSE Empty>>

LastOf(S) == CHOOSE i \in S : \A j \in S : j <= i
KeyringAt(ks, path) == LastOf({i \in DOMAIN ks : ks[i].path = path})

\* trusted.gpg.d: of two writes of one name the later stays.
TrustedDir(ks) ==
    [n \in {KeyringName(ks, i) : i \in DOMAIN ks} |-> ks[LastOf({i \in DOMAIN ks : KeyringName(ks, i) = n})].bytes]
KeyringDest(ks) == [p \in {ks[i].path : i \in DOMAIN ks} |-> KeyringName(ks, KeyringAt(ks, p))]
KeyringFingerprints(ks) == [p \in {ks[i].path : i \in DOMAIN ks} |-> ks[KeyringAt(ks, p)].fps]

(***************************************************************************)
(* Sources                                                                 *)
(***************************************************************************)

\* The elements of a list that keep a meaning in the private root: key
\* fingerprints, and paths of captured keyrings.
Kept(names, ks) == {n \in names : n \notin KeyPaths \/ n \in DOMAIN KeyringDest(ks)}

\* rewriteSignedByList and fingerprintsFor, a record per element; it is
\* stripped when nothing of the list is left.
RewriteSignedByList(names, ks) ==
    IF names = {} THEN {[orig |-> Empty, inline |-> FALSE, stripped |-> TRUE, fps |-> {}]}
    ELSE {[orig |-> IF n \in KeyPaths THEN n ELSE Empty, inline |-> n \notin KeyPaths, stripped |-> Kept(names, ks) = {},
           fps |-> IF n \in DOMAIN KeyringFingerprints(ks) THEN KeyringFingerprints(ks)[n] ELSE {}] : n \in names}

\* The deb822 grammar takes a value that does not begin with a path as inline
\* key material; the one-line grammar always reads a list.
Inline(f, e) ==
    /\ f.deb822 /\ e.form # "none"
    /\ e.form = "list" => e.names = <<>> \/ Head(e.names) \notin KeyPaths

SignedByOf(f, e, ks) ==
    IF e.form = "none" THEN {}
    ELSE IF Inline(f, e) THEN {[orig |-> Empty, inline |-> TRUE, stripped |-> FALSE, fps |-> {}]}
    ELSE RewriteSignedByList(ToSet(e.names), ks)
RewriteSignedBy(f, ks) == UNION {SignedByOf(f, e, ks) : e \in f.entries}

\* What an entry of the written file names: the copies of its keyrings.
Pins(f, e, ks) ==
    IF e.form # "list" \/ Inline(f, e) THEN {}
    ELSE {[orig |-> n, file |-> KeyringDest(ks)[n]] : n \in Kept(ToSet(e.names), ks) \cap KeyPaths}

(* The sources that ask apt to check no signature: trustedIndexPrefixes reads *)
(* them from the root's own files, and an index belongs to one whose URI it   *)
(* begins with.                                                               *)
TrustedIndexPrefixes(root) == {e.uri : e \in {x \in root.entries : x.trusted}}
VerificationForIndexes(offers, root) ==
    IF \E u \in offers, p \in TrustedIndexPrefixes(root) : IsPrefix(p, u) THEN "url-unverified" ELSE "apt-signed"

(***************************************************************************)
(* apt.conf                                                                *)
(***************************************************************************)

HookKeys == {"pre-invoke", "post-invoke", "post-invoke-success", "post-invoke-stats", "pre-install-pkgs", "proxy-auto-detect", "proxyautodetect"}
VerificationKeys ==
    {"allowunauthenticated", "allowinsecurerepositories", "allowdowngradetoinsecurerepositories", "allowweakrepositories",
     "check-valid-until", "check-date", "verify-peer", "verify-host"}
AptConfAllowList ==
    {<<"apt", "install-recommends">>, <<"apt", "install-suggests">>, <<"apt", "default-release">>, <<"apt", "architecture">>,
     <<"apt", "architectures">>, <<"apt", "solver">>, <<"apt", "machine-id">>, <<"apt", "get", "never-include-phased-updates">>,
     <<"apt", "get", "always-include-phased-updates">>, <<"acquire", "languages">>}

StripBinaryScope(p) == IF p # <<>> /\ p[1] = "binary" THEN SubSeq(p, 3, Len(p)) ELSE p
ProxySegment(p) == \E i \in 2..Len(p) : p[i] = "proxy"

\* At an entry of the list, or under APT::Solver; above one; or neither.
ClassifyConfKey(path, allowProxy) ==
    LET p == StripBinaryScope(path) IN
    IF p = <<>> THEN "container"
    ELSE IF p \in AptConfAllowList \/ IsPrefix(<<"apt", "solver">>, p) THEN "allowed"
    ELSE IF \E entry \in AptConfAllowList : IsStrictPrefix(p, entry) THEN "container"
    ELSE IF allowProxy /\ p[1] = "acquire" THEN (IF ProxySegment(p) THEN "allowed" ELSE "container") ELSE "unknown"

UnsafeSolverValue(p, block, value) == p = <<"apt", "solver">> /\ (block \/ value # "plain")

\* The families that are refused by name, before the allow-list is asked.
DeniedFamily(p, allowProxy) ==
    /\ p # <<>>
    /\ \/ p[1] = "dir"
       \/ Last(p) \in HookKeys \cup VerificationKeys
       \/ IsPrefix(<<"dpkg", "tools">>, p)
       \/ Len(p) >= 3 /\ IsPrefix(<<"acquire", "gpgv">>, p) /\ Last(p) = "options"
       \/ ~allowProxy /\ p[1] = "acquire" /\ ProxySegment(p)

DropConf(path, block, value, allowProxy) ==
    LET p == StripBinaryScope(path) IN
    \/ DeniedFamily(p, allowProxy)
    \/ CASE ClassifyConfKey(path, allowProxy) = "allowed" -> UnsafeSolverValue(p, block, value)
         [] ClassifyConfKey(path, allowProxy) = "container" -> ~block
         [] OTHER -> TRUE

\* The whole key of a setting, or of the i-th block that holds it.
LevelPath(s, i) == Fold(FlattenSeq(SubSeq(s.keys, 1, i)))
DroppedAt(s, allowProxy) ==
    {i \in DOMAIN s.keys : s.keys[i] # <<>> /\ DropConf(LevelPath(s, i), i < Len(s.keys), s.value, allowProxy)}

\* filterAptConf: what is written, and what is reported as withheld; a "#"
\* line that is no directive is a comment.
FilterAptConf(conf, allowProxy) ==
    LET at(s) == CHOOSE i \in DroppedAt(s, allowProxy) : \A j \in DroppedAt(s, allowProxy) : i <= j IN
    [carried |-> {s \in conf : s.directive = Empty /\ DroppedAt(s, allowProxy) = {}},
     dropped |-> {<<s.directive>> : s \in {x \in conf : x.directive \in {"#include", "#clear"}}}
                 \cup {LevelPath(s, at(s)) : s \in {x \in conf : x.directive = Empty /\ DroppedAt(x, allowProxy) # {}}}]

(***************************************************************************)
(* The root                                                                *)
(***************************************************************************)

NoRoot == [trusted |-> <<>>, sources |-> {}, entries |-> {}, conf |-> {}, dropped |-> {}, status |-> FALSE, warnings |-> {}]

\* safeExtractPath: a captured file is read from inside the snapshot only.
Readable(spec) == (\A i \in DOMAIN spec.keyrings : spec.keyrings[i].local) /\ \A f \in spec.sources : f.local

BuildPrivateRoot(spec) ==
    LET ks == spec.keyrings
        conf == FilterAptConf(spec.conf, spec.allowProxy)
        signedBy == {RewriteSignedBy(f, ks) : f \in spec.sources} IN
    [trusted |-> TrustedDir(ks),
     sources |-> signedBy,
     entries |-> (UNION {{[uri |-> e.uri, trusted |-> e.trusted, pins |-> Pins(f, e, ks)] : e \in f.entries} : f \in spec.sources})
                 \cup {[uri |-> u, trusted |-> TRUE, pins |-> {}] : u \in spec.extra},
     conf |-> conf.carried, dropped |-> conf.dropped, status |-> spec.status,
     warnings |-> {w \in {"no-dpkg-status", "keyring-unparseable", "signed-by-stripped", "apt-conf-dropped"} :
        CASE w = "no-dpkg-status" -> ~spec.status
          [] w = "keyring-unparseable" -> \E i \in DOMAIN ks : ks[i].fps = {}
          [] w = "signed-by-stripped" -> \E rs \in signedBy : \E r \in rs : r.stripped
          [] w = "apt-conf-dropped" -> conf.dropped # {}}]
=============================================================================
