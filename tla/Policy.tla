------------------------------- MODULE Policy -------------------------------
(* The operator's policy (core/policy, engine policy.go, apt root.go): the    *)
(* policy file and the list of approved archive keys are read, the private    *)
(* root is made and its sources checked against the keys, and the resolved    *)
(* plan is checked against the rules.  A document is a sequence of fields, each a set of words; what  *)
(* JSON or YAML spells differently has one form here.                         *)
EXTENDS PrivateRoot

CONSTANTS
    Documents,   \* policy files: sequences of [key, list, words] records
    KeyFiles,    \* --approved-keys files: sets of words
    Plans,       \* the plans that may be resolved: sets of packages
    RootSpecs,   \* the snapshots that the private root may be made from
    Spelled,     \* the fingerprint that each well-formed spelling stands for
    Globs        \* the names that each well-formed pattern matches

(* A document, a spec's keyrings and the blocks of a setting are sequences; a   *)
(* field that is no list has one value, or none when it is null.  A URL the operator named is one the fetch takes, in any case of  *)
(* its scheme.  A keyring was captured under some path, and a one-line source   *)
(* cannot hold a key.                                                           *)
ASSUME PolicyAssumption ==
    /\ \A d \in Documents :
         /\ Len(d) \in Nat /\ DOMAIN d = 1..Len(d)
         /\ \A i \in DOMAIN d : ~d[i].list => d[i].words = {} \/ \E w \in d[i].words : d[i].words = {w}
    /\ \A p \in Plans : \A s \in p : s.external => s.scheme = "file" \/ FoldCase(s.scheme) \in {"http", "https"}
    /\ \A spec \in RootSpecs :
         /\ Len(spec.keyrings) \in Nat /\ DOMAIN spec.keyrings = 1..Len(spec.keyrings)
         /\ \A i \in DOMAIN spec.keyrings : spec.keyrings[i].path # Empty
         /\ \A s \in spec.conf : s.keys \in Seq(Seq(STRING))
         /\ \A f \in spec.sources : \A e \in f.entries :
              /\ Len(e.uri) \in Nat /\ e.form \in {"none", "inline", "list"}
              /\ e.form = "inline" => f.deb822

VARIABLES
    document,  \* the policy file
    keyFile,   \* the --approved-keys file, {} for none given
    plan,      \* what the backend resolved
    snapshot,  \* what the root is made from
    root,      \* the private root
    step,      \* how far the build is; at the end "accepted" or why not
    rules,     \* the parsed policy
    approved,  \* b.approvedKeys
    warnings   \* b.policyWarnings: [rule, name] records

pvars == <<document, keyFile, plan, snapshot, root, step, rules, approved, warnings>>

(***************************************************************************)
(* Reading the file                                                        *)
(***************************************************************************)

ListFields == {"allow_components", "deny_components", "allow_packages", "deny_packages", "approved_keys", "deny_flags"}
BoolFields == {"require_signed_publisher", "allow_url_inputs"}
PolicyFields == ListFields \cup BoolFields \cup {"schema_version", "default_severity"}
KnownFlags == {"multiverse", "restricted", "non-free", "non-free-firmware", "network-postinst", "snap-shim", "dkms", "user-supplied"}

MatchesAnyFold(list, w) == \E v \in list : FoldCase(v) = FoldCase(w)
WellFormed(w) == w \in DOMAIN Spelled   \* normalizeFingerprint: a full fingerprint, however spelled

\* Mutant of CheckPolicyKeys: a field given twice is not noticed.
CheckPolicyKeysKnown(doc) == \A i \in DOMAIN doc : doc[i].key \in PolicyFields

\* jsonObjectKeys and checkPolicyKeys, parseMiniYAML: every field is one the
\* schema declares, given once.
CheckPolicyKeys(doc) ==
    /\ \A i \in DOMAIN doc : doc[i].key \in PolicyFields
    /\ \A i, j \in DOMAIN doc : doc[i].key = doc[j].key => i = j

\* Unmarshal: a list where the field is one, a boolean where it is one; null is
\* for any field as if it were not there; of two values for a field the last stays.
Unmarshals(doc) ==
    \A i \in DOMAIN doc :
        /\ doc[i].list \/ doc[i].words # {} => (doc[i].list <=> doc[i].key \in ListFields)
        /\ doc[i].key \in BoolFields => doc[i].words \subseteq {"true", "false"}
Parsed(doc) ==
    [k \in PolicyFields |->
        LET at == {i \in DOMAIN doc : doc[i].key = k} IN
        IF at = {} THEN {} ELSE doc[CHOOSE i \in at : \A j \in at : j <= i].words]

ValidatePolicy(p) ==
    /\ p["schema_version"] = {"debark.policy/v1"}
    /\ p["default_severity"] \subseteq {Empty, "info", "warn", "deny"}
    /\ \A f \in p["deny_flags"] : MatchesAnyFold(KnownFlags, f)
    /\ p["allow_packages"] \cup p["deny_packages"] \subseteq DOMAIN Globs
    /\ \A k \in p["approved_keys"] : WellFormed(k)

NoRules == [k \in PolicyFields |-> {}]

\* No document stands for no --policy flag: Empty() finds nothing.
PolicyInit ==
    /\ document \in Documents /\ keyFile \in KeyFiles /\ plan \in Plans /\ snapshot \in RootSpecs
    /\ root = NoRoot /\ step = "load" /\ rules = NoRules /\ approved = {} /\ warnings = {}

LoadPolicy ==
    /\ step = "load"
    /\ IF document = <<>> THEN step' = "keys" /\ UNCHANGED rules
       ELSE IF CheckPolicyKeys(document) /\ Unmarshals(document) /\ ValidatePolicy(Parsed(document))
       THEN step' = "keys" /\ rules' = Parsed(document)
       ELSE step' = "usage" /\ UNCHANGED rules
    /\ UNCHANGED <<document, keyFile, plan, snapshot, root, approved, warnings>>

\* The list of the flag; the policy's own list does not get here, because the
\* evaluator has no method that reports it (approvedKeysCarrier).
LoadApprovedKeys ==
    /\ step = "keys"
    /\ LET named == keyFile \ {"#"} IN   \* comments and blank lines are skipped
       IF keyFile # {} /\ (named = {} \/ \E w \in named : ~WellFormed(w)) THEN step' = "usage" /\ UNCHANGED approved
       ELSE step' = "resolve" /\ approved' = {Spelled[w] : w \in named}
    /\ UNCHANGED <<document, keyFile, plan, snapshot, root, rules, warnings>>

(***************************************************************************)
(* Sources and packages                                                    *)
(***************************************************************************)

\* approvedKeyRefusal of one source file; a record is [stripped, inline, fps].
SourceApproved(records) ==
    /\ records # {}
    /\ \A r \in records : ~r.stripped /\ ~r.inline /\ r.fps \cap approved # {}

CheckApprovedKeys(signedBy) == approved # {} => \A records \in signedBy : SourceApproved(records)

\* BuildPrivateRoot with checkApprovedKeys in it; a file of the root may also
\* fail to be written.
MakeRoot ==
    /\ step = "resolve"
    /\ \/ step' = "environment" /\ UNCHANGED root
       \/ ~Readable(snapshot) /\ step' = "usage" /\ UNCHANGED root
       \/ /\ Readable(snapshot)
          /\ root' = BuildPrivateRoot(snapshot)
          /\ step' = IF CheckApprovedKeys(root'.sources) THEN "evaluate" ELSE "policy"
    /\ UNCHANGED <<document, keyFile, plan, snapshot, rules, approved, warnings>>

\* The claim that the lock makes of a package: of an input the operator named,
\* what the fetch established; else by the indexes that offered it.
PublisherVerification(s) == IF s.external THEN s.pv ELSE VerificationForIndexes(s.offers, root)

ComponentOf(s) == IF s.component # Empty THEN s.component ELSE s.section
GlobMatchesAny(patterns, name) == \E g \in patterns \cap DOMAIN Globs : name \in Globs[g]
SignedPublisherClaim == {"apt-signed", "user-digest", "user-signature"}
ApprovedKeySet == {Spelled[w] : w \in {v \in rules["approved_keys"] : WellFormed(v)}} \cup approved
KeysSupplied == rules["approved_keys"] # {} \/ approved # {}

\* isHTTPURL of an input that the operator named: the scheme in any case.
FromURL(s) == s.external /\ FoldCase(s.scheme) \in {"http", "https"}

\* The archive key that the plan claims for a package, once any list of keys
\* was supplied: none, none that is a fingerprint, or one not on the lists.
KeyRefused(s) == KeysSupplied /\ (~WellFormed(s.fp) \/ Spelled[s.fp] \notin ApprovedKeySet)

\* The rules that a package breaks.
Breaks(s) ==
    {r \in {"component-deny", "component-allow", "package-deny", "package-allow", "require-signed-publisher", "allow-url-inputs", "deny-flags", "approved-keys"} :
        CASE r = "component-deny" -> ComponentOf(s) # Empty /\ MatchesAnyFold(rules["deny_components"], ComponentOf(s))
          [] r = "component-allow" -> rules["allow_components"] # {} /\ (ComponentOf(s) = Empty \/ ~MatchesAnyFold(rules["allow_components"], ComponentOf(s)))
          [] r = "package-deny" -> GlobMatchesAny(rules["deny_packages"], s.name)
          [] r = "package-allow" -> rules["allow_packages"] # {} /\ ~GlobMatchesAny(rules["allow_packages"], s.name)
          [] r = "require-signed-publisher" -> rules["require_signed_publisher"] = {"true"} /\ PublisherVerification(s) \notin SignedPublisherClaim
          [] r = "allow-url-inputs" -> rules["allow_url_inputs"] = {"false"} /\ FromURL(s)
          [] r = "deny-flags" -> \E f \in s.flags : MatchesAnyFold(rules["deny_flags"], f)
          [] r = "approved-keys" -> KeyRefused(s)}

Severity == IF rules["default_severity"] \subseteq {Empty} THEN "warn" ELSE CHOOSE w \in rules["default_severity"] : TRUE

\* Evaluate: with no policy there is an evaluator that finds nothing.
Findings == IF document = <<>> THEN {} ELSE UNION {{[rule |-> r, name |-> s.name] : r \in Breaks(s)} : s \in plan}

EvaluatePolicy ==
    /\ step = "evaluate"
    /\ step' = IF Severity = "deny" /\ Findings # {} THEN "policy" ELSE "accepted"
    /\ warnings' = IF Severity = "warn" THEN Findings ELSE {}
    /\ UNCHANGED <<document, keyFile, plan, snapshot, root, rules, approved>>

PolicyNext == LoadPolicy \/ LoadApprovedKeys \/ MakeRoot \/ EvaluatePolicy
PolicySpec == PolicyInit /\ [][PolicyNext]_pvars

(***************************************************************************)
(* The policy as its author reads it                                       *)
(***************************************************************************)

Says(k) == UNION {document[i].words : i \in {j \in DOMAIN document : document[j].key = k}}
Stated(k) == \E i \in DOMAIN document : document[i].key = k /\ document[i].words # {}
KeysIn(bytes) == UNION {snapshot.keyrings[i].fps : i \in {j \in DOMAIN snapshot.keyrings : snapshot.keyrings[j].bytes = bytes}}
Claims(s, w) == WellFormed(w) /\ WellFormed(s.fp) /\ Spelled[w] = Spelled[s.fp]

\* What apt or the fetch did not check: an input without a digest or signature,
\* or a package that some source offers that is trusted unsigned.
Unsigned(s) ==
    IF s.external THEN s.pv \notin SignedPublisherClaim
    ELSE \E f \in snapshot.sources : \E e \in f.entries : e.trusted /\ e.uri \in s.offers

\* A package against each field as it stands in the file.
Offends(s) ==
    \/ \E w \in Says("deny_components") : FoldCase(w) = FoldCase(ComponentOf(s)) /\ ComponentOf(s) # Empty
    \/ Stated("allow_components") /\ ~\E w \in Says("allow_components") : FoldCase(w) = FoldCase(ComponentOf(s))
    \/ \E w \in Says("deny_packages") : w \in DOMAIN Globs /\ s.name \in Globs[w]
    \/ Stated("allow_packages") /\ ~\E w \in Says("allow_packages") : w \in DOMAIN Globs /\ s.name \in Globs[w]
    \/ "true" \in Says("require_signed_publisher") /\ Unsigned(s)
    \/ "false" \in Says("allow_url_inputs") /\ s.external /\ s.scheme # "file"
    \/ \E w \in Says("deny_flags"), f \in s.flags : FoldCase(w) = FoldCase(f)
    \/ Stated("approved_keys") /\ ~\E w \in Says("approved_keys") \cup keyFile : Claims(s, w)

(* Every Signed-By left in the root names copied keyrings that each hold one    *)
(* of these keys.                                                             *)
SourcesHold(keys) ==
    \A f \in snapshot.sources :
        /\ \E e \in f.entries : e.form # "none"
        /\ \A e \in f.entries : e.form # "none" =>
            LET pins == Pins(f, e, snapshot.keyrings) IN
            pins # {} /\ \A p \in pins : \E w \in keys : WellFormed(w) /\ Spelled[w] \in KeysIn(root.trusted[p.file])

(* PolicyIsApplied: a build goes on only under the whole policy as it is      *)
(* written.  Each field is one debark knows, and the severity one it acts on; *)
(* no package offends a field of a file that says deny, and one that offends  *)
(* a field of a file that says warn is in the lock's warnings.  With a key    *)
(* file, every Signed-By left in the root names copied keyrings that each     *)
(* hold one of its keys (validate.go: a file that cannot be applied exactly   *)
(* as written fails; root.go checkApprovedKeys).  Keys listed in the policy   *)
(* itself do not reach that check, though policy/iface.go:82 calls them       *)
(* equivalent: of those only the claim each package makes is checked.         *)
PolicyIsApplied ==
    step = "accepted" =>
        /\ \A i \in DOMAIN document : document[i].key \in PolicyFields
        /\ Says("default_severity") \subseteq {Empty, "info", "warn", "deny"}
        /\ \A s \in plan :
            document # <<>> /\ Offends(s) =>
                /\ "deny" \notin Says("default_severity")
                /\ Says("default_severity") # {"info"} => \E f \in warnings : f.name = s.name
        /\ keyFile # {} => SourcesHold(keyFile)

(* RootIsFaithful: in the root that apt runs in, a source that names a        *)
(* keyring names a file with the bytes that were captured under that path;    *)
(* every captured setting either reaches apt or is reported by its key or one *)
(* above it; and whatever way a setting is spelled, in blocks, flat or scoped *)
(* to a program, one that reaches apt is of the APT or the Acquire tree (so   *)
(* moves no directory and sets no tool), and neither its key nor one of its   *)
(* blocks' is a hook or turns a check off (root.go copySnapshotConfig,        *)
(* aptconf.go filterAptConf).                                                 *)
RootIsFaithful ==
    root # NoRoot =>
        /\ \A e \in root.entries : \A p \in e.pins : root.trusted[p.file] = snapshot.keyrings[KeyringAt(snapshot.keyrings, p.orig)].bytes
        /\ \A s \in snapshot.conf \ root.conf :
            s.directive \in {Empty, "#include", "#clear"} => \E k \in root.dropped : k = <<s.directive>> \/ IsPrefix(k, LevelPath(s, Len(s.keys)))
        /\ \A s \in root.conf : \A i \in {j \in DOMAIN s.keys : s.keys[j] # <<>>} :
            LET p == StripBinaryScope(LevelPath(s, i)) IN
            p # <<>> => p[1] \in {"apt", "acquire"} /\ Last(p) \notin HookKeys \cup VerificationKeys
=============================================================================
