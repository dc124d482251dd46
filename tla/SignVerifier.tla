---------------------------- MODULE SignVerifier ----------------------------
(* The reading end of core/sign: the operator's key sources, the trust set   *)
(* made from them, and the verdict on one signature block.  Ed25519 keys are *)
(* members of Keys and a raw signature says which key made it over which     *)
(* message and whether its base64 decodes, a message standing for purpose, NUL and canonical manifest.  The *)
(* id of a key is a truncated hash, so two keys may share one.               *)
EXTENDS Naturals, Sequences, SequencesExt

CONSTANTS
    Keys,        \* ed25519 key material
    KeyId,       \* the id derived from each key, KeyId \in [Keys -> ...]
    Messages,    \* what can be signed
    Nobody,      \* the maker of bytes that are no signature
    Unparsed,    \* a comment line that does not parse
    GPGKeys,     \* fingerprints of gpg keys
    Primary,     \* the primary key of each gpg key
    Existing,    \* the paths that exist, as sequences of components
    Fold,        \* the directory entry each component names on its filesystem
    BundlePath,  \* where the bundle lies
    KeySources,  \* the key sources an operator may name
    Blocks       \* the signature blocks a medium may carry

ASSUME KeysHaveIds == DOMAIN KeyId = Keys /\ Nobody \notin Keys

(* The bundle is there, what exists lies in directories that exist, and a    *)
(* keyring holds gpg keys.                                                   *)
ASSUME SourcesAssumption ==
    /\ BundlePath \in Existing
    /\ \A p \in Existing : p \in Seq(DOMAIN Fold) /\ \A i \in 0..Len(p) : SubSeq(p, 1, i) \in Existing
    /\ \A ks \in KeySources : ks.ring \subseteq GPGKeys

VARIABLES
    source,   \* the operator's key sources
    block,    \* the signature block on the medium
    message,  \* what the manifest on the medium signs
    trust,    \* [err, ed, ring]: what VerifierFor returned
    status,   \* gpg's answer: its status lines and whether it exited non-zero
    verdict   \* what Verify returned, "" before

vvars == <<source, block, message, trust, status, verdict>>

NoTrust == [err |-> "", ed |-> {}, ring |-> {}]
NoStatus == [lines |-> <<>>, failed |-> FALSE]

(***************************************************************************)
(* Where the keys come from                                                *)
(***************************************************************************)

Identity(p) == [i \in DOMAIN p |-> Fold[p[i]]]
SameFile(p, q) == Identity(p) = Identity(q)

\* pathContains: child or one of its ancestors is the parent, by identity; by
\* its text when the parent does not exist.
PathContains(parent, child) ==
    IF parent \in Existing
    THEN \E i \in 0..Len(child) : SubSeq(child, 1, i) \in Existing /\ SameFile(parent, SubSeq(child, 1, i))
    ELSE IsPrefix(parent, child)

SameMedia(candidate) == PathContains(BundlePath, candidate) \/ PathContains(candidate, BundlePath)

\* A key file: the id in its blob, the key material, the id in its comment line.
ParsePublicKeyBlob(f) == f.stored = KeyId[f.mat]
LoadPublicKeyFile(f) == ParsePublicKeyBlob(f) /\ f.label = f.stored

LoadPublicKeys(ks) == {f.mat : f \in UNION {ToSet(d.files) : d \in ks.dirs}}

\* buildEd25519TrustSet: one id may name only one key.
Ambiguous(keys) == \E k, l \in keys : k # l /\ KeyId[k] = KeyId[l]

VerifierFor(ks) ==
    LET bad(e) == [NoTrust EXCEPT !.err = e] IN
    IF ~ks.allowSameMedia /\ \E p \in {d.path : d \in ks.dirs} \cup ks.ringPath : SameMedia(p) THEN bad("same-media")
    ELSE IF \E d \in ks.dirs : d.path \notin Existing \/ \E f \in ToSet(d.files) : ~LoadPublicKeyFile(f) THEN bad("usage")
    ELSE IF Ambiguous(LoadPublicKeys(ks)) \/ ~(ks.ringPath \subseteq Existing) THEN bad("usage")
    ELSE [err |-> "", ed |-> LoadPublicKeys(ks), ring |-> ks.ring]

(***************************************************************************)
(* Checking a block                                                        *)
(***************************************************************************)

\* verifyEd25519Signature against a set of keys with distinct ids.
VerifyEd25519(keys, msg, sig) ==
    LET named == {k \in keys : KeyId[k] = sig.keyID} IN
    IF named = {} THEN "untrusted"
    ELSE IF sig.raw.decodes /\ sig.raw.by \in named /\ sig.raw.over = msg THEN "ok"
    ELSE "verification"

(* What gpg can print for a raw signature (external): status keywords, with   *)
(* the key that VALIDSIG names, and its exit status.  A newer gpg may refuse  *)
(* with a keyword of its own, and gpg may fail before it says anything.       *)
GPGAnswers(ring, msg, raw) ==
    LET Line(w) == [word |-> w, key |-> Nobody]
        Valid == [word |-> "VALIDSIG", key |-> raw.by]
        Answer(ls, f) == [lines |-> ls, failed |-> f]
    IN  {Answer(<<>>, TRUE)} \cup
        IF raw.by \notin GPGKeys THEN {Answer(<<Line("NODATA")>>, TRUE)}
        ELSE IF raw.by \notin ring THEN {Answer(<<Line("ERRSIG_9"), Line("NO_PUBKEY")>>, TRUE)}
        ELSE IF raw.over # msg THEN {Answer(<<Line("BADSIG")>>, TRUE)}
        ELSE {Answer(<<Valid>>, f) : f \in BOOLEAN} \cup {Answer(<<Line("ERRSIG")>>, TRUE)}
             \cup {Answer(<<Line(w), Valid>>, f) : w \in {"REVKEYSIG", "EXPKEYSIG", "EXPSIG"}, f \in BOOLEAN}

\* parseVerifyStatus
Said(st, words) == \E i \in DOMAIN st.lines : st.lines[i].word \in words
Rejected(st) == Said(st, {"BADSIG", "REVKEYSIG", "EXPKEYSIG", "EXPSIG", "ERRSIG"})
NoPublicKey(st) == Said(st, {"ERRSIG_9", "NO_PUBKEY"})
ValidSig(st) == Said(st, {"VALIDSIG"})
SigningKey(st) == LET i == CHOOSE j \in DOMAIN st.lines : st.lines[j].word = "VALIDSIG" IN st.lines[i].key

FingerprintMatches(claimed, key) == claimed \in {key, Primary[key]}

\* Mutant of VerifyGPG: a VALIDSIG line settles it.
VerifyGPGValidFirst(st, sig) ==
    IF ValidSig(st) THEN IF FingerprintMatches(sig.keyID, SigningKey(st)) THEN "ok" ELSE "verification"
    ELSE IF Rejected(st) THEN "verification"
    ELSE IF st.lines = <<>> /\ st.failed THEN "environment"
    ELSE "untrusted"

\* gpgVerifier.verify, gpgRejection: the order of the cases is the order they
\* are tried in.
VerifyGPG(st, sig) ==
    IF ~sig.raw.decodes \/ Rejected(st) THEN "verification"
    ELSE IF NoPublicKey(st) /\ ~ValidSig(st) THEN "untrusted"
    ELSE IF ~ValidSig(st) THEN IF st.lines = <<>> /\ st.failed THEN "environment" ELSE "untrusted"
    ELSE IF st.failed THEN "verification"
    ELSE IF FingerprintMatches(sig.keyID, SigningKey(st)) THEN "ok"
    ELSE "verification"

\* compositeVerifier.Verify; a kind is "gpg", "ed25519-file", "plugin:name" or
\* something else, here "plugin" and "other".
Verify(tr, st, msg, sig) ==
    CASE sig.kind = "gpg" -> VerifyGPG(st, sig)
      [] sig.kind = "ed25519-file" /\ sig.alg \notin {"", "ed25519"} -> "verification"
      [] sig.kind = "ed25519-file" /\ sig.alg \in {"", "ed25519"} -> VerifyEd25519(tr.ed, msg, sig)
      [] sig.kind = "plugin" /\ sig.alg = "ed25519" -> VerifyEd25519(tr.ed, msg, sig)
      [] OTHER -> "untrusted"

VerifierInit ==
    /\ source \in KeySources /\ block \in Blocks /\ message \in Messages
    /\ trust = NoTrust /\ status = NoStatus /\ verdict = ""

MakeVerifier ==
    /\ verdict = ""
    /\ trust' = VerifierFor(source)
    /\ verdict' = IF VerifierFor(source).err = "" THEN "verifier" ELSE VerifierFor(source).err
    /\ UNCHANGED <<source, block, message, status>>

RunGPG ==
    /\ verdict = "verifier" /\ block.kind = "gpg" /\ block.raw.decodes /\ status = NoStatus
    /\ status' \in GPGAnswers(trust.ring, message, block.raw)
    /\ UNCHANGED <<source, block, message, trust, verdict>>

CheckBlock ==
    /\ verdict = "verifier" /\ (block.kind = "gpg" /\ block.raw.decodes => status # NoStatus)
    /\ verdict' = Verify(trust, status, message, block)
    /\ UNCHANGED <<source, block, message, trust, status>>

VerifierNext == MakeVerifier \/ RunGPG \/ CheckBlock

VerifierSpec == VerifierInit /\ [][VerifierNext]_vvars

(***************************************************************************)
(* What a verdict is worth                                                 *)
(***************************************************************************)

\* The keys the operator can have meant: those in sources that did not come
\* with the bundle.
OutOfBand(p) == ~IsPrefix(Identity(BundlePath), Identity(p)) /\ ~IsPrefix(Identity(p), Identity(BundlePath))
Meant == {f.mat : f \in UNION {ToSet(d.files) : d \in {e \in source.dirs : source.allowSameMedia \/ OutOfBand(e.path)}}}
OfEd25519 == block.kind = "ed25519-file" \/ (block.kind = "plugin" /\ block.alg = "ed25519")
Held(id) == {k \in Meant : KeyId[k] = id}

(* VerdictIsOfTheKey: a block is accepted only if a key the operator supplied *)
(* apart from the bundle, and that the block names, signed this very message, *)
(* with an algorithm that does not contradict the check, and that gpg had     *)
(* nothing against.  "Untrusted" is said only when no supplied key goes by the *)
(* block's id; a failed verification never of a signature such a key made as  *)
(* it should (verifier.go, gpg.go verify: the remedies differ).               *)
VerdictIsOfTheKey ==
    /\ verdict = "ok" =>
        IF block.kind = "gpg"
        THEN /\ block.raw.by \in source.ring /\ block.raw.over = message
             /\ block.keyID \in {block.raw.by, Primary[block.raw.by]}
             /\ ~status.failed /\ Len(status.lines) = 1
        ELSE /\ OfEd25519 /\ block.alg \in {"", "ed25519"}
             /\ Held(block.keyID) = {block.raw.by} /\ block.raw.over = message
    /\ verdict = "untrusted" =>
        IF block.kind = "gpg" THEN block.raw.by \notin source.ring
        ELSE OfEd25519 => Held(block.keyID) = {}
    /\ verdict = "verification" /\ block.kind # "gpg" =>
        \/ block.alg \notin {"", "ed25519"}
        \/ Held(block.keyID) # {} /\ (~block.raw.decodes \/ block.raw.by \notin Held(block.keyID) \/ block.raw.over # message)
=============================================================================
