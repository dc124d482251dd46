------------------------------- MODULE Signing -------------------------------
(* The writing end of core/sign: a signer made from a key file, from gpg or   *)
(* from a plugin process, and the blocks it returns.  A plugin speaks over    *)
(* two pipes; its answers are matched to calls by id, may come late, twice or *)
(* not at all, and the process may exit at any time.                          *)
EXTENDS SignVerifier

CONSTANTS
    Own,           \* the key that a new pair holds and that the plugin keeps
    GPGSigner,     \* the gpg key that makes the signature
    PrivateFiles,  \* private key files from elsewhere
    MaxSigns,      \* bound: signatures asked for
    MaxResponses,  \* bound: lines the plugin writes after its handshake
    PipeRoom       \* requests the plugin's standard input holds unread

VARIABLES
    kind,      \* the signer's mechanism: "ed25519-file", "gpg" or "plugin"
    plugin,    \* [exports, honest]: it tells its public key; it answers as asked
    disk,      \* [priv, pub]: the key files
    stage,     \* where the host is
    nextID,    \* id of the latest call
    call,      \* the call under way: [id, method, msg, state, answer]
    proc,      \* the plugin: "none", "new", "running" or "gone"
    stdin,     \* requests written and not read
    seen,      \* requests the plugin has read
    stdout,    \* answers written and not read
    sent,      \* answers written so far
    readerDone,\* the read loop has ended
    keyInfo,   \* the plugin's key_info, or NoKeyInfo
    signed     \* what Sign returned: [msg, block, key] records

svars == <<kind, plugin, disk, stage, nextID, call, proc, stdin, seen, stdout, sent, readerDone, keyInfo, signed>>

NoFile == [stored |-> Nobody, mat |-> Nobody, label |-> Nobody, whole |-> FALSE, private |-> FALSE]
FileOf(k) == [stored |-> KeyId[k], mat |-> k, label |-> KeyId[k], whole |-> TRUE, private |-> TRUE]
NoKeyInfo == [known |-> FALSE, pub |-> Nobody, alg |-> ""]
NoAnswer == [id |-> 0, shape |-> "none", keyID |-> Nobody, alg |-> "", raw |-> [by |-> Nobody, over |-> Nobody, decodes |-> FALSE]]
NoCall == [id |-> 0, method |-> "none", msg |-> Nobody, state |-> "none", answer |-> NoAnswer]

SigningInit ==
    /\ kind \in {"ed25519-file", "gpg", "plugin"}
    /\ plugin \in [exports : BOOLEAN, honest : BOOLEAN] /\ (kind # "plugin" => plugin = [exports |-> FALSE, honest |-> TRUE])
    /\ disk \in [priv : {NoFile} \cup PrivateFiles, pub : {NoFile, FileOf(Own)}] /\ (kind # "ed25519-file" => disk = [priv |-> NoFile, pub |-> NoFile])
    /\ stage = IF kind = "ed25519-file" THEN "keygen" ELSE "start"
    /\ nextID = 0 /\ call = NoCall /\ proc = "none" /\ stdin = <<>> /\ seen = {} /\ stdout = <<>> /\ sent = 0
    /\ readerDone = FALSE /\ keyInfo = NoKeyInfo /\ signed = {}

Process == <<proc, stdin, seen, stdout, sent, readerDone>>
Host == <<nextID, call, keyInfo>>

(***************************************************************************)
(* Key files                                                               *)
(***************************************************************************)

\* generateEd25519KeyFiles writes two new files, each only where there is none,
\* and takes the private one away when the public one cannot be written.
GeneratePrivate ==
    /\ stage = "keygen"
    /\ IF disk.priv = NoFile THEN disk' = [disk EXCEPT !.priv = FileOf(Own)] /\ stage' = "public" ELSE stage' = "start" /\ UNCHANGED disk
    /\ UNCHANGED <<kind, plugin, signed, Process, Host>>

GeneratePublic ==
    /\ stage = "public" /\ stage' = "start"
    /\ \/ disk.pub = NoFile /\ disk' = [disk EXCEPT !.pub = FileOf(Own)]
       \/ disk' = [disk EXCEPT !.priv = NoFile]
    /\ UNCHANGED <<kind, plugin, signed, Process, Host>>

\* parsePrivateKeyBlob: the public half belongs to the seed, and the id to it.
ParsePrivateKeyBlob(f) == f.whole /\ f.stored = KeyId[f.mat]
LoadPrivateKeyFile(f) == f # NoFile /\ f.private /\ ParsePrivateKeyBlob(f) /\ f.label = f.stored

\* SignerFor for a key file: the signer is there or an error is.
OpenKeyFile ==
    /\ stage = "start" /\ kind = "ed25519-file"
    /\ stage' = IF LoadPrivateKeyFile(disk.priv) THEN "idle" ELSE "failed"
    /\ UNCHANGED <<kind, plugin, disk, signed, Process, Host>>

\* What gpg lists of a secret key (external): the primary key's record and
\* fingerprint first, then those of its subkeys; or nothing.
SecretKeys(k) == {<<>>, <<[rec |-> "sec", fpr |-> Primary[k]], [rec |-> "ssb", fpr |-> k]>>}

\* parseColonFingerprint: the first fingerprint that is not a subkey's.
PrimaryFingerprints(recs) == {recs[i].fpr : i \in {j \in DOMAIN recs : recs[j].rec \in {"sec", "pub"}}}

\* newGPGSigner looks the key up; gpg may be missing or fail.
OpenGPGKey ==
    /\ stage = "start" /\ kind = "gpg"
    /\ \E recs \in SecretKeys(GPGSigner) : stage' = IF PrimaryFingerprints(recs) # {} THEN "idle" ELSE "failed"
    /\ UNCHANGED <<kind, plugin, disk, signed, Process, Host>>

Returned(msg, key, by, id, alg) ==
    [msg |-> msg, key |-> key, block |-> [kind |-> kind, alg |-> alg, keyID |-> id, raw |-> [by |-> by, over |-> msg, decodes |-> TRUE]]]

\* A private key whose public half is another's makes signatures of nobody.
SignFile(msg) ==
    /\ stage = "idle" /\ kind = "ed25519-file" /\ Cardinality(signed) < MaxSigns
    /\ signed' = signed \cup {Returned(msg, disk.priv.mat, IF disk.priv.whole THEN disk.priv.mat ELSE Nobody, disk.priv.stored, "ed25519")}
    /\ UNCHANGED <<kind, plugin, disk, stage, Process, Host>>

\* gpg signs with the key of its choice below the primary key that the block
\* names; when it fails nothing is returned.
SignGPG(msg) ==
    /\ stage = "idle" /\ kind = "gpg" /\ Cardinality(signed) < MaxSigns
    /\ signed' = signed \cup {Returned(msg, GPGSigner, GPGSigner, Primary[GPGSigner], "gpg")}
    /\ UNCHANGED <<kind, plugin, disk, stage, Process, Host>>

(***************************************************************************)
(* The plugin process and the calls to it                                  *)
(***************************************************************************)

\* newPluginSigner up to the handshake, which is read without a time limit.
StartPlugin ==
    /\ stage = "start" /\ kind = "plugin"
    /\ proc' = "new" /\ stage' = "handshake"
    /\ UNCHANGED <<kind, plugin, disk, signed, stdin, seen, stdout, sent, readerDone, Host>>

\* What call does before it writes: a new id, registered as pending.
Begin(method, msg) ==
    /\ nextID' = nextID + 1
    /\ call' = [id |-> nextID + 1, method |-> method, msg |-> msg, state |-> "write", answer |-> NoAnswer]

Handshake(good) ==
    /\ stage = "handshake" /\ proc = "new"
    /\ IF good THEN proc' = "running" /\ stage' = "calling" /\ Begin("key_info", Nobody)
               ELSE proc' = "gone" /\ stage' = "failed" /\ UNCHANGED <<nextID, call>>  \* killAfterFailedStart
    /\ UNCHANGED <<kind, plugin, disk, signed, stdin, seen, stdout, sent, readerDone, keyInfo>>

HandshakeLost ==
    /\ stage = "handshake" /\ proc = "gone" /\ stage' = "failed"
    /\ UNCHANGED <<kind, plugin, disk, signed, Process, Host>>

SignPlugin(msg) ==
    /\ stage = "idle" /\ kind = "plugin" /\ Cardinality(signed) < MaxSigns /\ nextID <= MaxSigns
    /\ stage' = "calling" /\ Begin("sign", msg)
    /\ UNCHANGED <<kind, plugin, disk, signed, Process, keyInfo>>

\* The write blocks while the pipe is full; no deadline covers it.
WriteRequest ==
    /\ call.state = "write"
    /\ IF proc = "gone" THEN call' = [call EXCEPT !.state = "failed"] /\ UNCHANGED stdin
       ELSE /\ Len(stdin) < PipeRoom
            /\ stdin' = Append(stdin, [id |-> call.id, method |-> call.method, msg |-> call.msg])
            /\ call' = [call EXCEPT !.state = "wait"]
    /\ UNCHANGED <<kind, plugin, disk, stage, nextID, proc, seen, stdout, sent, readerDone, keyInfo, signed>>

CallTimesOut ==
    /\ call.state = "wait" /\ call' = [call EXCEPT !.state = "failed"]
    /\ UNCHANGED <<kind, plugin, disk, stage, nextID, Process, keyInfo, signed>>

\* Mutant of WaitsFor: whatever call is waiting takes the answer.
WaitsForAny(resp) == call.state \in {"write", "wait"}

\* dispatch: the call that is waiting for this id; a call that gave up is not.
WaitsFor(resp) == call.state \in {"write", "wait"} /\ call.id = resp.id

\* readLoop: one line, or the end of the stream, which fails what is pending.
ReadLoop ==
    /\ proc \in {"running", "gone"} /\ stage \notin {"handshake", "failed"} /\ ~readerDone
    /\ IF stdout # <<>>
       THEN /\ stdout' = Tail(stdout) /\ UNCHANGED readerDone
            /\ call' = IF WaitsFor(Head(stdout)) THEN [call EXCEPT !.state = "answered", !.answer = Head(stdout)] ELSE call
       ELSE /\ proc = "gone" /\ readerDone' = TRUE /\ UNCHANGED stdout
            /\ call' = IF call.state = "wait" THEN [call EXCEPT !.state = "failed"] ELSE call
    /\ UNCHANGED <<kind, plugin, disk, stage, nextID, proc, stdin, seen, sent, keyInfo, signed>>

Ended == call.state \in {"answered", "failed"}

\* newPluginSigner goes on without key_info when it does not get one.
KeyInfoReturns ==
    /\ stage = "calling" /\ call.method = "key_info" /\ Ended
    /\ keyInfo' = IF call.answer.shape = "key" THEN [known |-> TRUE, pub |-> call.answer.raw.by, alg |-> call.answer.alg] ELSE NoKeyInfo
    /\ stage' = "idle" /\ call' = NoCall
    /\ UNCHANGED <<kind, plugin, disk, nextID, signed, Process>>

\* checkReturnedSignature, where the host has a key to check with.
CheckReturnedSignature(msg, a) ==
    keyInfo.pub # Nobody /\ a.alg = "ed25519" /\ keyInfo.alg = "ed25519" =>
        a.keyID = KeyId[keyInfo.pub] /\ a.raw.by = keyInfo.pub /\ a.raw.over = msg

ValidPluginField(v) == v \notin {"", Nobody}

SignReturns ==
    /\ stage = "calling" /\ call.method = "sign" /\ Ended
    /\ LET a == call.answer
           accepted == /\ a.shape = "signature" /\ a.raw.decodes
                       /\ ValidPluginField(a.keyID) /\ ValidPluginField(a.alg)
                       /\ CheckReturnedSignature(call.msg, a)
       IN  /\ signed' = IF accepted
                        THEN signed \cup {[msg |-> call.msg, key |-> IF plugin.honest THEN Own ELSE keyInfo.pub,
                                           block |-> [kind |-> "plugin", alg |-> a.alg, keyID |-> a.keyID, raw |-> a.raw]]}
                        ELSE signed
           /\ keyInfo' = IF accepted /\ ~keyInfo.known THEN [known |-> TRUE, pub |-> Nobody, alg |-> a.alg] ELSE keyInfo
    /\ stage' = "idle" /\ call' = NoCall
    /\ UNCHANGED <<kind, plugin, disk, nextID, Process>>

(***************************************************************************)
(* Close                                                                   *)
(***************************************************************************)

CloseSigner ==
    /\ stage = "idle"
    /\ IF kind = "plugin" THEN stage' = "calling" /\ Begin("shutdown", Nobody) ELSE stage' = "closed" /\ UNCHANGED <<nextID, call>>
    /\ UNCHANGED <<kind, plugin, disk, signed, Process, keyInfo>>

ShutdownReturns ==
    /\ stage = "calling" /\ call.method = "shutdown" /\ Ended
    /\ stage' = "waiting" /\ call' = NoCall
    /\ UNCHANGED <<kind, plugin, disk, nextID, signed, Process, keyInfo>>

ProcessWaited ==
    /\ stage = "waiting" /\ proc = "gone" /\ stage' = "draining"
    /\ UNCHANGED <<kind, plugin, disk, signed, Process, Host>>

\* Mutant of GraceOver: only the wait is given up.
GraceOverNoKill ==
    /\ stage = "waiting" /\ proc = "running"
    /\ stage' = "draining"
    /\ UNCHANGED <<kind, plugin, disk, signed, stdin, seen, stdout, sent, readerDone, proc, Host>>

\* Five seconds are over: the process is killed and waited for.
GraceOver ==
    /\ stage = "waiting" /\ proc = "running"
    /\ proc' = "gone" /\ stage' = "draining"
    /\ UNCHANGED <<kind, plugin, disk, signed, stdin, seen, stdout, sent, readerDone, Host>>

\* The read loop has ended, or two seconds are over.
Drained ==
    /\ stage = "draining" /\ stage' = "closed"
    /\ UNCHANGED <<kind, plugin, disk, signed, Process, Host>>

(***************************************************************************)
(* The plugin                                                              *)
(***************************************************************************)

PluginReads ==
    /\ proc = "running" /\ stdin # <<>>
    /\ seen' = seen \cup {Head(stdin)} /\ stdin' = Tail(stdin)
    /\ UNCHANGED <<kind, plugin, disk, stage, proc, stdout, sent, readerDone, signed, Host>>

Refusal(r) == [NoAnswer EXCEPT !.id = r.id, !.shape = "error"]
KeyAnswer(r, k, alg) == [NoAnswer EXCEPT !.id = r.id, !.shape = "key", !.alg = alg, !.raw.by = k]
SignAnswer(r, id, alg, raw) == [id |-> r.id, shape |-> "signature", keyID |-> id, alg |-> alg, raw |-> raw]

(* What the plugin may answer to a request (external).  One that does not      *)
(* answer as asked names another key or none, signs with another key or        *)
(* another message, or sends what is not base64.                               *)
Answers(r) ==
    LET right == SignAnswer(r, KeyId[Own], "ed25519", [by |-> Own, over |-> r.msg, decodes |-> TRUE])
        wrong == {[right EXCEPT !.keyID = id] : id \in {KeyId[k] : k \in Keys} \cup {Nobody}}
                 \cup {[right EXCEPT !.alg = alg] : alg \in {"", "other"}}
                 \cup {[right EXCEPT !.raw.by = k] : k \in Keys} \cup {[right EXCEPT !.raw.over = m] : m \in Messages}
                 \cup {[right EXCEPT !.raw.decodes = FALSE]}
    IN  {Refusal(r)} \cup
        CASE r.method = "key_info" /\ plugin.exports -> {KeyAnswer(r, Own, a) : a \in IF plugin.honest THEN {"ed25519"} ELSE {"ed25519", "other"}}
          [] r.method = "sign" -> IF plugin.honest THEN {right} ELSE wrong
          [] OTHER -> {}

PluginAnswers ==
    /\ proc = "running" /\ sent < MaxResponses
    /\ \E r \in seen : \E a \in Answers(r) : stdout' = Append(stdout, a)
    /\ sent' = sent + 1
    /\ UNCHANGED <<kind, plugin, disk, stage, proc, stdin, seen, readerDone, signed, Host>>

PluginExits ==
    /\ proc \in {"new", "running"} /\ proc' = "gone"
    /\ UNCHANGED <<kind, plugin, disk, stage, stdin, seen, stdout, sent, readerDone, signed, Host>>

HostStep ==
    \/ GeneratePrivate \/ GeneratePublic \/ OpenKeyFile \/ OpenGPGKey \/ StartPlugin \/ HandshakeLost \/ WriteRequest \/ CallTimesOut \/ ReadLoop
    \/ KeyInfoReturns \/ SignReturns \/ ShutdownReturns \/ ProcessWaited \/ GraceOver \/ Drained

SigningNext ==
    \/ HostStep \/ CloseSigner
    \/ \E msg \in Messages : SignFile(msg) \/ SignGPG(msg) \/ SignPlugin(msg)
    \/ \E good \in BOOLEAN : Handshake(good)
    \/ PluginReads \/ PluginAnswers \/ PluginExits

(* The host's steps and timers happen, and the caller closes the signer.  Of   *)
(* the plugin nothing is assumed: it need not say its handshake, read its      *)
(* input, answer, nor exit when asked.                                         *)
SigningFairness == WF_svars(HostStep) /\ WF_svars(CloseSigner)

SigningSpec == SigningInit /\ [][SigningNext]_svars /\ SigningFairness

(***************************************************************************)
(* Properties                                                              *)
(***************************************************************************)

(* SignedBlockVerifies: a block that Sign returned verifies at the target,    *)
(* over the message it was asked for, with the one key the signer told of:    *)
(* the key of the file, gpg's key, the key of a plugin that answers as asked, *)
(* or the ed25519 key that any plugin exported, whatever answers of other     *)
(* calls arrived in between.                                                  *)
SignedBlockVerifies ==
    \A s \in signed :
        IF kind = "gpg" THEN s.key = GPGSigner /\ FingerprintMatches(s.block.keyID, s.key) /\ s.block.raw.over = s.msg
        ELSE s.key # Nobody /\ (plugin.honest \/ (keyInfo.alg = "ed25519" /\ s.block.alg = "ed25519")) =>
             Verify([NoTrust EXCEPT !.ed = {s.key}], NoStatus, s.msg, s.block) = "ok"

(* The two places where the host waits for the plugin without a limit: the     *)
(* first line (plugin.go:108) and a write to a full pipe (:411), which its     *)
(* deadline does not cover.                                                    *)
HeldByPlugin ==
    \/ stage = "handshake" /\ proc = "new"
    \/ call.state = "write" /\ proc = "running" /\ Len(stdin) >= PipeRoom

(* PluginStops: a signer that is being made ends closed or refused, with no    *)
(* plugin process left behind, though calls go unanswered (plugin.go call,     *)
(* Close) and whatever the plugin leaves undone, save where it holds the host  *)
(* for ever in a read or a write that has no limit.                            *)
PluginStops ==
    \/ <>[]HeldByPlugin
    \/ stage \notin {"keygen", "start"} ~> (stage \in {"closed", "failed"} /\ proc \in {"none", "gone"})
=============================================================================
