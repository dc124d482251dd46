-------------------------- MODULE MCInputsSigning ---------------------------
(* ExternalInputs on small instances: a local file and three URLs, one of    *)
(* them with a digest, that may all come to the same base name; SignVerifier  *)
(* on blocks and key sources that are right, or wrong in one respect or       *)
(* several; and Signing with two signatures asked of one signer.  A           *)
(* behaviour does one of these.                                               *)
EXTENDS ExternalInputs, Signing, TLC

CONSTANTS n1, n2, c1, c2

MCLocals == <<n1>>
MCWants == <<c1, None, None>>

(* Three keys, two with one id; the bundle on a medium that also answers to   *)
(* "USB"; key sources beside it, in it, above it and elsewhere.               *)
MCBundlePath == <<"usb", "b">>
MCKeys == {"k1", "k2", "k3"}
MCKeyId == ("k1" :> "i1") @@ ("k2" :> "i2") @@ ("k3" :> "i1")
MCPrimary == ("g1" :> "g1") @@ ("s1" :> "g1") @@ ("g2" :> "g2")
MCFold == [c \in {"usb", "USB", "b", "pub", "keys", "gone"} |-> IF c = "USB" THEN "usb" ELSE c]
MCExisting == {<<>>, <<"usb">>, <<"USB">>, <<"usb", "b">>, <<"USB", "b">>, <<"USB", "b", "pub">>, <<"usb", "b", "pub">>, <<"keys">>, <<"usb", "keys">>}
F(k) == [stored |-> MCKeyId[k], mat |-> k, label |-> MCKeyId[k]]
KeyDir(p, fs) == [path |-> p, files |-> fs]
OnlyRing(r, p) == [dirs |-> {}, ring |-> r, ringPath |-> p, allowSameMedia |-> FALSE]
WithKeyDir(d, a) == [dirs |-> {d}, ring |-> {"g1", "s1"}, ringPath |-> {}, allowSameMedia |-> a]
MCSources ==
    {WithKeyDir(KeyDir(<<"keys">>, fs), FALSE) : fs \in {<<>>, <<F("k1")>>, <<F("k1"), F("k2")>>, <<F("k1"), F("k3")>>, <<F("k3")>>,
        <<[F("k2") EXCEPT !.stored = "i1"]>>, <<[F("k2") EXCEPT !.label = Unparsed]>>}}
    \cup {WithKeyDir(KeyDir(p, <<F("k1")>>), a) : p \in {<<"usb", "b", "pub">>, <<"USB", "b", "pub">>, <<"USB", "b">>, <<"usb">>, <<>>, <<"usb", "keys">>, <<"gone">>}, a \in BOOLEAN}
    \cup {OnlyRing({"g1", "s1"}, {<<"keys">>}), OnlyRing({"g2"}, {<<"keys">>}), OnlyRing({"g1"}, {<<"usb", "b">>}), OnlyRing({}, {<<"gone">>})}
Raws == [by : {"k1", "k2", "k3", Nobody, "g1", "s1"}, over : {"m1", "m2"}, decodes : {TRUE}] \cup {[by |-> Nobody, over |-> "m1", decodes |-> FALSE]}
MCBlocks == [kind : {"gpg", "ed25519-file", "plugin", "other"}, alg : {"", "ed25519", "rsa"}, keyID : {"i1", "i2", "g1", "g2"}, raw : Raws]
MCPrivate == {FileOf("k2"), [FileOf("k2") EXCEPT !.whole = FALSE], [FileOf("k2") EXCEPT !.private = FALSE], [FileOf("k2") EXCEPT !.stored = "i1"], [FileOf("k2") EXCEPT !.label = Unparsed]}

AnyBlock == CHOOSE b \in Blocks : TRUE
AnySource == CHOOSE k \in KeySources : TRUE

VARIABLE part   \* what this behaviour does

MCInit ==
    /\ part \in {"inputs", "sign", "verify"} /\ message = "m1"
    /\ Init
    /\ IF part = "sign" THEN SigningInit /\ (plugin.exports \/ plugin.honest) ELSE kind = "gpg" /\ SigningInit
    /\ IF part = "verify" THEN VerifierInit ELSE block = AnyBlock /\ source = AnySource /\ VerifierInit
MCNext ==
    \/ part = "inputs" /\ Next /\ UNCHANGED <<svars, vvars, part>>
    \/ part = "sign" /\ SigningNext /\ UNCHANGED <<vars, vvars, part>>
    \/ part = "verify" /\ VerifierNext /\ UNCHANGED <<vars, svars, part>>
\* The fairness of Signing, in its own behaviours.
MCSpec ==
    /\ MCInit /\ [][MCNext]_<<vars, svars, vvars, part>>
    /\ WF_svars(part = "sign" /\ HostStep) /\ WF_svars(part = "sign" /\ CloseSigner)
=============================================================================
