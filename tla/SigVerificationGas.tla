------------------------- MODULE SigVerificationGas -------------------------
(***************************************************************************)
(* SigVerificationGasConsumer and ConsumeMultisignatureVerificationGas of  *)
(* app/ante/sigverify.go: the gas charged on the tx gas meter for checking *)
(* one signature, by public-key type, recursing into multisig keys along   *)
(* the signer bit array.  Gas amounts are abstracted to the label of each  *)
(* ConsumeGas call ("secp256k1" costs Secp256k1VerifyCost, "ed25519" the   *)
(* SigVerifyCostED25519 param); the meter is the sequence of calls made.   *)
(* An index past the end of a Go slice panics: the outcome "panic".        *)
(***************************************************************************)
EXTENDS Integers, Sequences, SequencesExt, FiniteSets

\* Public keys: eth_secp256k1, ed25519, any other type, or a multisig.
Leaf(t) == [type |-> t]
LeafKeys == {Leaf(t) : t \in {"ethsecp256k1", "ed25519", "other"}}
Multisig(ks) == [type |-> "multisig", keys |-> ks]

\* Signature data: a single signature, or MultiSignatureData with its
\* CompactBitArray (one boolean per bit) and one entry per set bit.
SingleData == [type |-> "single"]
MultiData(bits, sigs) == [type |-> "multi", bits |-> bits, sigs |-> sigs]

Outcome(meter, res) == [meter |-> meter, res |-> res]

RECURSIVE SigVerificationGasConsumer(_, _, _)
RECURSIVE MultisigLoop(_, _, _, _, _)

\* The type switch on sig.PubKey.  ed25519 is charged before it is refused;
\* a multisig key whose data is not MultiSignatureData and an unknown type
\* are refused without a charge.
SigVerificationGasConsumer(meter, pubkey, data) ==
    CASE pubkey.type = "ethsecp256k1" -> Outcome(Append(meter, "secp256k1"), "ok")
      [] pubkey.type = "ed25519"      -> Outcome(Append(meter, "ed25519"), "err")
      [] pubkey.type = "multisig" /\ data.type # "multi" -> Outcome(meter, "err")
      [] pubkey.type = "multisig"     -> MultisigLoop(meter, data, pubkey, 1, 1)
      [] OTHER                        -> Outcome(meter, "err")

\* Mutant: the signature is taken at the key's index i, not at sigIndex.
RECURSIVE MultisigLoopByKeyIndex(_, _, _, _, _)
MultisigLoopByKeyIndex(meter, sig, pubkey, i, sigIndex) ==
    IF i > Len(sig.bits) THEN Outcome(meter, "ok")
    ELSE IF ~sig.bits[i] THEN MultisigLoopByKeyIndex(meter, sig, pubkey, i + 1, sigIndex)
    ELSE IF i > Len(pubkey.keys) \/ i > Len(sig.sigs)
         THEN Outcome(meter, "panic")
    ELSE LET r == SigVerificationGasConsumer(meter, pubkey.keys[i], sig.sigs[i])
         IN  IF r.res # "ok" THEN r
             ELSE MultisigLoopByKeyIndex(r.meter, sig, pubkey, i + 1, sigIndex + 1)

\* The loop of ConsumeMultisignatureVerificationGas from bit i on, with
\* sigIndex the next entry of sig.Signatures; the first error is returned.
MultisigLoop(meter, sig, pubkey, i, sigIndex) ==
    IF i > Len(sig.bits) THEN Outcome(meter, "ok")
    ELSE IF ~sig.bits[i] THEN MultisigLoop(meter, sig, pubkey, i + 1, sigIndex)
    ELSE IF i > Len(pubkey.keys) \/ sigIndex > Len(sig.sigs)
         THEN Outcome(meter, "panic")
    ELSE LET r == SigVerificationGasConsumer(meter, pubkey.keys[i],
                                             sig.sigs[sigIndex])
         IN  IF r.res # "ok" THEN r
             ELSE MultisigLoop(r.meter, sig, pubkey, i + 1, sigIndex + 1)

ConsumeMultisignatureVerificationGas(meter, sig, pubkey) ==
    MultisigLoop(meter, sig, pubkey, 1, 1)

(***************************************************************************)
(* Reference (spec 4.2 and P8): list, depth first and in bit order, the    *)
(* verification each signing sub-key calls for, then charge the prefix up  *)
(* to and including the first one that fails.                              *)
(***************************************************************************)
NoCharge == "none"
Check(label, stop) == [label |-> label, stop |-> stop]

\* The positions of the set bits, in order.
SignedPositions(bits) == SelectSeq([i \in DOMAIN bits |-> i], LAMBDA i : bits[i])

RECURSIVE Checks(_, _)
Checks(pubkey, data) ==
    CASE pubkey.type = "ethsecp256k1" -> <<Check("secp256k1", "none")>>
      [] pubkey.type = "ed25519"      -> <<Check("ed25519", "err")>>
      [] pubkey.type = "multisig" /\ data.type = "multi" ->
            LET pos == SignedPositions(data.bits)
            IN  FlattenSeq([j \in DOMAIN pos |->
                    IF pos[j] > Len(pubkey.keys) \/ j > Len(data.sigs)
                    THEN <<Check(NoCharge, "panic")>>
                    ELSE Checks(pubkey.keys[pos[j]], data.sigs[j])])
      [] OTHER -> <<Check(NoCharge, "err")>>

ReferenceGas(pubkey, data) ==
    LET cs    == Checks(pubkey, data)
        stops == {i \in DOMAIN cs : cs[i].stop # "none"}
        cut   == IF stops = {} THEN Len(cs) ELSE Min(stops)
        done  == SubSeq(cs, 1, cut)
    IN  Outcome(SelectSeq([i \in DOMAIN done |-> done[i].label],
                          LAMBDA l : l # NoCharge),
                IF stops = {} THEN "ok" ELSE cs[cut].stop)

(***************************************************************************)
(* One call of the consumer on an input drawn from bounded sets.           *)
(***************************************************************************)
CONSTANTS PubKeys, SigDatas

VARIABLES pubkey, sigData, meter, result
vars == <<pubkey, sigData, meter, result>>

Init ==
    /\ pubkey \in PubKeys
    /\ sigData \in SigDatas
    /\ meter = <<>>
    /\ result = "pending"

ConsumeSigGas ==
    /\ result = "pending"
    /\ LET r == SigVerificationGasConsumer(meter, pubkey, sigData) IN
       /\ meter' = r.meter
       /\ result' = r.res
    /\ UNCHANGED <<pubkey, sigData>>

Next == ConsumeSigGas
Spec == Init /\ [][Next]_vars

TypeOK ==
    /\ meter \in Seq({"secp256k1", "ed25519"})
    /\ result \in {"pending", "ok", "err", "panic"}

\* Spec P8: the consumer charges exactly the reference's calls, in bitmap
\* order through nested multisigs, nothing after the first failing
\* sub-key, and reports the same outcome.
GasMatchesReference ==
    result # "pending" => Outcome(meter, result) = ReferenceGas(pubkey, sigData)

\* Spec P8 as worded: when a flat multisig fails at a signing sub-key of an
\* unsupported type, exactly the signing sub-keys up to and including the
\* failing one have been charged.  (The code charges an ed25519 sub-key
\* before refusing it, but refuses a key of an unknown type free.)
FailingSubKeyCharged ==
    LET keys == pubkey.keys
        pos  == SignedPositions(sigData.bits)
        bad  == {j \in DOMAIN pos : keys[pos[j]].type # "ethsecp256k1"}
    IN  /\ result = "err" /\ pubkey.type = "multisig"
        /\ sigData.type = "multi"
        /\ \A k \in ToSet(keys) : k.type # "multisig"
        /\ \A j \in DOMAIN pos : pos[j] <= Len(keys) /\ j <= Len(sigData.sigs)
        => Len(meter) = Min(bad)
=============================================================================
