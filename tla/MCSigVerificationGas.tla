------------------------ MODULE MCSigVerificationGas ------------------------
(* Bounded inputs for SigVerificationGas: keys up to two multisig levels,   *)
(* bit arrays whose length and set bits may disagree with the keys and the  *)
(* signature list (as a malformed tx can make them).                        *)
EXTENDS SigVerificationGas

Bits(n) == [1..n -> BOOLEAN]

NestedKeys == {Multisig(<<Leaf("ethsecp256k1"), Leaf("ed25519")>>),
               Multisig(<<Leaf("ethsecp256k1"), Leaf("ethsecp256k1")>>)}
SubKeys == LeafKeys \cup NestedKeys

MCPubKeys == LeafKeys \cup {Multisig(<<a, b>>) : a, b \in SubKeys}

SubDatas == {SingleData} \cup
    {MultiData(b, [i \in 1..n |-> SingleData]) : b \in Bits(2), n \in 0..2}

MCSigDatas == {SingleData} \cup
    {MultiData(b, s) : b \in Bits(2) \cup Bits(3), s \in BoundedSeq(SubDatas, 2)}
=============================================================================
