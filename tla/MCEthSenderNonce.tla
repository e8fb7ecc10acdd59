-------------------------- MODULE MCEthSenderNonce --------------------------
(* Model-checking instances of EthSenderNonce: small sets of senders and    *)
(* of candidate txs.                                                        *)
EXTENDS EthSenderNonce

CONSTANTS s1, s2

\* A single-message tx <<sender, nonce, variant>>.
Tx1(s, n, v) == <<[from |-> s, nonce |-> n, v |-> v]>>

\* One sender, nonces 0..2, two differently signed txs per nonce.
SingleMsgTxs == {Tx1(s1, n, v) : n \in 0..2, v \in 1..2}

\* Two senders, nonces 0..1, one tx per nonce and a replacement for nonce 0.
TwoSenderTxs == {Tx1(s, n, 1) : s \in {s1, s2}, n \in 0..1} \cup {Tx1(s1, 0, 2)}

\* A batch with a duplicated nonce and a batch with a nonce gap.
BatchTxs == SingleMsgTxs \cup
    {<<[from |-> s1, nonce |-> 0, v |-> 3], [from |-> s1, nonce |-> 0, v |-> 3]>>,
     <<[from |-> s1, nonce |-> 0, v |-> 4], [from |-> s1, nonce |-> 2, v |-> 4]>>}

MCSenders1 == {s1}
MCSenders2 == {s1, s2}
=============================================================================
