-------------------------- MODULE MCEthAnteHandler --------------------------
(***************************************************************************)
(* Small instances of EthAnteHandler.  Gas is a 4-bit word, so MaxInt is 7 *)
(* and MaxUint 15; one sender with a balance of 3.                         *)
(***************************************************************************)
EXTENDS EthAnteHandler

CONSTANTS s1, x1

Msg(s, n, v, gas, price, value) ==
    [from |-> s, signer |-> s, nonce |-> n, v |-> v, gas |-> gas,
     price |-> price, value |-> value]

MCSenders == {s1}
MCBalance == [s \in MCSenders |-> 3]

\* Single-message txs: nonce 0 and a replacement with a higher price, a
\* nonce 0 tx whose fee is above the balance, nonce 1 with a value.
SingleTxs ==
    { <<Msg(s1, 0, 1, 1, 1, 0)>>, <<Msg(s1, 0, 2, 1, 2, 0)>>,
      <<Msg(s1, 0, 3, 2, 2, 0)>>, <<Msg(s1, 1, 1, 1, 1, 2)>> }

\* Batches: two fees that the balance covers one by one but not together;
\* two free messages whose gas limits sum past MaxInt.
BatchTxs ==
    { <<Msg(s1, 0, 4, 2, 1, 0), Msg(s1, 1, 4, 2, 1, 0)>>,
      <<Msg(s1, 0, 5, 4, 0, 0), Msg(s1, 1, 5, 4, 0, 0)>> }

\* A batch whose second message is signed by a key other than its sender's.
ForgedTxs ==
    { <<Msg(s1, 0, 6, 1, 1, 0), [Msg(s1, 1, 6, 1, 1, 0) EXCEPT !.signer = x1]>> }

PipelineTxs == SingleTxs \cup BatchTxs \cup ForgedTxs

\* A tx whose gas limit is above the block gas limit.
ClampTxs == { <<Msg(s1, 0, 1, 1, 1, 0)>>, <<Msg(s1, 0, 6, 5, 0, 0)>> }

FeeTxs == { <<Msg(s1, 0, 1, 1, 2, 0)>>, <<Msg(s1, 1, 1, 1, 2, 0)>> }
=============================================================================
