--------------------------- MODULE EthSenderNonce ---------------------------
(***************************************************************************)
(* Nonce admission of Ethereum transactions: CheckAndSetEthSenderNonce     *)
(* (app/ante/eth.go) and the AnteCache it shares across passes, run by the *)
(* node in its four execution modes:                                       *)
(*   CheckTx    IsCheckTx, not ReCheck; on success the check state keeps   *)
(*              the new sequences and the tx enters the mempool if it has  *)
(*              room (baseapp writes the branch before the insert);        *)
(*   Simulate   the same context flags as CheckTx (it runs on the check    *)
(*              state), but every store write is discarded;                *)
(*   ReCheckTx  IsCheckTx and IsReCheckTx, over the mempool after Commit;  *)
(*   DeliverTx  neither flag, on the block state.                          *)
(* A pass writes its account changes only when the whole pass succeeds     *)
(* (the store branch of the host), but the AnteCache is not branched: its  *)
(* Set/Delete calls stay whatever the outcome.  The decorators that run    *)
(* before the nonce step do not touch the cache or the sequences; a tx   *)
(* they reject (signature, fees, funds, gas) never reaches this step: in  *)
(* CheckTx and Simulate that is a step changing nothing, in ReCheckTx and *)
(* DeliverTx it is the action's Rejected alternative.  The extra          *)
(* decorators of HandlerOptions (and the pending tx listener), when the    *)
(* node configures any, run after the nonce step and may fail: the pass    *)
(* then fails with the nonce step's cache writes done.                     *)
(***************************************************************************)
EXTENDS Integers, Sequences, SequencesExt, FiniteSets

CONSTANTS
    Senders,            \* sender addresses (model values)
    Txs,                \* candidate txs: sequences of MsgEthereumTx messages
    MaxTx,              \* mempoolMaxTxs: AnteCache and app mempool capacity
    UnsafeUnorderedTx,  \* HandlerOptions.UnsafeUnorderedTx
    MaxSeq,             \* bound on the sequences CheckTx, Simulate and
                        \* DeliverTx may produce (ReCheckTx is not bounded:
                        \* it only replays the finite mempool)
    MaxBlockTxs,        \* bound on the txs of one block
    ExtraDecorators     \* HandlerOptions has extra decorators or a listener

Cache == INSTANCE AnteCache

\* A message carries its sender, its nonce and a variant tag telling apart
\* two different signed txs with the same sender and nonce.
Msgs == UNION {ToSet(t) : t \in Txs}

ASSUME /\ \A m \in Msgs : m.from \in Senders /\ m.nonce \in Nat
       /\ UnsafeUnorderedTx \in BOOLEAN
       /\ MaxSeq \in Nat /\ MaxBlockTxs \in Nat
       /\ ExtraDecorators \in BOOLEAN

\* The app mempool keys a tx by the (sender, nonce) of its first message.
TxKey(t) == <<t[1].from, t[1].nonce>>

VARIABLES
    cache,      \* AnteCache entries (shared by every pass, never rolled back)
    checkSeq,   \* account sequences in the check state
    blockSeq,   \* account sequences in the state of the block being executed
    commitSeq,  \* account sequences of the last committed block
    mempool,    \* app mempool, in insertion order
    recheckQ,   \* mempool txs still to be rechecked after the last Commit
    blockSize,  \* txs delivered in the current block
    delivered   \* history: nonces of the delivered messages, per sender

vars == <<cache, checkSeq, blockSeq, commitSeq, mempool, recheckQ,
          blockSize, delivered>>

Step == INSTANCE EthNonceStep
CheckAndSetEthSenderNonce(ctx, seq, c, tx) == Step!CheckAndSetEthSenderNonce(ctx, seq, c, tx)
CheckCtx == Step!CheckCtx
ReCheckCtx == Step!ReCheckCtx
DeliverCtx == Step!DeliverCtx
Key(m) == Step!Key(m)

\* The nonces a tx carries for sender s, in message order.
NoncesOf(t, s) ==
    LET ms == SelectSeq(t, LAMBDA m : m.from = s)
    IN  [i \in DOMAIN ms |-> ms[i].nonce]

WithinBounds(r) == \A s \in Senders : r.seq[s] <= MaxSeq

\* Outcomes of the extra decorator chain after a successful nonce step.
ExtraOutcomes == IF ExtraDecorators THEN BOOLEAN ELSE {TRUE}

(***************************************************************************)
(* The app mempool (PriorityNonceMempool keyed by sender and nonce): an    *)
(* insert is refused when it holds MaxTx txs, and otherwise replaces the   *)
(* tx with the same key in place or appends.                               *)
(***************************************************************************)
MempoolHasRoom == MaxTx <= 0 \/ Len(mempool) < MaxTx

Insert(mp, t) ==
    IF \E i \in DOMAIN mp : TxKey(mp[i]) = TxKey(t)
    THEN [i \in DOMAIN mp |-> IF TxKey(mp[i]) = TxKey(t) THEN t ELSE mp[i]]
    ELSE Append(mp, t)

RemoveKey(mp, k) == SelectSeq(mp, LAMBDA t : TxKey(t) # k)

(***************************************************************************)
(* Actions: one ABCI call each.                                            *)
(***************************************************************************)
Init ==
    /\ cache = Cache!NewAnteCache
    /\ checkSeq = [s \in Senders |-> 0]
    /\ blockSeq = [s \in Senders |-> 0]
    /\ commitSeq = [s \in Senders |-> 0]
    /\ mempool = <<>>
    /\ recheckQ = <<>>
    /\ blockSize = 0
    /\ delivered = [s \in Senders |-> <<>>]

\* CheckTx of a tx not already held; the mempool is locked while a recheck
\* is in progress.  runTx writes the branch of a successful ante handler to
\* the check state before it calls the mempool's Insert, so a tx that the
\* mempool refuses still advances the check sequences.
CheckTx(t) ==
    /\ recheckQ = <<>>
    /\ ~Contains(mempool, t)
    /\ \E extraOk \in ExtraOutcomes :
       LET r == CheckAndSetEthSenderNonce(CheckCtx, checkSeq, cache, t) IN
       /\ WithinBounds(r)
       /\ cache' = r.cache
       /\ IF r.ok /\ extraOk
          THEN /\ checkSeq' = r.seq
               /\ mempool' = IF MempoolHasRoom THEN Insert(mempool, t)
                                               ELSE mempool
          ELSE UNCHANGED <<checkSeq, mempool>>
    /\ UNCHANGED <<blockSeq, commitSeq, recheckQ, blockSize, delivered>>

\* Simulate: CheckTx flags on a discarded branch of the check state.
Simulate(t) ==
    /\ LET r == CheckAndSetEthSenderNonce(CheckCtx, checkSeq, cache, t) IN
       /\ WithinBounds(r)
       /\ cache' = r.cache
    /\ UNCHANGED <<checkSeq, blockSeq, commitSeq, mempool, recheckQ,
                   blockSize, delivered>>

\* ReCheckTx of the next mempool tx; a tx that fails leaves the mempool.
ReCheckTx ==
    /\ recheckQ # <<>>
    /\ \E extraOk \in ExtraOutcomes :
       LET t == Head(recheckQ)
           r == CheckAndSetEthSenderNonce(ReCheckCtx, checkSeq, cache, t)
       IN  /\ cache' = r.cache
           /\ recheckQ' = Tail(recheckQ)
           /\ IF r.ok /\ extraOk
              THEN checkSeq' = r.seq /\ UNCHANGED mempool
              ELSE mempool' = RemoveKey(mempool, TxKey(t))
                   /\ UNCHANGED checkSeq
    /\ UNCHANGED <<blockSeq, commitSeq, blockSize, delivered>>

\* ReCheckTx of the next mempool tx rejected by a decorator that runs
\* before the nonce step: it leaves the mempool, the cache is untouched.
ReCheckTxRejected ==
    /\ recheckQ # <<>>
    /\ recheckQ' = Tail(recheckQ)
    /\ mempool' = RemoveKey(mempool, TxKey(Head(recheckQ)))
    /\ UNCHANGED <<cache, checkSeq, blockSeq, commitSeq, blockSize, delivered>>

\* DeliverTx of any tx a proposer put in the block (not only ours).  A
\* delivered tx leaves the app mempool.
DeliverTx(t) ==
    /\ recheckQ = <<>>
    /\ blockSize < MaxBlockTxs
    /\ blockSize' = blockSize + 1
    /\ \E extraOk \in ExtraOutcomes :
       LET r == CheckAndSetEthSenderNonce(DeliverCtx, blockSeq, cache, t) IN
       /\ WithinBounds(r)
       /\ cache' = r.cache
       /\ IF r.ok /\ extraOk
          THEN /\ blockSeq' = r.seq
               /\ mempool' = RemoveKey(mempool, TxKey(t))
               /\ delivered' = [s \in Senders |-> delivered[s] \o NoncesOf(t, s)]
          ELSE UNCHANGED <<blockSeq, mempool, delivered>>
    /\ UNCHANGED <<checkSeq, commitSeq, recheckQ>>

\* DeliverTx of a tx rejected before the nonce step: it only takes its
\* place in the block.
DeliverTxRejected ==
    /\ recheckQ = <<>>
    /\ blockSize < MaxBlockTxs
    /\ blockSize' = blockSize + 1
    /\ UNCHANGED <<cache, checkSeq, blockSeq, commitSeq, mempool, recheckQ,
                   delivered>>

\* A DeliverTx incarnation that the block executor aborts: it ran on the
\* state at the start of the block or on the current one, and only its
\* AnteCache writes remain.
DeliverTxAborted(t) ==
    /\ recheckQ = <<>>
    /\ blockSize < MaxBlockTxs
    /\ \E seq \in {commitSeq, blockSeq} :
          LET r == CheckAndSetEthSenderNonce(DeliverCtx, seq, cache, t) IN
          WithinBounds(r) /\ cache' = r.cache
    /\ UNCHANGED <<checkSeq, blockSeq, commitSeq, mempool, recheckQ,
                   blockSize, delivered>>

\* Commit: the block state becomes the committed and the new check state,
\* and every mempool tx is queued for ReCheckTx.
Commit ==
    /\ recheckQ = <<>>
    /\ commitSeq' = blockSeq
    /\ checkSeq' = blockSeq
    /\ recheckQ' = mempool
    /\ blockSize' = 0
    /\ UNCHANGED <<cache, blockSeq, mempool, delivered>>

Next ==
    \/ \E t \in Txs : CheckTx(t)
    \/ \E t \in Txs : Simulate(t)
    \/ ReCheckTx
    \/ ReCheckTxRejected
    \/ \E t \in Txs : DeliverTx(t)
    \/ DeliverTxRejected
    \/ \E t \in Txs : DeliverTxAborted(t)
    \/ Commit

Spec == Init /\ [][Next]_vars

\* The host runs the recheck after a Commit to the end without waiting on
\* anything, and the chain keeps committing blocks; no fairness is assumed
\* for CheckTx, Simulate or DeliverTx, which depend on users and proposers.
Fairness ==
    /\ WF_vars(ReCheckTx \/ ReCheckTxRejected)
    /\ WF_vars(Commit)

FairSpec == Spec /\ Fairness

(***************************************************************************)
(* Properties.                                                             *)
(***************************************************************************)
Keys == Senders \X Nat

TypeOK ==
    /\ cache \subseteq {Key(m) : m \in Msgs}
    /\ MaxTx > 0 => Cardinality(cache) <= MaxTx
    /\ \A f \in {checkSeq, blockSeq, commitSeq} : f \in [Senders -> Nat]
    /\ mempool \in Seq(Txs) /\ recheckQ \in Seq(Txs)
    /\ blockSize \in 0..MaxBlockTxs
    /\ delivered \in [Senders -> Seq(Nat)]

\* Replay safety of DeliverTx, whatever the AnteCache holds: the nonces a
\* sender's delivered messages carried are exactly 0, 1, ..., in order,
\* and the block state's sequence counts them (the cache skip must never
\* apply outside CheckTx).
DeliverReplaySafe ==
    \A s \in Senders : delivered[s] = [i \in 1..blockSeq[s] |-> i - 1]

\* Replacement never advances the check state twice (spec P5): a CheckTx
\* that puts a tx in the place of a held one with the same (sender, nonce)
\* leaves the check sequences as they are whenever every nonce it carries
\* was already counted by the check state (is below its sequence).
ReplacementNoDoubleIncrement ==
    [][\A i \in DOMAIN mempool :
          /\ Len(mempool') = Len(mempool)
          /\ mempool'[i] # mempool[i]
          /\ \A j \in DOMAIN mempool'[i] :
                mempool'[i][j].nonce < checkSeq[mempool'[i][j].from]
          => checkSeq' = checkSeq]_vars

\* Spec P6: CheckTx never admits to the mempool a tx carrying a nonce that
\* is already consumed in the committed state.
NoCommittedNonceAdmitted ==
    [][\A t \in ToSet(mempool') \ ToSet(mempool) :
          \A i \in DOMAIN t : t[i].nonce >= commitSeq[t[i].from]]_vars

\* The sequences the chain may still reach from the committed state.  Every
\* nonce of Txs is below MaxSeq, so a tx deliverable at all is deliverable
\* at one of them.
ReachableSeqs == {g \in [Senders -> 0..MaxSeq] : \A s \in Senders : g[s] >= commitSeq[s]}

\* A tx the chain can never execute: at no reachable sequence does its
\* nonce step pass in DeliverTx (a consumed nonce, a duplicated nonce, a
\* nonce gap inside the tx).
Doomed(t) ==
    \A g \in ReachableSeqs :
        ~CheckAndSetEthSenderNonce(DeliverCtx, g, Cache!NewAnteCache, t).ok

\* Every doomed tx held by the mempool eventually leaves it, however it got
\* in (a stale cache entry, a check state behind the block): the recheck
\* after the next Commit must reject it, and the replacement skip must not
\* let it through.
DoomedTxsEvicted ==
    \A t \in Txs : Contains(mempool, t) /\ Doomed(t) ~> ~Contains(mempool, t)

\* CheckTx is no weaker than DeliverTx: a tx admitted to the mempool
\* without any help from pre-existing cache entries would also pass the
\* nonce step of DeliverTx run on the same state.
CheckImpliesDeliver ==
    [][\A t \in ToSet(mempool') \ ToSet(mempool) :
          (\A i \in DOMAIN t : Key(t[i]) \notin cache) =>
              CheckAndSetEthSenderNonce(DeliverCtx, checkSeq, cache, t).ok]_vars
=============================================================================
