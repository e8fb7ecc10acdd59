--------------------------- MODULE EthAnteHandler ---------------------------
(***************************************************************************)
(* The Ethereum ante handler of app/ante/handler_options.go                *)
(* (newEthAnteHandler) with the decorators of app/ante/eth.go that change  *)
(* or read account state: VerifyEthAccount, CheckEthCanTransfer,           *)
(* CheckEthGasConsume and CheckAndSetEthSenderNonce (EthNonceStep), run by *)
(* the node in CheckTx, Simulate, ReCheckTx and DeliverTx as in            *)
(* EthSenderNonce.  An account is its sequence and its balance in the      *)
(* EVM denomination; a pass works on a branch of one of the three states   *)
(* (check, block, committed) that is written back only when it succeeds.   *)
(*                                                                         *)
(* Gas is a GasWidth-bit unsigned word standing for Go's uint64: MaxInt    *)
(* stands for math.MaxInt64 and U(x) is the wrap-around of uint64          *)
(* arithmetic.  Collaborators outside this repository are taken from their *)
(* contracts: VerifyFee returns gas * price for a legacy tx and fails on   *)
(* a gas limit below the intrinsic gas or a price below the base fee;      *)
(* DeductTxCostsFromUserBalance fails when the balance is short.  The      *)
(* mempool fee, minimum gas price and ValidateEthBasic decorators accept   *)
(* every tx of Txs (the inputs are priced above the node minimum).  A      *)
(* message's signature is abstracted to the address it recovers (signer).  *)
(*                                                                         *)
(* The signature result is kept in the incarnation cache of the block      *)
(* executor: one entry per tx of the block, shared by every incarnation    *)
(* (execution) of the tx and dropped with the block.  An incarnation that  *)
(* the executor aborts keeps no state writes but its AnteCache writes and  *)
(* its incarnation cache entry stay.  CheckTx contexts carry no            *)
(* incarnation cache.                                                      *)
(*                                                                         *)
(* The extra decorators of HandlerOptions and the pending tx listener,     *)
(* when configured, run after the nonce step; they are not in this        *)
(* repository, and their outcome is a nondeterministic extraOk.            *)
(***************************************************************************)
EXTENDS Integers, Sequences, SequencesExt, FiniteSets

CONSTANTS
    Senders,            \* sender addresses (model values)
    Contracts,          \* senders whose account has code
    Txs,                \* candidate txs: sequences of MsgEthereumTx
    InitBalance,        \* genesis balances, a function of Senders
    MaxTx,              \* mempoolMaxTxs
    UnsafeUnorderedTx,  \* HandlerOptions.UnsafeUnorderedTx
    MaxTxGasWanted,     \* HandlerOptions.MaxTxGasWanted (0: no clamp)
    GasWidth,           \* bits of the gas word (64 in the code)
    BlockGasLimit,      \* ethermint.BlockGasLimit(ctx)
    IsLondon,           \* rules.IsLondon
    BaseFee,            \* blockCfg.BaseFee
    IntrinsicGas,       \* intrinsic gas of the txs of Txs
    MaxSeq,             \* bound on the sequences CheckTx, Simulate and
                        \* DeliverTx may produce
    MaxBlockTxs,        \* bound on the txs of one block
    ExtraDecorators     \* HandlerOptions has extra decorators or a listener

Step == INSTANCE EthNonceStep

Word == 2^GasWidth
MaxUint == Word - 1
MaxInt == 2^(GasWidth - 1) - 1
U(x) == x % Word

Msgs == UNION {ToSet(t) : t \in Txs}

ASSUME /\ \A m \in Msgs : /\ m.from \in Senders /\ m.nonce \in Nat
                          /\ {m.gas, m.price, m.value} \subseteq Nat
       /\ InitBalance \in [Senders -> Nat]
       /\ GasWidth \in Nat \ {0} /\ BlockGasLimit \in 0..MaxUint
       /\ MaxTxGasWanted \in 0..MaxUint

\* Transaction.Cost of go-ethereum and the fee of a legacy tx.
Fee(m) == m.gas * m.price
Cost(m) == m.value + Fee(m)

\* MsgEthereumTx.ValidateBasic, run by baseapp on every message before the
\* ante handler: a zero gas limit and one that is not an int64 are refused.
MsgValidateBasic(m) == m.gas # 0 /\ m.gas <= MaxInt

\* MsgEthereumTx.VerifySender: the address the signature recovers must be
\* the message's From.
VerifySender(m) == m.signer = m.from

\* VerifyEthSig: every message's sender verifies.
VerifyEthSig(tx) == \A i \in DOMAIN tx : VerifySender(tx[i])

\* Mutant: the lookup tests the cached value instead of its presence, so a
\* missing entry (a nil error) reads as a cached success.
VerifyEthSigCachedNilIsOk(inc, tx) == [ok |-> inc # "err", inc |-> inc]

\* The signature step of newEthAnteHandler.  inc is the tx's incarnation
\* cache entry ("none" when absent, and always in a context without an
\* incarnation cache): a cached result is reused, otherwise VerifyEthSig
\* runs and its result is stored.
VerifyEthSigCached(inc, tx) ==
    IF inc # "none"
    THEN [ok |-> inc = "ok", inc |-> inc]
    ELSE [ok |-> VerifyEthSig(tx),
          inc |-> IF VerifyEthSig(tx) THEN "ok" ELSE "err"]

(***************************************************************************)
(* The decorators.  st is the state a pass reads: [seq, bal], per sender.  *)
(***************************************************************************)
\* Check mode only: every sender is an EOA whose balance covers the cost.
VerifyEthAccount(ctx, st, tx) ==
    ctx.isCheck =>
        \A i \in DOMAIN tx : /\ tx[i].from \notin Contracts
                             /\ st.bal[tx[i].from] >= Cost(tx[i])

\* Fee cap above the base fee after London; the value is transferable.
CheckEthCanTransfer(st, tx) ==
    \A i \in DOMAIN tx :
        /\ IsLondon => tx[i].price >= BaseFee
        /\ tx[i].value > 0 => st.bal[tx[i].from] >= tx[i].value

\* keeper.VerifyFee: gas limit above intrinsic gas, price above base fee.
VerifyFee(m) == m.gas >= IntrinsicGas /\ (IsLondon => m.price >= BaseFee)

\* The gas limit counted for a message: clamped in check mode.
GasLimit(ctx, m) ==
    IF ctx.isCheck /\ MaxTxGasWanted # 0
    THEN Min({m.gas, MaxTxGasWanted})
    ELSE m.gas

\* Mutant: ReCheckTx's skip of the fee deduction taken in every check mode.
GasStepNoCheckFees(ctx, acc, m) ==
    LET gasLimit == GasLimit(ctx, m) IN
    CASE ~acc.ok -> acc
      [] acc.gasWanted > U(MaxInt - gasLimit) -> [acc EXCEPT !.ok = FALSE]
      [] ctx.isCheck -> [acc EXCEPT !.gasWanted = U(@ + gasLimit)]
      [] ~VerifyFee(m) \/ acc.bal[m.from] < Fee(m) -> [acc EXCEPT !.ok = FALSE]
      [] OTHER -> [acc EXCEPT !.gasWanted = U(@ + gasLimit),
                              !.bal[m.from] = @ - Fee(m)]

\* Mutant: the overflow test against the uint64 maximum.
GasStepUintOverflow(ctx, acc, m) ==
    LET gasLimit == GasLimit(ctx, m) IN
    CASE ~acc.ok -> acc
      [] acc.gasWanted > U(MaxUint - gasLimit) -> [acc EXCEPT !.ok = FALSE]
      [] ctx.isReCheck -> [acc EXCEPT !.gasWanted = U(@ + gasLimit)]
      [] ~VerifyFee(m) \/ acc.bal[m.from] < Fee(m) -> [acc EXCEPT !.ok = FALSE]
      [] OTHER -> [acc EXCEPT !.gasWanted = U(@ + gasLimit),
                              !.bal[m.from] = @ - Fee(m)]

\* Mutant: the fees are deducted without checking the balance.
GasStepNoFundsCheck(ctx, acc, m) ==
    LET gasLimit == GasLimit(ctx, m) IN
    CASE ~acc.ok -> acc
      [] acc.gasWanted > U(MaxInt - gasLimit) -> [acc EXCEPT !.ok = FALSE]
      [] ctx.isReCheck -> [acc EXCEPT !.gasWanted = U(@ + gasLimit)]
      [] ~VerifyFee(m) -> [acc EXCEPT !.ok = FALSE]
      [] OTHER -> [acc EXCEPT !.gasWanted = U(@ + gasLimit),
                              !.bal[m.from] = @ - Fee(m)]

\* One iteration of the message loop of CheckEthGasConsume: acc is the
\* gasWanted so far and the balances of the pass's branch.
GasStep(ctx, acc, m) ==
    LET gasLimit == GasLimit(ctx, m) IN
    CASE ~acc.ok -> acc
      [] acc.gasWanted > U(MaxInt - gasLimit) -> [acc EXCEPT !.ok = FALSE]
      [] ctx.isReCheck -> [acc EXCEPT !.gasWanted = U(@ + gasLimit)]
      [] ~VerifyFee(m) \/ acc.bal[m.from] < Fee(m) -> [acc EXCEPT !.ok = FALSE]
      [] OTHER -> [acc EXCEPT !.gasWanted = U(@ + gasLimit),
                              !.bal[m.from] = @ - Fee(m)]

\* The loop, then the block gas limit test on the total.
CheckEthGasConsume(ctx, st, tx) ==
    LET r == FoldLeft(LAMBDA acc, m : GasStep(ctx, acc, m),
                      [ok |-> TRUE, gasWanted |-> 0, bal |-> st.bal], tx)
    IN  [r EXCEPT !.ok = @ /\ r.gasWanted <= BlockGasLimit]

Rejected(st, c) == [ok |-> FALSE, st |-> st, cache |-> c, gasWanted |-> 0]

\* newEthAnteHandler: the decorators in order, the first error ends the
\* pass.  The nonce decorator is the only one of this repository that
\* writes the cache; the extra decorator chain after it (extraOk) may fail
\* with the cache writes done.
AnteHandle(ctx, st, c, tx, extraOk) ==
    LET gas   == CheckEthGasConsume(ctx, st, tx)
        nonce == Step!CheckAndSetEthSenderNonce(ctx, st.seq, c, tx)
    IN  IF VerifyEthAccount(ctx, st, tx) /\ CheckEthCanTransfer(st, tx)
           /\ gas.ok
        THEN [ok |-> nonce.ok /\ extraOk,
              st |-> [seq |-> nonce.seq, bal |-> gas.bal],
              cache |-> nonce.cache, gasWanted |-> gas.gasWanted]
        ELSE Rejected(st, c)

\* baseapp runs ValidateBasic on the messages before the ante handler.
BasicValid(tx) == \A i \in DOMAIN tx : MsgValidateBasic(tx[i])

\* baseapp's checks, then the ante handler given the signature step's
\* result sigOk.
RunTx(ctx, st, c, tx, sigOk, extraOk) ==
    IF BasicValid(tx) /\ sigOk
    THEN AnteHandle(ctx, st, c, tx, extraOk)
    ELSE Rejected(st, c)

(***************************************************************************)
(* The node, as in EthSenderNonce: one ABCI call per step, the mempool      *)
(* keyed by the (sender, nonce) of a tx's first message.                   *)
(***************************************************************************)
VARIABLES
    cache,      \* AnteCache entries (shared by every pass, never rolled back)
    checkSt,    \* accounts of the check state
    blockSt,    \* accounts of the state of the block being executed
    commitSt,   \* accounts of the last committed block
    mempool,    \* app mempool, in insertion order
    recheckQ,   \* mempool txs still to be rechecked after the last Commit
    blockSize,  \* txs delivered in the current block
    delivered,  \* history: nonces of the delivered messages, per sender
    incCache    \* the block executor's incarnation cache, per tx

vars == <<cache, checkSt, blockSt, commitSt, mempool, recheckQ, blockSize,
          delivered, incCache>>

CheckCtx == Step!CheckCtx
ReCheckCtx == Step!ReCheckCtx
DeliverCtx == Step!DeliverCtx

TxKey(t) == <<t[1].from, t[1].nonce>>

NoncesOf(t, s) ==
    LET ms == SelectSeq(t, LAMBDA m : m.from = s)
    IN  [i \in DOMAIN ms |-> ms[i].nonce]

WithinBounds(r) == \A s \in Senders : r.st.seq[s] <= MaxSeq

MempoolHasRoom == MaxTx <= 0 \/ Len(mempool) < MaxTx

\* Outcomes of the extra decorator chain.
ExtraOutcomes == IF ExtraDecorators THEN BOOLEAN ELSE {TRUE}

Insert(mp, t) ==
    IF \E i \in DOMAIN mp : TxKey(mp[i]) = TxKey(t)
    THEN [i \in DOMAIN mp |-> IF TxKey(mp[i]) = TxKey(t) THEN t ELSE mp[i]]
    ELSE Append(mp, t)

RemoveKey(mp, k) == SelectSeq(mp, LAMBDA t : TxKey(t) # k)

Genesis == [seq |-> [s \in Senders |-> 0], bal |-> InitBalance]

NoIncarnations == [t \in Txs |-> "none"]

Init ==
    /\ cache = Step!Cache!NewAnteCache
    /\ checkSt = Genesis
    /\ blockSt = Genesis
    /\ commitSt = Genesis
    /\ mempool = <<>>
    /\ recheckQ = <<>>
    /\ blockSize = 0
    /\ delivered = [s \in Senders |-> <<>>]
    /\ incCache = NoIncarnations

\* A pass in a context without an incarnation cache.
CheckPass(ctx, t, extraOk) ==
    RunTx(ctx, checkSt, cache, t, VerifyEthSigCached("none", t).ok, extraOk)

\* runTx writes the branch before the mempool's Insert, which may refuse.
CheckTx(t) ==
    /\ recheckQ = <<>>
    /\ ~Contains(mempool, t)
    /\ \E extraOk \in ExtraOutcomes :
       LET r == CheckPass(CheckCtx, t, extraOk) IN
       /\ WithinBounds(r)
       /\ cache' = r.cache
       /\ IF r.ok
          THEN /\ checkSt' = r.st
               /\ mempool' = IF MempoolHasRoom THEN Insert(mempool, t)
                                               ELSE mempool
          ELSE UNCHANGED <<checkSt, mempool>>
    /\ UNCHANGED <<blockSt, commitSt, recheckQ, blockSize, delivered, incCache>>

Simulate(t) ==
    /\ \E extraOk \in ExtraOutcomes :
       LET r == CheckPass(CheckCtx, t, extraOk) IN
       WithinBounds(r) /\ cache' = r.cache
    /\ UNCHANGED <<checkSt, blockSt, commitSt, mempool, recheckQ, blockSize,
                   delivered, incCache>>

ReCheckTx ==
    /\ recheckQ # <<>>
    /\ \E extraOk \in ExtraOutcomes :
       LET t == Head(recheckQ)
           r == CheckPass(ReCheckCtx, t, extraOk)
       IN  /\ cache' = r.cache
           /\ recheckQ' = Tail(recheckQ)
           /\ IF r.ok
              THEN checkSt' = r.st /\ UNCHANGED mempool
              ELSE mempool' = RemoveKey(mempool, TxKey(t))
                   /\ UNCHANGED checkSt
    /\ UNCHANGED <<blockSt, commitSt, blockSize, delivered, incCache>>

\* An incarnation of t in the block executor, run on st: the pass and the
\* tx's incarnation cache entry after it (written only when baseapp's
\* checks let the ante handler run).
Incarnation(st, t, extraOk) ==
    LET sig == VerifyEthSigCached(incCache[t], t)
    IN  [r   |-> RunTx(DeliverCtx, st, cache, t, sig.ok, extraOk),
         inc |-> IF BasicValid(t) THEN [incCache EXCEPT ![t] = sig.inc]
                 ELSE incCache]

\* The incarnation of t the executor keeps.
DeliverTx(t) ==
    /\ recheckQ = <<>>
    /\ blockSize < MaxBlockTxs
    /\ blockSize' = blockSize + 1
    /\ \E extraOk \in ExtraOutcomes :
       LET x == Incarnation(blockSt, t, extraOk) IN
       /\ WithinBounds(x.r)
       /\ cache' = x.r.cache
       /\ incCache' = x.inc
       /\ IF x.r.ok
          THEN /\ blockSt' = x.r.st
               /\ mempool' = RemoveKey(mempool, TxKey(t))
               /\ delivered' = [s \in Senders |-> delivered[s] \o NoncesOf(t, s)]
          ELSE UNCHANGED <<blockSt, mempool, delivered>>
    /\ UNCHANGED <<checkSt, commitSt, recheckQ>>

\* An incarnation the executor aborts: it read the block's state without
\* the writes of some earlier txs of the block (st is the state at the
\* start of the block or the current one); only its AnteCache and
\* incarnation cache writes remain.
DeliverTxAborted(t) ==
    /\ recheckQ = <<>>
    /\ blockSize < MaxBlockTxs
    /\ \E st \in {commitSt, blockSt}, extraOk \in ExtraOutcomes :
          LET x == Incarnation(st, t, extraOk) IN
          /\ WithinBounds(x.r)
          /\ cache' = x.r.cache
          /\ incCache' = x.inc
    /\ UNCHANGED <<checkSt, blockSt, commitSt, mempool, recheckQ, blockSize,
                   delivered>>

Commit ==
    /\ recheckQ = <<>>
    /\ commitSt' = blockSt
    /\ checkSt' = blockSt
    /\ recheckQ' = mempool
    /\ blockSize' = 0
    /\ incCache' = NoIncarnations
    /\ UNCHANGED <<cache, blockSt, mempool, delivered>>

Next ==
    \/ \E t \in Txs : CheckTx(t)
    \/ \E t \in Txs : Simulate(t)
    \/ ReCheckTx
    \/ \E t \in Txs : DeliverTx(t)
    \/ \E t \in Txs : DeliverTxAborted(t)
    \/ Commit

Spec == Init /\ [][Next]_vars

(***************************************************************************)
(* Properties.                                                             *)
(***************************************************************************)
TypeOK ==
    /\ cache \subseteq {Step!Key(m) : m \in Msgs}
    /\ \A st \in {checkSt, blockSt, commitSt} :
           st \in [seq : [Senders -> Nat], bal : [Senders -> Nat]]
    /\ mempool \in Seq(Txs) /\ recheckQ \in Seq(Txs)
    /\ blockSize \in 0..MaxBlockTxs
    /\ incCache \in [Txs -> {"none", "ok", "err"}]

Ctxs == {CheckCtx, ReCheckCtx, DeliverCtx}

\* The gas wanted of a tx summed as integers, without wrap-around.
ExactGasWanted(ctx, tx) == FoldLeft(LAMBDA g, m : g + GasLimit(ctx, m), 0, tx)

\* The gas wanted CheckEthGasConsume returns for an accepted tx, which
\* baseapp reports to CometBFT as an int64 and sets as the tx gas meter
\* limit, is the true sum of the messages' gas limits and fits an int64, in
\* every mode and from every state a pass can start from: the uint64 sum
\* never wraps and the overflow test stops it below math.MaxInt64.
GasWantedFitsInt64 ==
    \A ctx \in Ctxs, st \in {checkSt, blockSt}, t \in Txs :
        LET r == RunTx(ctx, st, cache, t, TRUE, TRUE)
        IN  r.ok => /\ r.gasWanted = ExactGasWanted(ctx, t)
                    /\ r.gasWanted <= MaxInt

\* CheckTx is at least as strict as DeliverTx: a tx that CheckTx admits to
\* the mempool, and whose nonces it verified rather than skipped as a
\* replacement, would pass DeliverTx run on the same state.  Check-only
\* code (the MaxTxGasWanted clamp, the ReCheckTx skip of fee deduction,
\* VerifyEthAccount) must never make check mode the weaker one.
CheckImpliesDeliver ==
    [][\A t \in ToSet(mempool') \ ToSet(mempool) :
          (\A i \in DOMAIN t : Step!Key(t[i]) \notin cache)
          => RunTx(DeliverCtx, checkSt, cache, t, VerifyEthSig(t), TRUE).ok]_vars

\* A tx with a message whose signature does not recover its From address
\* never changes the mempool or the block: CheckTx never admits it and no
\* DeliverTx incarnation applies it, whether the incarnation cache already
\* holds the tx's signature result (from an aborted incarnation) or not.
OnlySignedTxsApplied ==
    [][\A t \in Txs : ~VerifyEthSig(t) =>
          /\ ~(CheckTx(t) /\ mempool' # mempool)
          /\ ~(DeliverTx(t) /\ blockSt' # blockSt)]_vars

\* The fees a sender's mempool txs will pay, messages of other senders
\* in a batch excluded.
PendingFees(s) ==
    FoldLeft(LAMBDA a, m : a + (IF m.from = s THEN Fee(m) ELSE 0), 0,
             FlattenSeq(mempool))

\* Between blocks, once the recheck is over, a sender's balance covers the
\* fees of all its txs held by the mempool: CheckTx deducts each admitted
\* tx's fees from the check state, so the next CheckTx of the sender only
\* sees what is left.  ReCheckTx skips the deduction (the `continue` in
\* CheckEthGasConsume), after Commit reset the check state to the block.
PendingFeesCovered ==
    recheckQ = <<>> /\ blockSize = 0 =>
        \A s \in Senders : PendingFees(s) <= commitSt.bal[s]

=============================================================================
