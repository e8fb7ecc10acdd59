# TLA+ models of loka-chain's ante handler, nonce cache and block hooks

These modules model the parts of `src/` that hold state across calls or
whose correctness depends on the order of calls: the Ethereum ante handler
with its nonce cache, the gas charged for signatures, the checked integer
conversions, and the feemarket and evm block hooks around the
`EVMBlockConfig` cache. `PROJECT.json` lists every component, run, mutant,
finding and hazard. Its `map` names the source lines that each definition
translates.

## The system and how its parts interact

- **AnteCache** (`app/ante/cache/antecache.go`)
  - A mutex-protected set of `(sender, nonce)` pairs with a capacity.
  - `maxTx = 0` means no cap. `maxTx < 0` makes the cache a no-op.
  - Every ante handler pass of the node shares it, and it is never rolled back.
- **Ethereum ante handler** (`app/ante/handler_options.go`, `newEthAnteHandler`)
  - It runs a fixed sequence of checks, and the first error ends the pass.
  - The checks in order:
    - the block config
    - the fee and min-gas-price checks
    - `ValidateEthBasic`
    - the signature check, cached in the incarnation cache
    - `VerifyEthAccount` (CheckTx only: the sender is an EOA whose balance covers the cost)
    - `CheckEthCanTransfer`
    - `CheckEthGasConsume` (gas wanted, fee deduction, block gas limit)
    - `CheckAndSetEthSenderNonce` (nonce check, replacement skip, cache update, sequence increment)
  - The host (cosmos-sdk baseapp) runs each pass on a branch of one of three states:
    - the check state (CheckTx, ReCheckTx, Simulate)
    - the block state (DeliverTx)
    - the committed state
  - A branch is written back only when the whole pass succeeds. The AnteCache, by contrast, is written during the pass.
- **Signature gas** (`app/ante/sigverify.go`)
  - It charges a per-key-type cost and recurses into multisig keys along the signer bit array.
- **Checked conversions** (`types/int.go`)
  - `Safe*` conversions between Go integer types. The block hooks and the RPC layer use them.
  - `SafeNewIntFromBigInt` turns a `big.Int` into an `sdkmath.Int`, refusing one whose `IsValidInt256` test fails (bit length of the magnitude over 256).
- **Block hooks**
  - In each block the hooks run in this order:
    - feemarket `BeginBlock` stores the base fee;
    - evm `BeginBlock` caches `EVMBlockConfig` in the object store, stores the block's header hash and deletes the one `HeaderHashNum` blocks back;
    - the txs of the block read the cached config;
    - feemarket `EndBlock` stores the block gas wanted;
    - evm `EndBlock` deletes the cached config.

## Modules

| Module | Models | State and actions |
|---|---|---|
| `AnteCache` | `antecache.go` | Operators over a set of keys: `NewAnteCache`, `HasRoom`, `Set`, `Delete`, `Exists`, `Size`. The mutex makes each call atomic. |
| `EthNonceStep` | `CheckAndSetEthSenderNonce` | One pass as an operator, a `FoldLeft` of `NonceStep` over the tx's messages. `Skips` is the replacement skip (lines 307-313), `Rejects` the sequence check, `CacheAfterVerify` the Set and Delete. It returns `ok`, the branch's sequences and the shared cache. |
| `EthSenderNonce` | the nonce decorator under the node | Variables: `cache`, `checkSeq`/`blockSeq`/`commitSeq`, `mempool`, `recheckQ`, `blockSize`, and `delivered` (history). Actions: `CheckTx`, `Simulate`, `ReCheckTx`, `ReCheckTxRejected`, `DeliverTx`, `DeliverTxRejected`, `DeliverTxAborted`, `Commit`. `FairSpec` adds the fairness below. The `*Rejected` actions are passes stopped by a decorator that runs before the nonce step. |
| `EthAnteHandler` | `newEthAnteHandler` with `VerifyEthSig` and the incarnation cache, `VerifyEthAccount`, `CheckEthCanTransfer`, `CheckEthGasConsume`, the nonce step, and `MsgEthereumTx.ValidateBasic`'s gas tests | Accounts are `[seq, bal]`. Gas is a `GasWidth`-bit word with Go's wrap-around (`U`). A message carries the address its signature recovers to (`signer`); `VerifySender` compares it with `from`. `incCache` is the incarnation cache per tx: `"none"`, or the cached result `"ok"`/`"err"`. The node actions are those of `EthSenderNonce`, running `RunTx`, plus `DeliverTxAborted`. |
| `SigVerificationGas` | `SigVerificationGasConsumer`, `ConsumeMultisignatureVerificationGas` | Recursive operators. The meter is the sequence of `ConsumeGas` labels. A slice index out of range is the outcome "panic". One step applies the consumer to a key and signature data chosen in `Init`. |
| `SafeIntConversions` | the 13 `Safe*` functions of `types/int.go`, `SafeNewIntFromBigInt`, `IsValidInt256`, `MaxInt256` | Go's integer conversion is `ToSigned`/`ToUnsigned` at scaled widths. `BitLen` is big.Int's bit length of the magnitude, a recursive halving. `ConversionExact` compares `IsValidInt256` with the range `-MaxInt256 .. MaxInt256` of `init`'s `MaxInt256`. One step converts an input chosen in `Init`. |
| `BlockHooks` | feemarket and evm `BeginBlock`/`EndBlock` (`EvmEndBlock`), `EVMBlockConfig`, `RemoveParamsCache` | Variables: `phase`, `height`, `headerHashNum`, header hashes kept as ages, `objCache`, `baseFee`, `blockGasWanted`. `UpdateParams` is a governance tx. |

`MCEthSenderNonce`, `MCEthAnteHandler`, `MCSigVerificationGas` and
`MCBlockHooks` give the constants small values: model-value senders, and
txs built from one or two senders, a few nonces and variants.

### Compositions

- `EthSenderNonce` and `EthAnteHandler` both use `EthNonceStep`, which in turn instantiates `AnteCache`.
- `BlockHooks` instantiates `SafeIntConversions` for `EndBlock`'s `SafeInt64`.
- No refinement is checked. `EthAnteHandler` used to be checked against `EthSenderNonce` as an abstract spec of its nonce behaviour. Once the extra decorators after the nonce step are modelled, that abstract spec must allow a failure with the cache written after any nonce step. It then explains every reordering of the decorators, so no plausible bug in the handler can break it.

### The host, an assumption

The host code (baseapp and the mempool) is not in this repository. The
model assumes the following about it:

- **ABCI calls are atomic.**
  - CheckTx, ReCheckTx, DeliverTx and Commit are each one step.
  - CheckTx is refused while a recheck is in progress.
- **The app mempool is keyed by the `(sender, nonce)` of a tx's first message.**
  - An insert with an existing key replaces that tx in place.
  - An insert is refused when the mempool holds `MaxTx` txs, even when it would replace a held tx.
- **runTx writes the ante handler's branch before the mempool's Insert.** A successful CheckTx that the mempool refuses has still advanced the check state.
- **The extra decorators and the pending tx listener** (`handler_options.go:198-205`) are configured by the node and are not in this repository. When `ExtraDecorators` is TRUE, the chain after the nonce step may succeed or fail. A failure drops the pass's branch but keeps its AnteCache writes.
- **After Commit**, the block state becomes both the committed state and the new check state. Every mempool tx is then rechecked, and a tx that fails leaves the mempool.
- **The block executor may abort an incarnation of a DeliverTx and run it again** (`DeliverTxAborted`).
  - The aborted incarnation ran on the committed state or the current block state.
  - Its branch is dropped, but its AnteCache writes and its incarnation-cache entry stay.
- **The incarnation cache is the block executor's**, one per tx, shared by the tx's incarnations and dropped at Commit. A CheckTx, ReCheckTx or Simulate context has none, so `GetIncarnationCache` misses and the signature is verified every time.
- **The mempool removes a delivered tx by its first message's key.** So a batch with messages of two senders can leave the mempool when another tx with the same first key is delivered. The other sender's check sequence then stays ahead until the next Commit. The nonce runs use single-sender txs.
- **DeliverTx may deliver any tx of `Txs`**, not only those in the mempool, because blocks come from other proposers.

- **The evm object store keeps `KeyPrefixObjectParams` until `RemoveParamsCache` deletes it.** If the host resets the object store at Commit, then `TxSeesBlockBaseFee` also holds without `RemoveParamsCache`.

The host actions (`Commit`, `Insert`, `RemoveKey`) are therefore left out of
the `map`.

## Runs

| Run | Expect | Shows |
|---|---|---|
| nonce_capped | pass | `DeliverReplaySafe`: every sender's delivered nonces are 0, 1, 2, ... in order, whatever the cache holds. `ReplacementNoDoubleIncrement` (spec P5, an action property): a CheckTx that replaces a held tx never moves the check sequences when every nonce it carries is already below them. This still holds when the mempool has refused a tx after its sequence advanced, and when a cache entry was dropped at capacity. `TypeOK` includes the cache capacity. `DoomedTxsEvicted`, under `FairSpec`: a mempool tx that no sequence the chain can still reach would let DeliverTx run is eventually evicted, however it got in. Cache and mempool capacity are 2, so a replacement fits, a third tx is refused and `Set` drops keys at the cap. `ExtraDecorators` is TRUE. |
| nonce_stale_replay | violation | Finding: a consumed nonce is admitted again (spec P6). The cache entry that lets it in outlives a dropped branch, or a nonce consumed by another tx of the block. The same stale entries have a second effect. A Simulate of nonce n records `(s, n)`, so the real CheckTx of n takes the replacement skip without advancing the check sequence, and n+1 is refused until the recheck after the next Commit. |
| nonce_batch_dup | violation | Finding: a tx with a duplicated nonce passes CheckTx and can never be delivered. |
| siggas | pass | `GasMatchesReference`: the meter is the reference list of per-sub-key costs, up to the first failure, over keys nested two levels. |
| siggas_unsupported | violation | Finding: an unknown sub-key type is not charged (spec P8 says it is). |
| ante_pipeline | pass | `GasWantedFitsInt64` (spec P7): an accepted tx's gas wanted is the exact sum and at most MaxInt64. `CheckImpliesDeliver`: a tx admitted without a cache hit passes DeliverTx on the same state. `OnlySignedTxsApplied`: a tx failing `VerifyEthSig` never enters the mempool or changes the block state, including when a later incarnation reads the cached result. `TypeOK`: no balance goes negative. `ExtraDecorators` is FALSE: this is a node without extra decorators, and with TRUE the run takes three minutes. `nonce_capped` exercises a failure after the nonce step. |
| ante_gas_clamp | violation | Finding: the `MaxTxGasWanted` clamp admits txs that the block gas limit rejects. |
| ante_recheck_fees | violation | Finding: ReCheckTx forgets pending fees. |
| safeint_exact | pass | `ConversionExact` for the 10 correct conversions and `SafeNewIntFromBigInt`, over every input of the argument type: the 256-bit test accepts exactly the values `sdkmath.Int` can hold, both signs included. |
| safeint_unchecked | violation | Finding: `SafeUint64ToInt32` truncates; `SafeIntToInt32` and `SafeUint32` wrap. |
| hooks_config | pass | `TxSeesBlockBaseFee`: the txs of a block read that block's base fee. `TxSeesBlockConfig`: every tx of a block reads the config evm BeginBlock cached, even after a `MsgUpdateParams` earlier in the block. |
| hooks_window_decrease | violation | Finding: lowering `HeaderHashNum` leaks hashes: `HeaderHashWindow` fails. With `HeaderHashNum` fixed the window holds, but governance may change it, so no passing run states it. |

Every property of a passing run has a mutant in `PROJECT.json`: a plausible
bug in the mapped code that TLC shows breaks the property.

## Bounds and why they suffice

- **Nonces and blocks**
  - One or two senders, nonces 0..2, and two variants per nonce. The variants are what make a replacement possible.
  - `MaxSeq = 3` bounds the sequences. `MaxBlockTxs = 2` bounds a block.
  - Every finding needs at most two txs of one sender across one Commit.
- **Gas**
  - The word is 4 bits wide: MaxInt = 7, MaxUint = 15.
  - Batches of two messages with gas 2 and 4 reach the boundary, and so does the overflow at MaxInt.
- **Signatures**
  - One batch has a second message signed by another key (`x1`), so the failure comes after a message that verifies.
  - Every other tx verifies, so each tx's incarnation cache can hold `"ok"`, and the forged tx's can hold `"err"`.
- **Conversions**
  - 3 bits stand for 32, 6 for 64 and `W256 = W64 + 1 = 7` for 256.
  - A `big.Int` input ranges over `-2^8 .. 2^8`, which includes values one bit too wide on either side.
  - Every value of the argument type is enumerated, so every boundary is included.
- **Block hooks**
  - Header hash ages are counted up to `HeightCap = 1 + max HeaderHashNums`. A hash older than every window is never deleted again, whatever its exact age.
  - Heights are counted up to the same cap, because after it `h - HeaderHashNum > 0` always holds.
- **Multisig**
  - Keys are nested two levels, bit arrays are up to 3 long, and signature lists may be short. The short lists reach the panic.

## Fairness

Nothing in this code schedules itself: every step is a call from the host.
Most properties are safety properties and need no fairness.

`DoomedTxsEvicted` in `EthSenderNonce` is checked under `FairSpec`, which adds two weak-fairness conditions about the host:

- **`WF_vars(ReCheckTx \/ ReCheckTxRejected)`:** after a Commit, the node rechecks the whole mempool before it takes new CheckTx calls, and nothing in that loop waits.
- **`WF_vars(Commit)`:** the chain keeps committing blocks.

CheckTx, Simulate and DeliverTx get no fairness. They depend on users and proposers, and a tx may never be proposed.

## Not modelled

- **Signature recovery:** the elliptic-curve recovery of `VerifySender`. It is abstracted to the recovered address.
- **Inflation:** `CalculateEpochMintProvision` is decimal arithmetic with no state, and the project has no run left for a reference check of it.
- **Base fee:** `CalculateBaseFee` is not in this repository. feemarket `BeginBlock` takes its result from `BaseFees`.
- **Block gas wanted over int64:** the `EndBlock` error (feemarket `abci.go:60`) is reachable only if the host's `max_gas` allows more than MaxInt64, which is outside this repository.
- **Checks taken to accept every tx:** the mempool fee, min gas price and `ValidateEthBasic` checks (library code). The inputs are txs that pass them.
- **Cosmos ante chains:** library decorators.
- **Parts that are pure data conversions:** the signers, the inflation formula and the module wiring.
- **`SaturatedNewInt`:** nothing in the repository calls it. Read from the code, an out-of-range negative value saturates to `+MaxInt256`, not to `-MaxInt256`; a caller would need to know this.
- **The nil `big.Int`:** `IsValidInt256` accepts it, and `NewIntFromBigInt` then returns a nil-backed Int. The model's inputs are numbers only.
- **Concurrent check passes:** spec §5 says check-mode passes may run in parallel. Each AnteCache call is atomic under its mutex, but the check state, the store write-back and the mempool insert belong to the host, which is not in this repository.
  - How concurrent passes share the check state is host behaviour that this repository cannot settle, so the passes are modelled as atomic.
- **Fields of the new context:** priority, events and the gas meter. A failed pass drops its events with its context, so the events emitted before the block gas limit test (`eth.go:189`) are never seen.

## Planned next

The project keeps twelve runs, so a new question replaces or merges an existing run.

- A run with `UnsafeUnorderedTx` set (spec P9: the sequence advances by one per
  message whatever the nonce).
- A liveness question: does a replaced tx eventually leave the cache?
- More of `EVMBlockConfig`, such as the London switch of the base fee.
- Check-mode passes running in parallel workers (spec §5): CheckTx passes interleaved step by step over the shared AnteCache.
