----------------------------- MODULE BlockHooks -----------------------------
(***************************************************************************)
(* The block hooks of the evm and feemarket modules around the txs of a    *)
(* block: feemarket BeginBlock (x/feemarket/keeper/abci.go) stores the     *)
(* base fee of the block, evm BeginBlock (x/evm/keeper/abci.go) caches the *)
(* EVMBlockConfig (x/evm/keeper/config.go) in the object store, stores the *)
(* block's header hash and prunes the one HeaderHashNum blocks back; the   *)
(* txs read the cached config; a governance tx may change HeaderHashNum;   *)
(* feemarket EndBlock stores the block gas wanted and evm EndBlock drops   *)
(* the cached config.  The application runs the feemarket BeginBlock       *)
(* before the evm one and the hooks of a block in this order:              *)
(*   "begin_fm" -> "begin_evm" -> "txs" -> "end" -> "begin_fm" ...         *)
(* An EndBlock error fails the block: "halted".                            *)
(*                                                                         *)
(* Heights are kept relative: a stored header hash is its age (0 for the   *)
(* current block), and the height is counted up to HeightCap, a height     *)
(* past every HeaderHashNum value, after which "h - HeaderHashNum > 0"     *)
(* always holds and nothing else reads the height.  Ages are counted up to *)
(* HeightCap as well: a hash older than every HeaderHashNum is never       *)
(* pruned again, whatever its exact age.                                   *)
(***************************************************************************)
EXTENDS Integers, FiniteSets, FiniteSetsExt

CONSTANTS
    HeaderHashNums,     \* values governance may give the HeaderHashNum param
    InitHeaderHashNum,  \* the genesis HeaderHashNum
    BaseFees,           \* values CalculateBaseFee may return (Nil: none)
    Nil,
    InitBaseFee,
    BlockGasWanteds,    \* ctx.BlockGasWanted() values at EndBlock
    MinGasMultiplier,   \* <<num, den>>: the MinGasMultiplier param
    GasWidth            \* bits of the uint64 and int64 words

ASSUME HeaderHashNums \subseteq Nat /\ InitHeaderHashNum \in HeaderHashNums

HeightCap == 1 + Max(HeaderHashNums)

Conv == INSTANCE SafeIntConversions
    WITH W64 <- GasWidth, W32 <- GasWidth \div 2, Funcs <- {},
         fn <- "", input <- 0, out <- 0, done <- FALSE

VARIABLES
    height,         \* ctx.BlockHeight(), counted up to HeightCap
    phase,          \* the hook the node runs next
    headerHashNum,  \* evm param HeaderHashNum
    hashes,         \* ages of the stored header hashes
    objCache,       \* the object store entry KeyPrefixObjectParams, or Nil
    baseFee,        \* feemarket base fee
    blockGasWanted, \* feemarket BlockGasWanted
    blockCfg,       \* the config evm BeginBlock obtained for this block
    seen            \* the config the last tx of the block read, or Nil

vars == <<height, phase, headerHashNum, hashes, objCache, baseFee,
          blockGasWanted, blockCfg, seen>>

\* The config computed from the current state: the fields the model tells
\* apart are the evm params (HeaderHashNum) and the base fee.
ComputeConfig == [headerHashNum |-> headerHashNum, baseFee |-> baseFee]

\* Mutant: the object store lookup is skipped and the config recomputed.
EVMBlockConfigUncached == ComputeConfig

\* EVMBlockConfig: the cached entry, or a fresh one that is then cached.
EVMBlockConfig == IF objCache # Nil THEN objCache ELSE ComputeConfig

\* Mutant: EndBlock leaves the cached config in place.
RemoveParamsCacheNoop == objCache

RemoveParamsCache == Nil

\* evm EndBlock: the object store entry after it (the bloom is left out).
EvmEndBlock == RemoveParamsCache

Init ==
    /\ height = 0
    /\ phase = "begin_fm"
    /\ headerHashNum = InitHeaderHashNum
    /\ hashes = {}
    /\ objCache = Nil
    /\ baseFee = InitBaseFee
    /\ blockGasWanted = 0
    /\ blockCfg = Nil
    /\ seen = Nil

\* feemarket BeginBlock: a nil base fee returns at once.
FeeMarketBeginBlock ==
    /\ phase = "begin_fm"
    /\ height' = Min({height + 1, HeightCap})
    /\ \E bf \in BaseFees : baseFee' = IF bf = Nil THEN baseFee ELSE bf
    /\ phase' = "begin_evm"
    /\ UNCHANGED <<headerHashNum, hashes, objCache, blockGasWanted, blockCfg,
                   seen>>

\* The age of the hash evm BeginBlock deletes at height h, if any: height
\* h - HeaderHashNum is HeaderHashNum blocks old.
PruneAge(h) == IF h - headerHashNum > 0 THEN {headerHashNum} ELSE {}

\* The stored hashes one block later.
Older(ages) == {Min({a + 1, HeightCap}) : a \in ages}

\* evm BeginBlock: cache the config, store this block's hash, delete the
\* hash HeaderHashNum blocks back.
EvmBeginBlock ==
    /\ phase = "begin_evm"
    /\ objCache' = EVMBlockConfig
    /\ blockCfg' = EVMBlockConfig
    /\ hashes' = (Older(hashes) \cup {0}) \ PruneAge(height)
    /\ seen' = Nil
    /\ phase' = "txs"
    /\ UNCHANGED <<height, headerHashNum, baseFee, blockGasWanted>>

\* A tx of the block: the ante handler and the EVM read the config
\* (EVMConfig), which caches it if EndBlock has not yet run.
DeliverTx ==
    /\ phase = "txs"
    /\ objCache' = EVMBlockConfig
    /\ seen' = EVMBlockConfig
    /\ UNCHANGED <<height, phase, headerHashNum, hashes, baseFee,
                   blockGasWanted, blockCfg>>

\* A governance tx (MsgUpdateParams) setting HeaderHashNum.
UpdateParams ==
    /\ phase = "txs"
    /\ \E n \in HeaderHashNums : headerHashNum' = n
    /\ UNCHANGED <<height, phase, hashes, objCache, baseFee, blockGasWanted,
                   blockCfg, seen>>

\* feemarket EndBlock then evm EndBlock.  gasWanted is limited to
\* max(gasWanted * MinGasMultiplier, gasUsed), truncated.
EndBlock ==
    /\ phase = "txs"
    /\ \E gw \in BlockGasWanteds, gasUsed \in BlockGasWanteds :
        LET w == Conv!SafeInt64(gw)
            u == Conv!SafeInt64(gasUsed)
            limited == (w.val * MinGasMultiplier[1]) \div MinGasMultiplier[2]
        IN  /\ gasUsed <= gw
            /\ IF w.ok /\ u.ok
               THEN /\ blockGasWanted' =
                           IF limited >= u.val THEN limited ELSE u.val
                    /\ objCache' = EvmEndBlock
                    /\ phase' = "begin_fm"
               ELSE /\ phase' = "halted"
                    /\ UNCHANGED <<blockGasWanted, objCache>>
    /\ UNCHANGED <<height, headerHashNum, hashes, baseFee, blockCfg, seen>>

Next ==
    \/ FeeMarketBeginBlock
    \/ EvmBeginBlock
    \/ DeliverTx
    \/ UpdateParams
    \/ EndBlock

Spec == Init /\ [][Next]_vars

(***************************************************************************)
(* Properties.                                                             *)
(***************************************************************************)
TypeOK ==
    /\ height \in 0..HeightCap
    /\ phase \in {"begin_fm", "begin_evm", "txs", "halted"}
    /\ headerHashNum \in HeaderHashNums
    /\ hashes \subseteq 0..HeightCap
    /\ blockGasWanted \in Nat

\* The header hash store is a window: once evm BeginBlock has run, no
\* stored hash is HeaderHashNum or more blocks old, HeaderHashNum being the
\* param of the block's config.  BeginBlock deletes only the single height
\* h - HeaderHashNum, so it relies on every older one being gone already.
HeaderHashWindow ==
    blockCfg # Nil => hashes \subseteq 0..(blockCfg.headerHashNum - 1)

\* Every tx of a block reads the base fee feemarket BeginBlock stored for
\* this block, not that of an earlier block: the cached EVMBlockConfig of
\* a block never outlives it.
TxSeesBlockBaseFee ==
    phase = "txs" /\ seen # Nil => seen.baseFee = baseFee

\* Every tx of a block runs with the config evm BeginBlock cached for the
\* block, even after a MsgUpdateParams earlier in the block changed the evm
\* params: EVMBlockConfig returns the object store entry and does not read
\* the params again until the next block.
TxSeesBlockConfig ==
    phase = "txs" /\ seen # Nil => seen = blockCfg

=============================================================================
