CONSTANTS
    s1 = s1
    x1 = x1
    Senders <- MCSenders
    Contracts = {}
    Txs <- FeeTxs
    InitBalance <- MCBalance
    MaxTx = 0
    UnsafeUnorderedTx = FALSE
    MaxTxGasWanted = 0
    GasWidth = 4
    BlockGasLimit = 15
    IsLondon = TRUE
    BaseFee = 1
    IntrinsicGas = 1
    MaxSeq = 3
    MaxBlockTxs = 2
    ExtraDecorators = FALSE
SPECIFICATION Spec
INVARIANTS
    PendingFeesCovered
