CONSTANTS
    s1 = s1
    x1 = x1
    Senders <- MCSenders
    Contracts = {}
    Txs <- ClampTxs
    InitBalance <- MCBalance
    MaxTx = 0
    UnsafeUnorderedTx = FALSE
    MaxTxGasWanted = 2
    GasWidth = 4
    BlockGasLimit = 3
    IsLondon = TRUE
    BaseFee = 0
    IntrinsicGas = 1
    MaxSeq = 3
    MaxBlockTxs = 2
    ExtraDecorators = FALSE
SPECIFICATION Spec
PROPERTIES
    CheckImpliesDeliver
