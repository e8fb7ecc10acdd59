CONSTANTS
    s1 = s1
    s2 = s2
    Senders <- MCSenders2
    Txs <- TwoSenderTxs
    MaxTx = 2
    UnsafeUnorderedTx = FALSE
    MaxSeq = 3
    MaxBlockTxs = 2
    ExtraDecorators = TRUE
SPECIFICATION FairSpec
INVARIANTS
    TypeOK
    DeliverReplaySafe
PROPERTIES
    ReplacementNoDoubleIncrement
    DoomedTxsEvicted
