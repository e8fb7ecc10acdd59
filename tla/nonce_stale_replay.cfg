CONSTANTS
    s1 = s1
    s2 = s2
    Senders <- MCSenders1
    Txs <- SingleMsgTxs
    MaxTx = 0
    UnsafeUnorderedTx = FALSE
    MaxSeq = 3
    MaxBlockTxs = 2
    ExtraDecorators = FALSE
SPECIFICATION Spec
PROPERTIES
    NoCommittedNonceAdmitted
