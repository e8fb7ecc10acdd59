CONSTANTS
    PubKeys <- MCPubKeys
    SigDatas <- MCSigDatas
SPECIFICATION Spec
INVARIANTS
    GasMatchesReference
CHECK_DEADLOCK FALSE
