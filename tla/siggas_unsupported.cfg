CONSTANTS
    PubKeys <- MCPubKeys
    SigDatas <- MCSigDatas
SPECIFICATION Spec
INVARIANTS
    FailingSubKeyCharged
CHECK_DEADLOCK FALSE
