CONSTANTS
    nil = nil
    Nil = nil
    HeaderHashNums = {2, 3}
    InitHeaderHashNum = 2
    BaseFees <- MCBaseFees
    InitBaseFee = 1
    BlockGasWanteds <- MCBlockGasWanteds
    MinGasMultiplier <- MCMinGasMultiplier
    GasWidth = 4
SPECIFICATION Spec
INVARIANTS
    TxSeesBlockBaseFee
    TxSeesBlockConfig
