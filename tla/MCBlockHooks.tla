---------------------------- MODULE MCBlockHooks ----------------------------
EXTENDS BlockHooks

CONSTANTS nil

MCBaseFees == {nil, 1, 2}
MCBlockGasWanteds == {0, 3, 7}
MCMinGasMultiplier == <<1, 2>>
=============================================================================
