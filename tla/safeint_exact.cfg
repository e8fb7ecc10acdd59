CONSTANTS
    W32 = 3
    W64 = 6
    Funcs = {"SafeInt64", "SafeUint64ToInt", "SafeHexToInt64", "SafeUint64",
             "SafeIntToUint64", "SafeInt32ToUint64", "SafeUint",
             "SafeUintToInt32", "SafeInt", "SafeHexToInt",
             "SafeNewIntFromBigInt"}
SPECIFICATION Spec
INVARIANTS
    ConversionExact
CHECK_DEADLOCK FALSE
