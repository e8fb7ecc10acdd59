CONSTANTS
    W32 = 3
    W64 = 6
    Funcs = {"SafeUint64ToInt32", "SafeIntToInt32", "SafeUint32"}
SPECIFICATION Spec
INVARIANTS
    ConversionExact
CHECK_DEADLOCK FALSE
