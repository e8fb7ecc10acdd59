------------------------- MODULE SafeIntConversions -------------------------
(***************************************************************************)
(* The checked integer conversions of types/int.go.  A Go conversion       *)
(* between integer types keeps the low bits of the two's complement value  *)
(* and reads them in the target type; ToSigned and ToUnsigned do that for  *)
(* a width w.  Widths are scaled down: W32 bits stand for 32 and W64 for   *)
(* 64 (int and uint are 64 bits wide on the platforms the node builds for, *)
(* and hexutil.Uint64 and hexutil.Uint are uint64 and uint).  A call is    *)
(* one step: the function and its argument are chosen in Init.             *)
(***************************************************************************)
EXTENDS Integers

CONSTANTS
    W32,    \* bits standing for 32
    W64,    \* bits standing for 64
    Funcs   \* the conversions checked

ASSUME W32 \in Nat \ {0} /\ W64 \in Nat /\ W32 < W64

SignedRange(w) == -(2^(w - 1)) .. 2^(w - 1) - 1
UnsignedRange(w) == 0 .. 2^w - 1

MaxInt32 == 2^(W32 - 1) - 1
MaxUint32 == 2^W32 - 1
MaxInt64 == 2^(W64 - 1) - 1

\* maxBitLen and sdkmath.MaxBitLen, 256, scaled to one bit more than W64.
W256 == W64 + 1
MaxInt256 == 2^W256 - 1
\* A big.Int of any size, scaled to twice the 256-bit magnitude.
BigIntRange == -(2^(W256 + 1)) .. 2^(W256 + 1)
\* The values sdkmath.Int holds: magnitude of at most W256 bits.
Int256Range == -MaxInt256 .. MaxInt256

\* Go's integer conversion to a w-bit type.
ToUnsigned(x, w) == x % 2^w
ToSigned(x, w) ==
    IF ToUnsigned(x, w) > 2^(w - 1) - 1
    THEN ToUnsigned(x, w) - 2^w
    ELSE ToUnsigned(x, w)

Ok(v) == [ok |-> TRUE, val |-> v]
Err == [ok |-> FALSE, val |-> 0]

SafeInt64(value) == IF value > MaxInt64 THEN Err ELSE Ok(ToSigned(value, W64))

SafeUint64ToInt32(value) ==
    IF value > MaxInt64 THEN Err ELSE Ok(ToSigned(value, W32))

SafeUint64ToInt(value) ==
    IF value > MaxInt64 THEN Err ELSE Ok(ToSigned(value, W64))

SafeHexToInt64(value) ==
    IF value > MaxInt64 THEN Err ELSE Ok(ToSigned(value, W64))

SafeUint32(value) ==
    IF value > MaxUint32 THEN Err ELSE Ok(ToUnsigned(value, W32))

SafeUint64(value) == IF value < 0 THEN Err ELSE Ok(ToUnsigned(value, W64))

SafeIntToUint64(value) == IF value < 0 THEN Err ELSE Ok(ToUnsigned(value, W64))

SafeInt32ToUint64(value) ==
    IF value < 0 THEN Err ELSE Ok(ToUnsigned(value, W64))

SafeUint(value) == IF value < 0 THEN Err ELSE Ok(ToUnsigned(value, W64))

\* Mutant: the bound taken from the error message, math.MaxUint32.
SafeUintToInt32WrongBound(value) ==
    IF value > MaxUint32 THEN Err ELSE Ok(ToSigned(value, W32))

SafeUintToInt32(value) ==
    IF value > MaxInt32 THEN Err ELSE Ok(ToSigned(value, W32))

SafeIntToInt32(value) ==
    IF value > MaxInt32 THEN Err ELSE Ok(ToSigned(value, W32))

SafeInt(value) == IF value > MaxInt64 THEN Err ELSE Ok(ToSigned(value, W64))

SafeHexToInt(value) ==
    IF value > MaxInt64 THEN Err ELSE Ok(ToSigned(value, W64))

\* big.Int's BitLen: the length of the absolute value in bits, 0 for 0.
RECURSIVE BitLenNat(_)
BitLenNat(n) == IF n = 0 THEN 0 ELSE 1 + BitLenNat(n \div 2)

BitLen(i) == BitLenNat(IF i < 0 THEN -i ELSE i)

\* A nil pointer, also valid, is not an input of the model.
IsValidInt256(i) == BitLen(i) <= W256

SafeNewIntFromBigInt(i) == IF ~IsValidInt256(i) THEN Err ELSE Ok(i)

\* Each conversion: its argument type, its result type and its body.
Conversions == [
    SafeInt64         |-> [from |-> UnsignedRange(W64), to |-> SignedRange(W64)],
    SafeUint64ToInt32 |-> [from |-> UnsignedRange(W64), to |-> SignedRange(W32)],
    SafeUint64ToInt   |-> [from |-> UnsignedRange(W64), to |-> SignedRange(W64)],
    SafeHexToInt64    |-> [from |-> UnsignedRange(W64), to |-> SignedRange(W64)],
    SafeUint32        |-> [from |-> SignedRange(W64),   to |-> UnsignedRange(W32)],
    SafeUint64        |-> [from |-> SignedRange(W64),   to |-> UnsignedRange(W64)],
    SafeIntToUint64   |-> [from |-> SignedRange(W64),   to |-> UnsignedRange(W64)],
    SafeInt32ToUint64 |-> [from |-> SignedRange(W32),   to |-> UnsignedRange(W64)],
    SafeUint          |-> [from |-> SignedRange(W64),   to |-> UnsignedRange(W64)],
    SafeUintToInt32   |-> [from |-> UnsignedRange(W64), to |-> SignedRange(W32)],
    SafeIntToInt32    |-> [from |-> SignedRange(W64),   to |-> SignedRange(W32)],
    SafeInt           |-> [from |-> UnsignedRange(W64), to |-> SignedRange(W64)],
    SafeHexToInt      |-> [from |-> UnsignedRange(W64), to |-> SignedRange(W64)],
    SafeNewIntFromBigInt |-> [from |-> BigIntRange, to |-> Int256Range]]

Call(f, x) ==
    CASE f = "SafeInt64"         -> SafeInt64(x)
      [] f = "SafeUint64ToInt32" -> SafeUint64ToInt32(x)
      [] f = "SafeUint64ToInt"   -> SafeUint64ToInt(x)
      [] f = "SafeHexToInt64"    -> SafeHexToInt64(x)
      [] f = "SafeUint32"        -> SafeUint32(x)
      [] f = "SafeUint64"        -> SafeUint64(x)
      [] f = "SafeIntToUint64"   -> SafeIntToUint64(x)
      [] f = "SafeInt32ToUint64" -> SafeInt32ToUint64(x)
      [] f = "SafeUint"          -> SafeUint(x)
      [] f = "SafeUintToInt32"   -> SafeUintToInt32(x)
      [] f = "SafeIntToInt32"    -> SafeIntToInt32(x)
      [] f = "SafeInt"           -> SafeInt(x)
      [] f = "SafeHexToInt"      -> SafeHexToInt(x)
      [] f = "SafeNewIntFromBigInt" -> SafeNewIntFromBigInt(x)

ASSUME Funcs \subseteq DOMAIN Conversions

VARIABLES fn, input, out, done

Init ==
    /\ fn \in Funcs
    /\ input \in Conversions[fn].from
    /\ out = Err
    /\ done = FALSE

Convert ==
    /\ ~done
    /\ done' = TRUE
    /\ out' = Call(fn, input)
    /\ UNCHANGED <<fn, input>>

Spec == Init /\ [][Convert]_<<fn, input, out, done>>

\* A checked conversion returns an error exactly when the argument is not
\* a value of the result type, and otherwise returns the argument itself:
\* the bound each function tests is the bound of the type it converts to.
ConversionExact ==
    done =>
        /\ out.ok <=> input \in Conversions[fn].to
        /\ out.ok => out.val = input

=============================================================================
