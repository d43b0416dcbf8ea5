----------------------------- MODULE ConvertOps -----------------------------
(***************************************************************************)
(* ConvertToRaw of convert_ops.cpp, on the element types that the type     *)
(* mapping of tensor_util.cpp gives a tensor scalar type: the device type  *)
(* MakeXlaPrimitiveType, and the raw type TensorTypeToRawXlaType.           *)
(*                                                                         *)
(* An XlaOp is one element value. One call converts a value of type from   *)
(* to the device type (ConvertTo), then narrows it to the raw type         *)
(* (ConvertData: an AND with the mask CreateRawMask builds). A call either *)
(* returns a value or fails: an XLA_CHECK, XLA_ERROR, or an XLA builder    *)
(* error for operands of different element types.                          *)
(*                                                                         *)
(* ConvertElementType and the operators on XlaOps are XLA's, outside the   *)
(* repository: an integer conversion wraps modulo 2^bits, a conversion to *)
(* PRED is x # 0, >> is arithmetic on signed types. Integers keep their    *)
(* width in bits, scaled: a byte has ByteBits bits (CHAR_BIT).             *)
(***************************************************************************)
EXTENDS Integers, Bitwise

CONSTANTS
    ByteBits,      \* CHAR_BIT, scaled down so that S64 fits TLC's integers
    ScalarTypes,   \* at::ScalarType values tried
    FromTypes,     \* element types of the converted XlaOp
    HwTypes,       \* DeviceType of the current device
    Values         \* element values tried

Signed == {"S8", "S16", "S32", "S64"}
Integral == Signed \cup {"U8", "U16", "U32", "U64"}

\* ShapeUtil::ByteSizeOfPrimitiveType.
ByteSize(t) ==
    CASE t \in {"PRED", "S8", "U8"}        -> 1
      [] t \in {"S16", "U16", "BF16", "F16"} -> 2
      [] t \in {"S32", "U32", "F32"}       -> 4
      [] t \in {"S64", "U64", "F64"}       -> 8

Bits(t) == ByteSize(t) * ByteBits

\* The value of the two's-complement (or unsigned) pattern x in type t.
Wrap(x, t) ==
    LET m == 2^Bits(t)
    IN IF t \in Signed THEN ((x + m \div 2) % m) - m \div 2 ELSE x % m

\* The bit pattern of x in type t, as a non-negative integer.
Pattern(x, t) == x % 2^Bits(t)

InRange(x, t) == IF t = "PRED" THEN x \in {0, 1} ELSE Wrap(x, t) = x

Ok(x) == [ok |-> TRUE, val |-> x]
Fail == [ok |-> FALSE, val |-> 0]

-----------------------------------------------------------------------------
(* The type mapping of tensor_util.cpp.                                     *)

\* TensorTypeToRawXlaType.
TensorTypeToRawXlaType(st) ==
    CASE st = "Double" -> "F64"  [] st = "Float" -> "F32"
      [] st = "BFloat16" -> "BF16"  [] st = "Half" -> "F16"
      [] st = "Bool" -> "PRED"  [] st = "Byte" -> "U8"  [] st = "Char" -> "S8"
      [] st = "Short" -> "S16"  [] st = "Int" -> "S32"  [] st = "Long" -> "S64"

\* GetDevicePrimitiveType; f is the XLA_USE_BF16, XLA_USE_FP16 and
\* XLA_USE_32BIT_LONG settings, read once.
GetDevicePrimitiveType(t, hw, f) ==
    CASE t = "F64" -> IF f.fp16 THEN "F16" ELSE IF f.bf16 THEN "BF16"
                      ELSE IF hw # "TPU" THEN "F64" ELSE "F32"
      [] t = "F32" -> IF f.fp16 THEN "F16" ELSE IF f.bf16 THEN "BF16" ELSE "F32"
      [] t = "U16" -> IF hw # "TPU" THEN "U16" ELSE "U32"
      [] t = "S16" -> IF hw # "TPU" THEN "S16" ELSE "S32"
      [] t = "S64" -> IF f.long32 THEN "S32" ELSE "S64"
      [] t = "U64" -> IF f.long32 THEN "U32" ELSE "U64"
      [] OTHER     -> t

\* MakeXlaPrimitiveType: each scalar type's XLA type, then the device's.
MakeXlaPrimitiveType(st, hw, f) ==
    GetDevicePrimitiveType(TensorTypeToRawXlaType(st), hw, f)

-----------------------------------------------------------------------------
(* convert_ops.cpp                                                          *)

\* xla::ConvertElementType, on integer values.
ConvertElementType(x, to) == IF to = "PRED" THEN (IF x # 0 THEN 1 ELSE 0) ELSE Wrap(x, to)

\* ExplicitBooleanConvert: Ne(op, Zero(from)).
ExplicitBooleanConvert(x) == IF x # 0 THEN 1 ELSE 0

(* ConvertTo: the identity for equal types; ConvertElementType off TPU;    *)
(* on TPU, S64 and U64 go to PRED by a comparison with zero, and a type    *)
(* outside the switch is an XLA_ERROR.                                      *)
ConvertTo(x, from, to, hw) ==
    CASE from = to -> Ok(x)
      [] hw # "TPU" -> Ok(ConvertElementType(x, to))
      [] from \in {"PRED", "S8", "U8", "S16", "U16", "S32", "U32", "BF16", "F32"}
            -> Ok(ConvertElementType(x, to))
      [] from \in {"S64", "U64"}
            -> Ok(IF to = "PRED" THEN ExplicitBooleanConvert(x) ELSE ConvertElementType(x, to))
      [] OTHER -> Fail

(* CreateRawMask: (1 << raw_to_size * CHAR_BIT) - 1 as a literal of type,  *)
(* then, for a signed type, (mask << shift) >> shift with an S32 shift     *)
(* operand: a builder error unless type is S32 itself.                      *)
CreateRawMask(type, toSize, rawSize) ==
    LET mask == Wrap(2^(rawSize * ByteBits) - 1, type)
        shift == (toSize - rawSize) * ByteBits
    IN CASE type \notin Signed -> Ok(mask)
         [] type # "S32"       -> Fail
         [] OTHER              -> Ok(Wrap(mask * 2^shift, type) \div 2^shift)

(* ConvertData: only between integral types; XLA_CHECK_GE(to_size,         *)
(* raw_to_size); equal sizes keep the value; else op & mask.               *)
ConvertData(x, to, rawTo) ==
    LET toSize == ByteSize(to)
        rawSize == ByteSize(rawTo)
        mask == CreateRawMask(to, toSize, rawSize)
    IN CASE to \notin Integral \/ rawTo \notin Integral -> Ok(x)
         [] toSize < rawSize  -> Fail
         [] toSize = rawSize  -> Ok(x)
         [] ~mask.ok          -> Fail
         [] OTHER             -> Ok(Wrap(Pattern(x, to) & Pattern(mask.val, to), to))

-----------------------------------------------------------------------------
Flags == [bf16 : BOOLEAN, fp16 : BOOLEAN, long32 : BOOLEAN]

VARIABLES
    st,     \* the scalar type converted to
    hw,     \* the current device's type
    flags,  \* the type flags
    from,   \* the XlaOp's element type
    v,      \* the XlaOp's value
    res     \* None before the call, else its outcome

vars == <<st, hw, flags, from, v, res>>

None == [ok |-> FALSE, val |-> -1]

Init ==
    /\ st \in ScalarTypes
    /\ hw \in HwTypes
    /\ flags \in Flags
    /\ from \in FromTypes
    /\ v \in {x \in Values : InRange(x, from)}
    /\ res = None

(* ConvertToRaw(op, from, to, raw_to, device) with to the device type and *)
(* raw_to the raw type of st: ConvertTo, then ConvertData when they differ.*)
ConvertToRaw ==
    LET to == MakeXlaPrimitiveType(st, hw, flags)
        rawTo == TensorTypeToRawXlaType(st)
        r == ConvertTo(v, from, to, hw)
    IN /\ res = None
       /\ res' = IF ~r.ok \/ to = rawTo THEN r ELSE ConvertData(r.val, to, rawTo)
       /\ UNCHANGED <<st, hw, flags, from, v>>

Spec == Init /\ [][ConvertToRaw]_vars

-----------------------------------------------------------------------------
(* ConvertData's "Sign extend the truncation": a call that returns gives   *)
(* the value converted to the raw type, which a device with that type      *)
(* would hold, sign-extended into the wider device type.                   *)
RawConversionTruncates ==
    (res # None /\ res.ok) =>
        res.val = ConvertElementType(v, TensorTypeToRawXlaType(st))
=============================================================================
