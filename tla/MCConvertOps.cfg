\* ConvertToRaw over the integral scalar types, from every integral element
\* type, on TPU and CPU, under every setting of the type flags. A byte has 3
\* bits (CHAR_BIT 8 -> 3): S8 is -4..3, S16 -32..31, S32 -2048..2047; the
\* values reach past each width.
CONSTANTS
    ByteBits = 3
    ScalarTypes = {"Bool", "Byte", "Char", "Short", "Int", "Long"}
    FromTypes = {"PRED", "S8", "U8", "S16", "U16", "S32", "U32", "S64", "U64"}
    HwTypes = {"TPU", "CPU"}
    Values <- MCValues
SPECIFICATION Spec
INVARIANT
    RawConversionTruncates
\* A conversion is one call; it then stops.
CHECK_DEADLOCK FALSE
