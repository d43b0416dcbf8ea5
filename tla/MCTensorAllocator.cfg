\* Sizes scaled down: sizeof(void*) 8 -> 2 and a 6-byte cache ceiling. The
\* requests give keys under the ceiling of two alignments (evictions across
\* keys) and keys at or above it (freed on release, never cached).
CONSTANTS
    t1 = t1  t2 = t2
    Threads = {t1, t2}
    Alignments = {1, 4}
    ByteSizes = {1, 3, 8}
    PtrSize = 2
    MaxSize = 6
    HoldMax = 2
SPECIFICATION Spec
SYMMETRY MCSymmetry
INVARIANT
    TypeOK
    SizeAccounting
PROPERTY
    TrimmedBeforeGrow
    EvictsLeastRecentlyUsed
