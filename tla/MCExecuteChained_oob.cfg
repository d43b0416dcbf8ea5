\* A chain with an input past its end: split mode counts it into uses
\* before any check.
CONSTANTS
    MaxOps = 3
    MaxInputs = 2
    MaxResult = 1
    Modes = {"xrt", "split"}
    PastEnd = 1
SPECIFICATION Spec
INVARIANT
    UsesWrittenInBounds
CHECK_DEADLOCK FALSE
