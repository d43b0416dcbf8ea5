\* spec.md 8: a malformed chain is rejected before any RPC; split mode checks late.
CONSTANTS
    MaxOps = 3
    MaxInputs = 2
    MaxResult = 1
    Modes = {"xrt", "split"}
    PastEnd = 0
SPECIFICATION Spec
INVARIANT
    RejectedBeforeAnyRpc
CHECK_DEADLOCK FALSE
