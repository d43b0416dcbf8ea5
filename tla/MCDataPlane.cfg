\* The host tensor copy, partitioning, batching and result order of both
\* transfer directions, Compile over a shared cache, chained execution in
\* both modes, result order of the execute calls, and that every execute
\* and compile call returns, with RPCs that may fail.
\* Host copy thresholds scaled: kMinThreadElements 100000 -> 2,
\* kMinorDimScale 8 -> 2, TPU paddings 128 and 8 -> 4 and 2.
CONSTANTS
    None = None
    dA = dA  dB = dB  dC = dC  w1 = w1  w2 = w2
    HwKinds = {"TPU", "CPU"}
    MaxParts = 2
    MinThreadElements = 2
    MinorDimScale = 2
    PadMinor = 4
    PadSecondMinor = 2
    MaxTensors = 4
    MaxHandles = 3
    SizeSet = {1, 2, 4}
    MaxPartitionSize = 3
    Callers = {t1, t2}
    MaxInstances = 2
    CacheSize = 2
    MaxOps = 3
    MaxInputs = 2
    MaxResult = 1
    Modes = {"xrt", "split"}
    PastEnd = 0
    Computations = {c1, c2}
    MaxReplicas = 3
    MaxTuples = 3
    MaxElements = 2
    RpcMayFail = TRUE
SPECIFICATION Spec
INVARIANTS
    TypeOK
    CopyPreservesElements
    NoOverlappingWrites
    PartitionIsGreedy
    ToServerResultsInOrder
    BatchUnderCeiling
    FromServerResultsInOrder
    ResultsMatchInstances
    CacheEntriesMatchKeys
    ValidPlanSucceeds
    IntermediatesHeldUntilLastUse
    ReplicaResultsInOrder
    TupleElementsInOrder
PROPERTIES
    CompileReturns
    CallReturns
\* A call returns or throws; the call is then over.
CHECK_DEADLOCK FALSE
