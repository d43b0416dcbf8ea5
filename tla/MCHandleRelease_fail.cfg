\* A failing release RPC strands the handles of the other sessions of its batch.
CONSTANTS
    t1 = t1  t2 = t2  s1 = s1  s2 = s2  s3 = s3  c1 = c1
    h1 = h1  h2 = h2  h3 = h3  h4 = h4
    dA = dA  dB = dB  dC = dC  w1 = w1  w2 = w2  r1 = r1  r2 = r2
    None = None
    Threads <- MCThreads
    Slots <- MCSlots
    DataSlots <- MCDataSlots
    Owner <- MCOwner
    Handles <- MCHandles
    DataHandles <- MCDataHandles
    Devices <- MCDevices
    DeviceOf <- MCDeviceOf
    Targets <- MCTargets
    TargetOf <- MCTargetOf
    Runners <- MCRunners
    RpcMayFail = TRUE
SPECIFICATION Spec
INVARIANT
    NoStrandedHandle
CHECK_DEADLOCK FALSE
