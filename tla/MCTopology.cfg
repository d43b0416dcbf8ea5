\* Topology resolution over every small environment.
CONSTANTS
    None = None
    MaxCount = 2
    DefaultTpus = 2
    TpuConfigs <- MCTpuConfigs
    EnvDeviceMaps <- MCEnvDeviceMaps
    MeshDevices <- MCMeshDevices
    LocalWorkers <- MCLocalWorkers
    MpDevices <- MCMpDevices
    LocalGpus = {FALSE}
    TopoShapes <- MCTopoShapes
    MeshShapeSize = 2
    EnvWorkers <- MCEnvWorkers
SPECIFICATION Spec
INVARIANTS
    TypeOK
    DefaultDeviceIsPreferredLocal
    CoordsInOwnSlot
\* Resolution runs once at start-up and ends in "ready" or "error".
CHECK_DEADLOCK FALSE
