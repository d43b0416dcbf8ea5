\* spec.md 4.1: under multiprocessing only the mp device is local.
CONSTANTS
    None = None
    MaxCount = 2
    DefaultTpus = 2
    TpuConfigs <- MCTpuConfigs
    EnvDeviceMaps <- MCEnvDeviceMaps
    MeshDevices <- MCMeshDevices
    LocalWorkers <- MCLocalWorkers
    MpDevices <- MCMpDevices
    LocalGpus = {FALSE}
    TopoShapes <- MCTopoShapes
    MeshShapeSize = 2
    EnvWorkers <- MCEnvWorkers
SPECIFICATION Spec
INVARIANT
    MpOnlyAssignedDevice
CHECK_DEADLOCK FALSE
