\* InitializeDevices reads each TPU device's coordinates inside the topology
\* the TPU system reports: here one task, where the cluster has two hosts.
CONSTANTS
    None = None
    MaxCount = 2
    DefaultTpus = 2
    TpuConfigs <- MCTpuConfigs
    EnvDeviceMaps <- MCEnvDeviceMaps
    MeshDevices <- MCMeshDevices
    LocalWorkers <- MCLocalWorkers
    MpDevices <- MCMpDevices
    LocalGpus = {FALSE}
    TopoShapes <- MCTopoShapesOneTask
    MeshShapeSize = 2
    EnvWorkers <- MCEnvWorkers
SPECIFICATION Spec
INVARIANT
    CoordsInOwnSlot
CHECK_DEADLOCK FALSE
