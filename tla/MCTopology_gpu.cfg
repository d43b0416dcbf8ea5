\* spec.md: the default device is the preferred local device, also on a
\* host where TensorFlow finds local GPUs.
CONSTANTS
    None = None
    MaxCount = 2
    DefaultTpus = 2
    TpuConfigs <- MCTpuConfigs
    EnvDeviceMaps <- MCEnvDeviceMaps
    MeshDevices <- MCMeshDevices
    LocalWorkers <- MCLocalWorkers
    MpDevices <- MCMpDevices
    LocalGpus = {FALSE, TRUE}
    TopoShapes <- MCTopoShapes
    MeshShapeSize = 2
    EnvWorkers <- MCEnvWorkers
SPECIFICATION Spec
INVARIANT
    DefaultDeviceIsPreferredLocal
CHECK_DEADLOCK FALSE
