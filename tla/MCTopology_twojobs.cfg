\* spec.md 4.1: under multiprocessing the mp device is a local device. Two TPU
\* jobs, each with a task 0, and XRT_LOCAL_WORKER naming the second one.
CONSTANTS
    None = None
    MaxCount = 2
    DefaultTpus = 2
    TpuConfigs <- MCTpuConfigsTwoJobs
    EnvDeviceMaps <- MCEnvDeviceMaps
    MeshDevices <- MCMeshDevices
    LocalWorkers <- MCLocalWorkersTwoJobs
    MpDevices <- MCMpDevices
    LocalGpus = {FALSE}
    TopoShapes <- MCTopoShapes
    MeshShapeSize = 2
    EnvWorkers <- MCEnvWorkers
SPECIFICATION Spec
INVARIANT
    MpDeviceIsLocal
CHECK_DEADLOCK FALSE
