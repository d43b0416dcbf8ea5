------------------------------ MODULE Topology ------------------------------
(***************************************************************************)
(* Start-up topology resolution of xrt_computation_client.cc:              *)
(* ComputationClient::Create tries ParseEnvBasedTpuClusterConfig,           *)
(* ParseEnvDeviceCounts, ParseEnvDevices and ParseMeshConfig in that order, *)
(* then runs PopulateLocalDevices, and the XrtComputationClient constructor *)
(* checks the result.                                                       *)
(*                                                                         *)
(* The environment (XRT_TPU_CONFIG, XRT_{TPU,GPU,CPU}_COUNT,               *)
(* XRT_DEVICE_MAP, XRT_MESH_SERVICE_ADDRESS, XRT_LOCAL_WORKER,             *)
(* XRT_MPDEVICE, the TPU topology the TPU system reports, and whether      *)
(* TensorFlow finds local GPUs) is an initial-state choice.                *)
(* MeshClient::Get returns a client exactly when XRT_MESH_SERVICE_ADDRESS  *)
(* is set, so one field, mesh, stands for both. A global_device_map entry  *)
(* is a record: the global name <<kind, ordinal>> and the parsed XRT path  *)
(* (job, task, device id). The device type in the path is that of the      *)
(* name: AddXrtHostDevices and the mesh config write it so, and the        *)
(* XRT_DEVICE_MAP values tried do. A workers_map entry is the worker       *)
(* [job, task] and whether its address starts with "grpc://": the three   *)
(* environment strategies write it through MakeGrpcEndPoint, the mesh      *)
(* service's addresses are taken as the service gives them.               *)
(***************************************************************************)
EXTENDS Integers, Sequences, FiniteSetsExt

CONSTANTS
    MaxCount,       \* largest XRT_*_COUNT value tried
    DefaultTpus,    \* devices per TPU host when XRT_TPU_COUNT is unset
    TpuConfigs,     \* XRT_TPU_CONFIG values: sequences of [job, task] hosts
    EnvDeviceMaps,  \* XRT_DEVICE_MAP values, each a set of map entries
    MeshDevices,    \* the mesh service's config: [name, job, task, lid]
    LocalWorkers,   \* XRT_LOCAL_WORKER values: [job, task]
    MpDevices,      \* XRT_MPDEVICE values: <<kind, ordinal>>
    LocalGpus,      \* whether GetAllLocalDevicesForPlatform("gpu") finds any
    TopoShapes,     \* TopologyProto shapes: [tasks, perTask] (num_tasks, devices per task)
    MeshShapeSize,  \* the TopologyProto's mesh_shape_size
    EnvWorkers,     \* XRT_WORKERS values: sets of [job, task]
    None

\* The env-variable default map "CPU:0;/job:localservice/.../XLA_CPU:0".
DefaultDeviceMap == {[name |-> <<"CPU", 0>>, job |-> "localservice", task |-> 0, id |-> 0]}

\* The preference order of PopulateLocalDevices' default device.
KindOrder == <<"TPU", "GPU", "CPU">>

Unset == -1

Counts == {Unset} \cup 0..MaxCount

Env == [tpuConfig : TpuConfigs,
        numTpu : Counts, numGpu : Counts, numCpu : Counts,
        deviceMap : EnvDeviceMaps \cup {DefaultDeviceMap},
        mesh : BOOLEAN,
        localWorker : LocalWorkers \cup {None},
        mp : MpDevices \cup {None},
        localGpus : LocalGpus,
        topo : TopoShapes,
        workers : EnvWorkers,
        meshGrpc : BOOLEAN]

VARIABLES
    env,      \* the process environment, fixed
    pc,       \* the step of Create that runs next
    gmap,     \* options.global_device_map, as a set of entries
    devices,  \* options.devices: the names of the local devices
    default,  \* options.default_device, or None while it is empty
    coords,   \* device_mesh_coords_: [e, base] for each entry's coordinates read
    workers,  \* options.workers_map: [job, task, grpc] entries
    localTarget, \* GetLocalTarget's result the session caches connect to, or None
    service   \* the worker MaybeCreateLocalService starts a service for, or None

vars == <<env, pc, gmap, devices, default, coords, workers, localTarget, service>>

\* The kLocalService job name.
LocalService == "localservice"

\* workers_map.emplace(Worker(job, task), MakeGrpcEndPoint(server)).
GrpcWorkers(ws) == {[job |-> w.job, task |-> w.task, grpc |-> TRUE] : w \in ws}

Names(m) == {e.name : e \in m}

GetEnvInt(v, dflt) == IF v = Unset THEN dflt ELSE v

\* AddXrtHostDevices, once per host of hosts, with the running per-kind
\* ordinals of device_ordinals. Every host adds the same per-kind counts, so
\* host i starts kind k at (i - 1) * count.
AddXrtHostDevices(hosts, count) ==
    UNION {{[name |-> <<k, (i - 1) * count[k] + j>>, job |-> hosts[i].job,
             task |-> hosts[i].task, id |-> j] : j \in 0..(count[k] - 1)} :
              i \in DOMAIN hosts, k \in {"TPU", "GPU", "CPU"}}

HostCounts(tpuDefault) ==
    [k \in {"TPU", "GPU", "CPU"} |->
        CASE k = "TPU" -> GetEnvInt(env.numTpu, tpuDefault)
          [] k = "GPU" -> GetEnvInt(env.numGpu, 0)
          [] k = "CPU" -> GetEnvInt(env.numCpu, 1)]

\* BuildDeviceTaskMap: the least global ordinal of each (task, kind).
BuildDeviceTaskMap(task, kind) ==
    Min({e.name[2] : e \in {x \in gmap : x.task = task /\ x.name[1] = kind}})

HasTaskKind(task, kind) == \E x \in gmap : x.task = task /\ x.name[1] = kind

\* IsLocalDevice: the entry is on the local worker and, under
\* multiprocessing, its id matches the mp device's ordinal offset by the
\* least ordinal of (its task, the mp device's kind).
IsLocalDevice(w, e) ==
    /\ w.job = e.job
    /\ w.task = e.task
    /\ \/ env.mp = None
       \/ /\ HasTaskKind(e.task, env.mp[1])
          /\ env.mp[2] = BuildDeviceTaskMap(e.task, env.mp[1]) + e.id

\* The local entries of gmap: every entry when XRT_LOCAL_WORKER is unset.
LocalEntries ==
    IF env.localWorker = None THEN gmap
    ELSE {e \in gmap : IsLocalDevice(env.localWorker, e)}

\* Mutant: InsertCombined keeps the greatest ordinal of each kind.
DefaultForMaxOrdinal(local) ==
    LET kinds == {i \in 1..3 : \E e \in local : e.name[1] = KindOrder[i]}
    IN IF kinds = {} THEN None
       ELSE LET k == KindOrder[Min(kinds)]
            IN <<k, Max({e.name[2] : e \in {x \in local : x.name[1] = k}})>>

\* Mutant: default_device starts as "TPU:0" instead of empty.
DefaultForPreset(local) ==
    LET kinds == {i \in 1..3 : \E e \in local : e.name[1] = KindOrder[i]}
    IN IF kinds = {} THEN <<"TPU", 0>>
       ELSE LET k == KindOrder[Min(kinds)]
            IN <<k, Min({e.name[2] : e \in {x \in local : x.name[1] = k}})>>

\* min_ordinals and the TPU, GPU, CPU scan of PopulateLocalDevices.
DefaultFor(local) ==
    LET kinds == {i \in 1..3 : \E e \in local : e.name[1] = KindOrder[i]}
    IN IF kinds = {} THEN None
       ELSE LET k == KindOrder[Min(kinds)]
            IN <<k, Min({e.name[2] : e \in {x \in local : x.name[1] = k}})>>

TypeOK ==
    /\ env \in Env
    /\ pc \in {"tpu_cluster", "env_counts", "env_devices", "mesh",
               "populate", "construct", "ready", "error", "fatal", "abort"}
    /\ devices \subseteq Names(gmap) \cup {m.name : m \in MeshDevices}
    /\ default \in {None, <<"GPU", 0>>} \cup Names(gmap)
    /\ \A c \in coords : c.e \in gmap /\ c.base \in Nat
    /\ localTarget \in workers \cup {None}
    /\ service \in workers \cup {None}

Init ==
    /\ env \in Env
    /\ pc = "tpu_cluster"
    /\ gmap = {}
    /\ devices = {}
    /\ default = None
    /\ coords = {}
    /\ workers = {}
    /\ localTarget = None
    /\ service = None

-----------------------------------------------------------------------------
ParseEnvBasedTpuClusterConfig ==
    /\ pc = "tpu_cluster"
    /\ IF env.tpuConfig = <<>>
       THEN pc' = "env_counts" /\ UNCHANGED <<gmap, workers>>
       ELSE /\ gmap' = AddXrtHostDevices(env.tpuConfig, HostCounts(DefaultTpus))
            /\ workers' = GrpcWorkers({env.tpuConfig[i] : i \in DOMAIN env.tpuConfig})
            /\ pc' = "populate"
    /\ UNCHANGED <<env, devices, default, coords, localTarget, service>>

\* A TPU or GPU count adds one "localservice" task 0 host.
ParseEnvDeviceCounts ==
    /\ pc = "env_counts"
    /\ IF env.numTpu > 0 \/ env.numGpu > 0
       THEN /\ gmap' = AddXrtHostDevices(<<[job |-> LocalService, task |-> 0]>>,
                                         HostCounts(0))
            /\ workers' = GrpcWorkers({[job |-> LocalService, task |-> 0]})
       ELSE UNCHANGED <<gmap, workers>>
    /\ pc' = IF gmap' # {} THEN "populate" ELSE "env_devices"
    /\ UNCHANGED <<env, devices, default, coords, localTarget, service>>

\* Both maps are parsed only when XRT_DEVICE_MAP and XRT_WORKERS are both
\* non-empty (XRT_WORKERS="" is the empty set).
ParseEnvDevices ==
    /\ pc = "env_devices"
    /\ IF env.deviceMap # {} /\ env.workers # {}
       THEN gmap' = env.deviceMap /\ workers' = GrpcWorkers(env.workers)
       ELSE UNCHANGED <<gmap, workers>>
    /\ pc' = IF gmap' # {} THEN "populate" ELSE "mesh"
    /\ UNCHANGED <<env, devices, default, coords, localTarget, service>>

\* Without a mesh client, Create fails with "Missing XLA configuration";
\* with one, XRT_LOCAL_WORKER must be set. The local worker's devices, or
\* only the mp device, are inserted into options.devices right away.
ParseMeshConfig ==
    /\ pc = "mesh"
    /\ IF ~env.mesh \/ env.localWorker = None
       THEN pc' = "error" /\ UNCHANGED <<gmap, devices, workers>>
       ELSE /\ gmap' = {[name |-> m.name, job |-> m.job, task |-> m.task, id |-> m.lid]
                           : m \in MeshDevices}
            /\ workers' = {[job |-> m.job, task |-> m.task, grpc |-> env.meshGrpc]
                              : m \in MeshDevices}
            /\ devices' = {m.name : m \in {x \in MeshDevices :
                              /\ x.job = env.localWorker.job
                              /\ x.task = env.localWorker.task
                              /\ env.mp \in {None, x.name}}}
            /\ pc' = "populate"
    /\ UNCHANGED <<env, default, coords, localTarget, service>>

PopulateLocalDevices ==
    /\ pc = "populate"
    /\ devices' = devices \cup Names(LocalEntries)
    /\ default' = DefaultFor(LocalEntries)
    /\ pc' = "construct"
    /\ UNCHANGED <<env, gmap, coords, workers, localTarget, service>>

(* InitializeDevices' second loop, over the TPU entries in map order (by   *)
(* ordinal): XLA_CHECK_LE of the task against num_tasks and of the id      *)
(* against num_tpu_devices_per_task, then the mesh_shape_size coordinates  *)
(* from base_index on are read from device_coordinates.                    *)
TpuEntries == {e \in gmap : e.name[1] = "TPU"}

\* topology_proto: ParseMeshConfig's, or else the one InitializeDevices
\* fetches from the first TPU worker; either is the TPU system's shape.
TopologyProto == env.topo

\* The mesh step of InitializeDevices runs, and ends in SetupGpuRuntime.
MeshMpFatal == env.mesh /\ env.mp # None

\* Mutant: the task's stride is left out of base_index.
CoordsBaseNoTaskStride(e) ==
    e.task * MeshShapeSize + e.id * MeshShapeSize

CoordsBase(e) ==
    e.task * TopologyProto.perTask * MeshShapeSize + e.id * MeshShapeSize

FailsCoordsCheck(e) == e.task > TopologyProto.tasks \/ e.id > TopologyProto.perTask

\* The entries whose coordinates are read before a check fails, if one does.
CoordsRead ==
    {e \in TpuEntries : \A f \in TpuEntries : FailsCoordsCheck(f) => e.name[2] < f.name[2]}

\* How many coordinates device_coordinates holds.
CoordsLen == TopologyProto.tasks * TopologyProto.perTask * MeshShapeSize

\* The workers_map entry of XRT_LOCAL_WORKER, if there is one.
LocalWorkerEntries ==
    {w \in workers : w.job = env.localWorker.job /\ w.task = env.localWorker.task}

\* GetLocalTarget: the local worker's address, when XRT_LOCAL_WORKER names
\* a "localservice" worker of workers_map.
GetLocalTarget ==
    IF env.localWorker = None \/ env.localWorker.job # LocalService
       \/ LocalWorkerEntries = {} THEN None
    ELSE CHOOSE w \in LocalWorkerEntries : TRUE

\* MaybeCreateLocalService's hosts: the "localservice" workers whose address
\* starts with "grpc://".
LocalServiceHosts == {w \in workers : w.job = LocalService /\ w.grpc}

\* The hosts that match the local worker: all of them when it is unset.
LocalServiceMatches ==
    {w \in LocalServiceHosts :
        env.localWorker = None \/ (w.job = env.localWorker.job /\ w.task = env.localWorker.task)}

(* The constructor: its XLA_CHECKs (the default device and every local     *)
(* device are in the global map); InitializeDevices' coordinate loop; its  *)
(* mesh step, which with XRT_MESH_SERVICE_ADDRESS and XRT_MPDEVICE set     *)
(* ends in SetupGpuRuntime's LOG(FATAL); and its last loop: for every      *)
(* local GPU device TensorFlow reports, default_device becomes "GPU:0".    *)
(* GetLocalTarget runs first, for the session caches; between the checks   *)
(* and InitializeDevices, MaybeCreateLocalService fails its XLA_CHECK_EQ   *)
(* when more than one host matches, and starts a service for the one that *)
(* does otherwise.                                                          *)
(* A read past the end of device_coordinates is undefined behaviour: it   *)
(* goes unnoticed or aborts the process.                                    *)
XrtComputationClient ==
    /\ pc = "construct"
    /\ localTarget' = GetLocalTarget
    /\ IF default # None /\ devices \subseteq Names(gmap)
          /\ Cardinality(LocalServiceMatches) <= 1
       THEN LET read == CoordsRead
                failing == {f \in TpuEntries : FailsCoordsCheck(f)}
                oob == \E e \in read : CoordsBase(e) + MeshShapeSize > CoordsLen
                outcome == CASE failing # {} -> "error"
                             [] MeshMpFatal -> "fatal"
                             [] OTHER -> "ready"
            IN /\ service' = IF LocalServiceMatches = {} THEN None
                              ELSE CHOOSE w \in LocalServiceMatches : TRUE
               /\ coords' = {[e |-> e, base |-> CoordsBase(e)] : e \in read}
               /\ pc' \in {outcome} \cup (IF oob THEN {"abort"} ELSE {})
               /\ default' = IF pc' = "ready" /\ env.localGpus THEN <<"GPU", 0>> ELSE default
       ELSE pc' = "error" /\ UNCHANGED <<default, coords, service>>
    /\ UNCHANGED <<env, gmap, devices, workers>>

Next ==
    \/ ParseEnvBasedTpuClusterConfig
    \/ ParseEnvDeviceCounts
    \/ ParseEnvDevices
    \/ ParseMeshConfig
    \/ PopulateLocalDevices
    \/ XrtComputationClient

Spec == Init /\ [][Next]_vars

-----------------------------------------------------------------------------
(* Properties                                                              *)

Rank(kind) == CHOOSE i \in 1..3 : KindOrder[i] = kind

OnWorker(d, w) == \E e \in gmap : e.name = d /\ e.job = w.job /\ e.task = w.task

(* The default device elected by PopulateLocalDevices is a local device,  *)
(* of the most preferred kind (TPU, then GPU, then CPU) among the local   *)
(* devices, with the least ordinal of that kind; this holds for the      *)
(* devices ParseMeshConfig inserts directly as well (spec.md 4.1: prefer  *)
(* TPU, then GPU, then CPU, lowest ordinal among locally owned devices).  *)
DefaultDeviceIsPreferredLocal ==
    pc = "ready" =>
        /\ default \in devices
        /\ \A d \in devices :
              \/ Rank(d[1]) > Rank(default[1])
              \/ d[1] = default[1] /\ d[2] >= default[2]

(* Under multiprocessing, the mp device is served locally whenever the    *)
(* global map puts it on the local worker: IsLocalDevice's ordinal        *)
(* arithmetic (least ordinal of the task and kind plus the device id)     *)
(* recovers the global ordinal of every map the strategies build.         *)
MpDeviceIsLocal ==
    (/\ pc \in {"construct", "ready"}
     /\ env.mp # None /\ env.localWorker # None
     /\ env.mp \in Names(gmap) /\ OnWorker(env.mp, env.localWorker))
        => env.mp \in devices

(* spec.md 4.1: if multiprocessing is active, the local devices are       *)
(* restricted to the single mp-assigned device. PopulateLocalDevices only  *)
(* filters under XRT_LOCAL_WORKER, which multiprocessing launchers set      *)
(* together with XRT_MPDEVICE, so the claim is made for that case.          *)
MpOnlyAssignedDevice ==
    (pc = "ready" /\ env.mp # None /\ env.localWorker # None) => devices = {env.mp}

(* device_mesh_coords_ gives every TPU device that passed InitializeDevices' *)
(* checks the coordinates of its own slot of the TopologyProto: its         *)
(* mesh_shape_size coordinates lie inside device_coordinates, and no two    *)
(* devices read the same ones.                                              *)
CoordsInOwnSlot ==
    /\ \A c \in coords : c.base + MeshShapeSize <= CoordsLen
    /\ \A c, d \in coords : c.e # d.e => c.base # d.base
=============================================================================
