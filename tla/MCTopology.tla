----------------------------- MODULE MCTopology -----------------------------
(***************************************************************************)
(* Small environments for Topology. Two TPU hosts of one job, "tpu_worker" *)
(* tasks 0 and 1, with DefaultTpus = 2 standing for the 8 of a real host,  *)
(* so that the second host's ordinals start above zero. Counts up to 2 so  *)
(* that a kind can have a least and a non-least ordinal.                   *)
(***************************************************************************)
EXTENDS Topology

W(j, t) == [job |-> j, task |-> t]
E(k, o, j, t, i) == [name |-> <<k, o>>, job |-> j, task |-> t, id |-> i]

MCTpuConfigs == {<<>>, <<W("tpu_worker", 0)>>, <<W("tpu_worker", 0), W("tpu_worker", 1)>>}

\* An empty XRT_DEVICE_MAP, a two-task map written by hand, and one CPU
\* device on each of two local services.
MCEnvDeviceMaps ==
    {{}, {E("TPU", 0, "tpu_worker", 0, 0), E("TPU", 1, "tpu_worker", 0, 1),
          E("TPU", 2, "tpu_worker", 1, 0), E("CPU", 0, "tpu_worker", 0, 0)},
         {E("CPU", 0, "localservice", 0, 0), E("CPU", 1, "localservice", 1, 0)}}

MCMeshDevices ==
    {[name |-> <<"TPU", 0>>, job |-> "tpu_worker", task |-> 0, lid |-> 0],
     [name |-> <<"TPU", 1>>, job |-> "tpu_worker", task |-> 1, lid |-> 0],
     [name |-> <<"CPU", 0>>, job |-> "tpu_worker", task |-> 0, lid |-> 0],
     [name |-> <<"CPU", 1>>, job |-> "tpu_worker", task |-> 1, lid |-> 0]}

MCLocalWorkers == {W("tpu_worker", 0), W("tpu_worker", 1), W("localservice", 0),
                   W("localservice", 1)}

\* XRT_WORKERS: its default, and two local services on one host.
MCEnvWorkers == {{}, {W("localservice", 0)}, {W("localservice", 0), W("localservice", 1)}}

MCMpDevices == {<<"TPU", 0>>, <<"TPU", 1>>, <<"TPU", 2>>}

\* The TPU system's topology: two tasks of two devices, as the TPU
\* configurations above have; and one task, fewer than two hosts.
MCTopoShapes == {[tasks |-> 2, perTask |-> 2]}

MCTopoShapesOneTask == {[tasks |-> 1, perTask |-> 2]}

\* XRT_TPU_CONFIG with two jobs whose hosts are both task 0.
MCTpuConfigsTwoJobs == {<<W("tpu_worker", 0), W("tpu_worker_b", 0)>>}

MCLocalWorkersTwoJobs == {W("tpu_worker_b", 0)}
=============================================================================
