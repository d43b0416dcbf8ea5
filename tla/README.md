# TLA+ models of the x10 XRT computation client

This directory holds TLA+ models of the distributed computation client in
`src/Sources/x10/xla_client/xrt_computation_client.cc` and of the pure
algorithms of `src/Sources/x10/xla_tensor/` that the client depends on. Each
module models one component. The models are written from the C++ source.
Code outside `src/` is modelled from `spec.md` and is marked `spec_modelled`
in `PROJECT.json`. That code is the XRT session cache, the `TriggeredTask`
thread pool, `MultiWait` and `util::Cache`.

## 1. Inventory

### 1.1 Components, their state and their operations

| Component | Source | State kept | Operations that change state |
|---|---|---|---|
| Topology resolver | `ComputationClient::Create`, `Parse*Config`, `AddXrtHostDevices`, `BuildDeviceTaskMap`, `IsLocalDevice`, `PopulateLocalDevices`, the constructor (cc:321-640) | `Options`: `global_device_map`, `workers_map`, `devices` (local set), `default_device` | one resolution at start-up: try the four strategies in order, then filter the local devices and elect the default device. The constructor may then override the default with `GPU:0`. |
| Session pool | `GetSessionFor{Target,XrtDevice,Device}` (cc:1257-1275), `InitSession`, `Get*Node` (cc:1853-2060); `XrtSessionCache` is not in `src/` | one session cache per purpose (`session_cache_`, `alloc_session_cache_`); per call, a `SessionMap` that borrows one session per target; a node cache per (op, device) in each session | borrow a session for a target; build or reuse a cached graph node; `Reset` of a session's node positions |
| Handle registry and releaser | `XrtData` ctor and `Assign` (cc:98-104, 585-590), `ReleaseHandle`, `ReleaseXrtData`, `ReleaseXrtComputation`, `ReleaseHandles`, `HandleReleaser`, `StartHandleReleaser` (cc:1423-1518) | per handle: a shared `XrtHandle` (a reference count); `released_data_handles_` and `released_compile_handles_` under `lock_`; the `TriggeredTask` activation flag and its runner threads | create data with a new handle; assign one data object's handle to another; drop the last reference, which pushes under the lock and then activates the task; a runner wakes, swaps a pending list out under the lock, groups it by session and issues one release RPC per session |
| Data transfer engine | `PartitionTransferToServer`, `XrtDevice::TransferToServer`, `TransferToServerInternal`, `TransferFromServerImpl` (cc:640-816) | per call: partition boundaries, a `SessionWork` per session (feeds, output nodes, `index_mapping`), a `results` vector | split the tensors into partitions under the payload ceiling; run the partitions concurrently; per partition, convert each tensor on the thread pool and append it to its session's work under a lock; run one RPC per session; scatter the handles back by `index_mapping` |
| Compilation cache and driver | `Compile`, `CheckCompileStatus` (cc:818-913); `util::Cache` is not in `src/` | the LRU `compilation_cache_` keyed by (resource domain, serialized program); per call, a `SessionWork` per session | a concurrent builder per instance looks up the cache; the misses are batched per session; one compile RPC per session; the results are added to the cache |
| Execution scheduler | `ExecuteComputation`, `ExecuteReplicated`, `RunComputations`, `ExecuteParallel`, `ExecuteChained{,Xrt,Split}`, `DeconstructTuple`, `CreateExecuteOps`, `GetArgumentsInputs`, `GetComputationResults` (cc:915-1255, 1344-1421, 1703-1721) | per call: the execute nodes and feeds, the session-to-replicas grouping, the results vector; in split mode, `uses` and `ops_outputs` per chained op | group the devices by session; run one RPC per session in parallel; put the results back in device order. Chained execution either sends one plan RPC, or runs op by op and drops an intermediate when its last consumer has run. |
| Mesh service | `ParseMeshConfig`, `CreateMeshService` (cc:443-489, 1662-1700) | the mesh configuration, which is fetched or served once | fetch the configuration from the service; start the service on ordinal 0 |
| Tensor allocator | `TensorAllocator` (cc:139-268) | `size_`, an LRU list of `AllocBlocks` per (alignment, size), and the free blocks of each | allocate: reuse a free block or trim the cache and allocate a new one. Deallocate: cache the block if it is smaller than the maximum size, else free it. |
| Copy partitioning | `GetIterationDimensions`, `CreateCopyPartitions`, `SlicedCopy`, `CopyTensors` (tensor_util.cpp:233-364) | none (pure), run on threads over disjoint slices | split the largest non-strided dimension into slices; walk each slice with an odometer over the remaining dimensions |
| Layout selection | `MakeArrayShapeFromDimensions`, `MakeTpuShape`, `PaddingFactor`, `MakeShapeWithSortedLayout`, `LayoutManager` (layout_manager.cpp) | the `XLA_LAYOUTS` table, read once | none after start-up (pure) |
| Type mapping | `TensorTypeToRawXlaType`, `GetDevicePrimitiveType`, `MakeXlaPrimitiveType` (tensor_util.cpp:756-849) | the flags `XLA_USE_BF16`, `XLA_USE_FP16` and `XLA_USE_32BIT_LONG`, read once | none (pure) |
| Element type conversion | `ConvertTo`, `ConvertToRaw`, `ConvertData`, `CreateRawMask`, `ExplicitBooleanConvert` (convert_ops.cpp:30-108) | none | convert an op to the device type, then narrow it to the tensor's raw type with a mask |
| Lowering ops | `ops/max_pool_nd_backward.cpp`, `helpers.h` | none | they build XLA graphs; the spec puts them out of scope |
| Metrics | `GetMetrics` (cc:1731-1851) | none | one remote fetch, then renaming |

### 1.2 How the components interact

* Every device-resident value is an `XrtData`. Its `XrtHandle` owns a
  server-side integer handle. Destroying the last `XrtHandle` calls
  `ReleaseXrtData`. That call runs on whatever thread dropped the reference:
  a caller thread, a transfer or execute runner, or the caller of `Assign`.
  It pushes the handle under `lock_` and then calls `Activate` on the
  releaser task. Compiled programs (`XrtComputation`) release their handles
  the same way, through `ReleaseXrtComputation`. The compilation cache holds
  `ComputationPtr`s, so evicting a program can be what drops its last
  reference.
* The transfer engine, the compiler driver and the scheduler all borrow
  sessions through a `SessionMap`. They batch work per session and issue one
  RPC per session on the I/O pool. They join the RPCs with a `MultiWait`, and
  `MultiWait::Wait` rethrows the first error of any closure.
* The topology resolver fixes the device-to-worker-to-target maps. Every
  "per session" grouping in the other components is a grouping by the target
  of the device's worker.

### 1.3 The hard behaviours

* Interleaving. The transfer converters, the compile builders and the
  session runners run on thread pools. Releases come from any thread. The
  releaser is a `TriggeredTask` with at least 8 threads
  (`StartHandleReleaser`), so several `HandleReleaser` passes can run at
  once.
* Ordering. A release pushes the handle and then activates the task. A
  runner clears the activation flag before it swaps the list. A wake-up can
  only be lost if these steps happen in the wrong order. Results must be
  scattered back to the input order across partitions and sessions.
* Partial failure. Each RPC is all-or-nothing. A failed release RPC throws
  out of `ReleaseHandles` through `XLA_CHECK_OK`, and the session groups of
  the swapped batch that had not yet been released are dropped. A failed
  compile or execute throws from its runner, and `MultiWait` rethrows it at
  the join.
* Resource bounds. The wire payload ceiling is enforced by partitioning. The
  compilation cache is an LRU of 64 programs. The tensor allocator's cache is
  bounded by `XLA_TENSOR_ALLOCATOR_MAXSIZE`.
* No timeouts and no retries: nothing in this code retries, so no model has a
  timeout action.

### 1.4 What makes each component correct

* Handle registry: a server handle is released only after its last reference
  is gone (no use after release); it is released at most once; once
  unreferenced it is eventually released (no lost wake-up, no stranded
  batch); each release RPC goes to the session that owns the handle.
* Transfer engine: the output order equals the input order; no partition
  exceeds the ceiling unless one tensor alone does; each partition issues at
  most one RPC per session.
* Compilation cache: a cache hit issues no RPC; identical programs share a
  handle; eviction never releases a program that is still referenced.
* Execution scheduler: results come back in device order; one RPC per
  session group; a chained DAG with a forward reference is rejected before
  any RPC; in split mode an intermediate is dropped only after its last
  consumer has run.
* Topology: the default device is a local device, of the preferred kind,
  with the lowest ordinal; under multiprocessing the assigned device, and
  only it, is local.

## 2. Plan

The behaviour that matters most is the concurrent handle lifecycle, so it
comes first. Next come the data paths (transfer, compile, execute), which
create handles. The pure algorithms come last.

1. `HandleLifecycle` (abstract: Live -> PendingRelease -> Released) and
   `HandleRelease` (detailed: data objects, `Assign`, last-reference drop,
   pending lists, the triggered runners, per-session release RPCs, failing
   RPCs). `HandleRelease` refines `HandleLifecycle` (INSTANCE ... WITH).
   Runs: safety and liveness with release RPCs that may fail (the
   no-stranding property is stated for behaviours where every RPC
   succeeds); a violation run where a failing release RPC strands handles.
2. `Topology`: `BuildDeviceTaskMap`, `IsLocalDevice`, `PopulateLocalDevices`,
   the constructor's checks and its GPU override, checked over every small
   configuration as an initial-state choice. Includes violation runs for
   the multiprocessing local-device filter.
3. `TransferPartition` (pure: `PartitionTransferToServer` and the
   `TransferFromServerImpl` batching, against a reference definition) and
   `TransferToServer` (concurrent partitions, converters, per-session runners,
   `index_mapping` scatter; order preservation).
4. `ExecuteChained`: the Xrt and split modes, the validation timing (a
   violation run), use counting and dropping of intermediates, and the
   result-slot sizing.
5. `Compile`: concurrent `Compile` calls over an LRU `util::Cache`,
   duplicates, failing batches, and eviction. (Done. The composition with
   `HandleRelease` for compile handles is still to do.)
6. `Execute`: the grouping of replicas by session, the parallel
   runners, the demultiplexing, a failing group, and `DeconstructTuple`.
   (Done.)
7. `TensorAllocator`: allocate, deallocate and trim; size accounting and the
   trim bound.
8. `TensorCopy`: layout selection and the partitioned host copy, with
   RECURSIVE operators checked against a reference offset over bounded
   shapes. (Done, as one module, because the copy depends on the layout.)

## 3. Modules and runs

Each module below models one component. Its actions keep the names of the
C++ functions or closures they translate. `PROJECT.json` ("map") gives the
exact lines for every definition. Each `MC*` module and `.cfg` gives a
module's constants small values. Every property of a passing run has a
mutant in `PROJECT.json`: a plausible bug in a mapped definition that TLC
must catch.

### 3.1 Handle registry: `HandleLifecycle`, `HandleRelease`

* **Abstract spec.** `HandleLifecycle` is the promise. A handle is
  `Live`, then `PendingRelease`, then `Released`. A set of pending handles
  is released at once, and nothing moves back.
* **Detailed spec.** `HandleRelease` is the code.
  * `CreateXrtData`, `Assign` and `DropData` are the `XrtData` objects of
    the caller threads.
  * `ReleaseHandle` and `Activate` are the push onto the per-kind pending
    list, then `TriggeredTask::Activate`.
  * `Wake`, `SwapPending`, `ReleaseRpc` and `ReleaseRpcFails` are the
    releaser runners. They run `HandleReleaser` with its two
    `ReleaseHandles` passes. Each pass swaps the pending list, groups it by
    session target, and issues one release RPC per group.
* **Refinement.** `HandleRelease` refines `HandleLifecycle` through
  `INSTANCE HandleLifecycle WITH hstate <- ...`. `AbsState` maps a handle to
  its phase in the code.
* **Runs.**
  * `release_safety`, with release RPCs that may fail: no handle is released
    while still referenced (`NoUseAfterRelease`), and none is released twice.
    While no RPC has failed, none is stranded
    (`NoStrandedHandleWhileRpcsSucceed`). Every unreferenced handle is
    eventually released, unless an RPC failed (`EventuallyReleased`). Every
    step is a lifecycle step (`HandleLifecycleSpec`, the refinement).
  * `release_failure` (violation): `ReleaseHandles` wraps each release RPC
    in `XLA_CHECK_OK`. One failed RPC therefore strands the other sessions'
    handles of the same batch. spec.md 4.3/7 calls release best-effort and
    non-fatal.

### 3.2 Topology: `Topology`

* **Model.** The constructor's environment is an initial-state choice over
  every small configuration. The four strategies are
  `ParseEnvBasedTpuClusterConfig`, `ParseEnvDeviceCounts`,
  `ParseEnvDevices` and `ParseMeshConfig` (`ParseEnvDevices` only when
  both `XRT_DEVICE_MAP` and `XRT_WORKERS` are set). Each strategy also writes
  `workers_map` (`workers`): the three environment strategies write
  `grpc://` addresses, and the mesh service's addresses are taken as given
  (`meshGrpc`). The model also covers
  `BuildDeviceTaskMap`, `IsLocalDevice` and `PopulateLocalDevices`.
  `XrtComputationClient` is the whole constructor, in code order:
  * `GetLocalTarget`, the local worker's `workers_map` entry the session
    caches connect to;
  * the checks that the default and local devices are in the global map;
  * `MaybeCreateLocalService` (`LocalServiceMatches`): it fails its
    `XLA_CHECK_EQ` when several `localservice` hosts match, and otherwise
    starts a service for the one that matches;
  * `InitializeDevices`' loop over the TPU entries (`CoordsRead`), with its
    checks against the topology and its coordinate reads;
  * its mesh step (`MeshMpFatal`);
  * the GPU loop that sets the default device to `GPU:0`.
* **Runs.**
  * `topology`: the default device is the preferred local one, whichever
    strategy built the global map.
  * `topology_mp_filter` (violation): `IsLocalDevice` builds its key from
    the mp device's kind. With `XRT_MPDEVICE=TPU:0`, the host's `CPU:0` is
    therefore local too.
  * `topology_mp_two_jobs` (violation, `MpDeviceIsLocal`): `XRT_TPU_CONFIG`
    names two jobs whose hosts are both task 0, and `XRT_LOCAL_WORKER` and
    `XRT_MPDEVICE=TPU:2` name the second host and its first TPU. The
    `dev_task_map` key (`"0:TPU"`) has no job, so it holds the first
    job's least ordinal 0, and `TPU:2` (id 0) is not local: the local set
    is empty and the constructor's default-device check fails.
  * `topology_gpu_default` (violation): whether TensorFlow reports local
    GPUs is part of the environment (`LocalGpus`). The constructor's last
    loop then sets the default device to `GPU:0`, after the check that the
    elected default is in the global map. On a TPU host with a visible GPU
    the served default is `GPU:0`: not the preferred local device of
    spec.md 4.1, not in `options_.devices`, not in the global map. The
    `topology` run fixes `LocalGpus = {FALSE}`, where the election holds.
  * `topology` also checks `CoordsInOwnSlot`. `InitializeDevices` gives
    every TPU device the coordinates of its own slot of the topology
    (`CoordsBase` is the code's `base_index`), when the topology the TPU
    system reports matches the cluster: two tasks of two devices.
  * `topology_coords_oob` (violation): the TPU system reports one task
    while `XRT_TPU_CONFIG` lists two hosts. The checks are
    `XLA_CHECK_LE(task, num_tasks)` and `XLA_CHECK_LE(id, per_task)`, so
    task 1 passes, and its coordinates are read past the end of
    `device_coordinates`. The read is undefined behaviour: the model lets
    it go unnoticed or abort (`pc = "abort"`).
  * The mesh step with `XRT_MPDEVICE` set ends in `SetupGpuRuntime`'s
    `LOG(FATAL)` (`pc = "fatal"`), an explicit unimplemented path; no
    property is stated about it.
  * `GetLocalTarget` and `MaybeCreateLocalService` are modelled as steps
    of the constructor (they set `localTarget` and `service`, and the
    second may fail), but no property is stated about them: every address
    the environment strategies write is a `grpc://` one.

### 3.3 The data plane: `MCDataPlane`

`MCDataPlane` composes the client's data-plane calls by `INSTANCE ... WITH`,
renaming the variables the modules share (`pc`, `results`, `pending`,
`work`, `kind`): `TensorCopy`, `TransferToServer`, `TransferFromServer`,
`Compile`, `ExecuteChained` and `Execute`. The calls share only the
client's constants: the payload ceiling `GetMaxTensorsPartitionSize`, the
device-to-worker map (which is also `GetResourceDomain` for `Compile`), and
the computations. So `call` picks the call a behaviour runs, and the other
calls rest in one of their initial states. The state space is then the sum
of the six calls, not the product (440,780 states, about a minute).
Run `data_plane` checks the properties of sections 3.3.1 to 3.3.5.

#### 3.3.1 Host tensor copy: `TensorCopy`

* **Layout selection.**
  * `ParseLayout` and `GetLayout` are the `XLA_LAYOUTS` parsing and
    validation.
  * `PaddingFactor` and `MakeTpuShape` are the TPU padding policy, with
    padding factors as rationals.
  * `SortedLayouts` is the sorted layout. `std::sort` is unstable, so ties
    are a nondeterministic choice.
* **Copy.**
  * `CopyTensors` makes either the flat copy or the sliced copy. For the
    sliced copy it computes `GetIterationDimensions` and
    `CreateCopyPartitions`.
  * `SlicedCopy(k)` is one step of partition k's closure: a strided row
    copy (`Row`, `Store`), then the odometer `Advance`.
* **In `data_plane`.**
  * `CopyPreservesElements`: every element lands at the offset its logical
    index has in the destination layout. The reference is the Horner
    offset `RefOffset`.
  * `NoOverlappingWrites`: no two closures write the same element.

#### 3.3.2 Transfers: `TransferToServer`, `TransferFromServer`

* **`TransferToServer`.**
  * `PartitionTransferToServer` is a RECURSIVE loop, checked against a
    greedy reference rule (`PartitionIsGreedy`).
  * `SendPartition` and `Convert` are the concurrent senders and converters.
    Converters append under the lock with an `index_mapping`.
  * `ToServerResultsInOrder`: the scatter puts every handle at its input
    position, under every interleaving.
* **`TransferFromServer`.**
  * Covers the batching of `TransferFromServerImpl` and the
    per-(batch, session) work.
  * `BatchUnderCeiling`: a batch of several handles stays under the
    ceiling.
  * `FromServerResultsInOrder`: literals come back in handle order,
    whatever order the RPCs run in.

#### 3.3.3 Chained execution: `ExecuteChained`

* **Model.** `ExecuteChainedXrt` validates the whole plan and issues one
  RPC. `StartSplit` and `SplitStep` are the split loop: use counting,
  per-op checks and RPCs, result-slot sizing, and dropping of
  intermediates. `StartSplit` counts `uses[input.op_index]` before any
  check. An input naming an op past the end (`PastEnd = 1`) writes outside
  `uses`: undefined behaviour. The model lets it go unnoticed or abort the
  process (`pc = "abort"`), and records the stray writes in `stray`.
* **Runs.**
  * In `data_plane`: well-formed chains succeed in both modes
    (`ValidPlanSucceeds`). In split mode an intermediate is held exactly
    until its last consumer has run (`IntermediatesHeldUntilLastUse`).
  * `chained_reject_late` (violation): split mode detects a forward
    reference at op i only after ops 0..i-1 have run their RPCs. spec.md 8
    says a malformed DAG is rejected before any RPC.
  * `chained_oob` (violation): with inputs up to `ops.size()`,
    `UsesWrittenInBounds` fails. `ExecuteChainedSplit` writes
    `uses[ops.size()]` before its `XLA_CHECK_LT`, where `ExecuteChainedXrt`
    rejects the same chain cleanly.

#### 3.3.4 Compilation: `Compile`

* **Actions.**
  * `Builder(c, i)`: the builder closure. It computes `Key`, which is
    `<<resource domain, computation>>`. A hit goes into `res`. A miss is
    appended to the session work.
  * `BuildersDone`: `mwait.Wait(); mwait.Reset(session_work_map.size())`.
  * `Runner` and `RunnerFails`: the session runner and the throw in
    `CheckCompileStatus`. Results come back through `index_mapping`
    (`RunnerResults`), then `compilation_cache_.Add` in output order
    (`RunnerCache`).
* **Cache.** `util::Cache` is not under `src/`, so it is modelled from the
  spec as a bounded LRU (`CacheGet`, `CacheAdd`).
* **In `data_plane`.**
  * `ResultsMatchInstances`: every returned result is the program of its
    own instance's key.
  * `CacheEntriesMatchKeys`: every cache entry holds a program compiled
    from its key.
  * `CompileReturns`: every call returns, including one where every
    instance hit and no runner exists.

#### 3.3.5 Execution: `Execute`

* **Model.** One call per behaviour, of the kind `kind`: `ExecuteComputation`,
  `ExecuteReplicated` (one computation), `ExecuteParallel` (one per replica)
  or `DeconstructTuple`.
  * `StartRun` is `CreateExecuteOps`: `GetArgumentsInputs` throws if an
    argument is on another device, before any RPC. Otherwise the MultiWait
    is sized to the number of sessions (`Sessions`, one per worker target).
  * `SessionRunner(g)` is the closure of session g. It runs one RPC for its
    replicas (`Replicas(g)`), then stores output j at `results[replicas[j]]`
    (`RunnerResults`). Or the RPC fails, and the Completer still counts the
    closure done. `WaitRunners` is `mwait.Wait()`, which rethrows.
  * `StartDeconstruct` and `DeconstructRpc(g)` are `DeconstructTuple`'s two
    loops. One RPC runs per session, in any order, and `output_index` carries
    across the tuples of a session (`DeconstructResults`, a fold). A failure
    throws and ends the loop.
* **In `data_plane`.**
  * `ReplicaResultsInOrder`: replica i gets its own computation's data on
    its own device.
  * `TupleElementsInOrder`: each tuple gets its own elements, in order.
  * `CallReturns`: every execute call returns or throws.

### 3.4 Tensor allocator: `TensorAllocator`

* **Model.** `AllocateRaw` and `DeallocateRaw` are each one step, because
  both run under `lock_`. Blocks of one key are interchangeable, so they
  are counted per key. `TrimCache` is RECURSIVE and walks `alloc_list_`
  from its back.
* **Run `allocator`.**
  * `SizeAccounting`: `size_` equals the bytes made and not freed.
  * `TrimmedBeforeGrow` (action property): in every step where
    `AllocateRaw` misses and makes a new block of some key, `size_` with
    the new block is within `max_size_`, or no cached block of any key is
    left. So `TrimCache` must go on freeing blocks of every key, not stop
    after one.
  * `EvictsLeastRecentlyUsed` (action property): eviction never takes from
    a key while a less recently used key still has cached blocks.

### 3.5 Element conversion: `ConvertOps`

* **Model.** `ConvertToRaw` converts an integer value of type `from` to the
  device type that `MakeXlaPrimitiveType` gives, and then, if it differs,
  narrows it to `TensorTypeToRawXlaType` with `ConvertData`. Values are
  two's complement modulo 2^bits, and `&` is `Bitwise`'s.
* **Run `convert_raw` (violation).** `RawConversionTruncates` says a
  converted value equals the value converted to the raw type. That is the
  "Sign extend the truncation" of convert_ops.cpp. `CreateRawMask` shifts
  the mask, not the value. The arithmetic shift therefore turns the mask of
  a signed raw type into all ones. On TPU a Short 40 that came from U16
  stays 40 in the S32 device type, where the raw S16 value is -24 (widths
  scaled by 3 bits per byte). With a device type other than S32, the S32
  shift operand does not type-check, and the call fails.

## 4. Bounds

* **Handles.** Two threads, four handles, three devices on two workers, and
  two runners. That is enough for a batch that spans two sessions, for both
  kinds of pending list, and for the releaser to run while callers push.
* **Topology.** Every combination of the environment variables with at
  most two devices per kind and two workers. The TPU topology has two
  tasks of two devices and a mesh shape of 2 (4 on real TPUs). The size
  only scales `base_index`. `topology_coords_oob` uses one task instead.
  `XRT_WORKERS` is tried empty, with one local service and with two, and
  `XRT_LOCAL_WORKER` may name either of them. Together these reach a local
  target on task 1, and the check that fails when two hosts match.
  `topology_mp_two_jobs` uses an `XRT_TPU_CONFIG` of two jobs instead.
* **Transfers.** Up to four tensors or handles, with sizes on both sides of
  the (scaled) ceiling, so that a partition both closes exactly at the
  ceiling and overflows it.
* **Chained execution.** Every plan of up to three ops with two inputs
  each. This covers sharing, a forward reference and a self reference.
  `chained_oob` also lets an input name op `ops.size()`, one past the end.
* **Compile.** Two callers with up to two instances each, two computations,
  three devices in two resource domains, and a cache of two. That is enough
  for hits, misses in both callers, a repeated key within one call,
  eviction and RPC failure.
* **Allocator.** `sizeof(void*)` is 2, `max_size_` is 6, alignments are
  1 and 4, and sizes are 1, 3 and 8. This gives keys that evict each other
  and a key at or above the ceiling. Thread symmetry is sound because the
  threads are interchangeable.
* **Execute.** Three devices, two behind one worker and one behind another,
  with up to three replicas or tuples. A session can then hold two replicas
  that are not adjacent in device order. There are two computations, and
  tuples of up to two elements.
* **Conversion.** A byte has 3 bits, not 8, so that S64 fits TLC's 32-bit
  integers. The values tried are 0, ±1, ±5, ±40 and ±3000. They are in range
  or out of range for each width.
* **Tensor copy.** The code's constants are scaled down so that shapes of
  a few elements already take the sliced path with two partitions:
  `kMinThreadElements` 100000 -> 2, `kMinorDimScale` 8 -> 2, and TPU
  paddings 128/8 -> 4/2. `XLA_MAX_PADDING_FACTOR` keeps its 1.25.

## 5. Fairness

* **Fairness assumed.** Closures scheduled on the client's thread pools are
  always run, and a thread that pushed a handle goes on to `Activate`. So:
  * `HandleRelease`: weak fairness on `Activate`, `Wake` and the runner
    steps.
  * `Compile`: weak fairness on the builders, `BuildersDone` and the
    runner.
  * `Execute`: weak fairness on the whole next-state relation. Every step
    is the caller's next statement or a scheduled closure, and a call has
    finitely many of them.
  * In `MCDataPlane` both are stated on the steps of their call
    (`ExecStep`, `CompStep`), and `CallReturns` and `CompileReturns` are
    asked of the behaviours that run that call.
* **Not assumed.** There is no fairness on callers' own choices, such as
  creating or dropping data.
* **Deadlock checking.** It is off only where a behaviour really ends (a
  call returns, or the handles are used up). The allocator keeps it on,
  because an allocator can always take another call.

## 6. Not modelled, and observations without a run

* **Components left out.**
  * The session pool: `XrtSessionCache` is not in `src/`.
  * The mesh service and metrics: I/O only.
  * Type mapping: only the floating-point conversions. Values are integers.
  * Lowering ops: they build XLA graphs.
* **Still to do.**
  * The composition of `Compile` with `HandleRelease` for compile handles.
* **The local service's task index.** `MaybeCreateLocalService` passes the
  worker's `task_no` as the service's task index. The cluster spec,
  however, lists only the `grpc://` `localservice` hosts, by position.
  With task numbers that are not 0..n-1, or with a skipped non-`grpc://`
  worker, the index names another host or none. How `XrtLocalService`
  numbers the hosts is outside the repository, so no property is stated,
  and the `XRT_WORKERS` values tried use contiguous task numbers.
* **`Compile` deduplication.** `Compile` deduplicates only across calls
  that finish one after the other. Concurrent calls with the same key, or
  one key repeated within a call, compile it twice. The later `Add` wins.
  spec.md 4.5 says identical programs are deduplicated. Results are still
  correct (`ResultsMatchInstances`).
* **`CreateCopyPartitions` count.** It can make more partitions than
  `max_parts`. That contradicts its comment, which promises at most 50% of
  the cores. No property depends on the count.
* **Allocator bound.** `DeallocateRaw` caches any block under `max_size_`
  without trimming. Cached bytes can therefore exceed `max_size_` until the
  next allocation that misses.
* **Batching.** `HandleReleaser` groups a batch by session target, not by
  device; `HandleRelease` models the session groups, and no property
  depends on the grouping. The read-side ceiling closes a batch at `>=`
  where the write side closes at `>`; this is a hazard in `PROJECT.json`,
  and `BatchUnderCeiling` checks that a batch of several handles stays under the
  ceiling.
