----------------------------- MODULE MCDataPlane -----------------------------
(***************************************************************************)
(* The data plane of XrtComputationClient: one call at a time of the host *)
(* tensor copy (TensorToBuffer, XlaLiteralToTensor), TransferToServer,     *)
(* TransferFromServer, Compile, ExecuteChained or one of the execute entry *)
(* points (ExecuteComputation, ExecuteReplicated, ExecuteParallel,         *)
(* DeconstructTuple). The calls share no state but the client's constants *)
(* (the payload ceiling, the device-to-worker map, which is also           *)
(* GetResourceDomain, the computations), so call says which one a         *)
(* behaviour runs, and the others rest in one of their initial states:    *)
(* the state space is the sum of the six calls.                            *)
(*                                                                         *)
(* Transfers: up to four tensors with sizes 1, 2 and 4 under a ceiling of *)
(* 3 (two tensors can fill a partition exactly, and a size-4 tensor       *)
(* exceeds it alone, first or later in the list); up to three handles to  *)
(* read back, on two devices of different workers.                        *)
(*                                                                         *)
(* Chains: every chain of up to three ops, computations with up to two    *)
(* inputs (one op can read one producer twice, and a producer can have    *)
(* two consumers), result slots 0 and 1, in both modes.                   *)
(*                                                                         *)
(* Host copy: five shapes and four XLA_LAYOUTS values (below), with the    *)
(* code's thresholds scaled so that small shapes take the sliced path.    *)
(*                                                                         *)
(* Compile: two callers of up to two instances over the two computations, *)
(* on the three devices below (two resource domains), a cache of two.     *)
(*                                                                         *)
(* Execute: three devices, dA and dB behind worker w1 (one shared         *)
(* session), dC behind w2. With three replicas a session serves two       *)
(* replicas that are not adjacent in device order (dA, dC, dB), where     *)
(* output j of a session and result j of the call differ. Two             *)
(* computations tell ExecuteParallel's replicas apart; tuples of up to    *)
(* two elements make output_index run past a session's first tuple.       *)
(***************************************************************************)
EXTENDS Naturals, TLC

CONSTANTS
    MaxTensors, MaxHandles, SizeSet, MaxPartitionSize,
    MaxOps, MaxInputs, MaxResult, Modes, PastEnd,
    Computations, MaxReplicas, MaxTuples, MaxElements, RpcMayFail,
    Callers, MaxInstances, CacheSize,
    HwKinds, MaxParts, MinThreadElements, MinorDimScale, PadMinor, PadSecondMinor,
    None, dA, dB, dC, w1, w2

VARIABLES
    call,                                                   \* the call running
    dims, hwKind, dir, env, layouts, tcPc, layout, parts, idx, fin, dest, writes,
                                                            \* the host tensor copy
    sizes, partitions, work, sent, toResults, toPc,         \* TransferToServer
    items, batchOf, pending, fromResults, fromPc,           \* TransferFromServerImpl
    plan, mode, chPc, next, outs, uses, chResults, rpcs, stray, \* ExecuteChained
    kind, reps, tuples, exPc, exPending, mwait, failed, exResults, \* execute calls
    inst, dev, cpPc, built, cpWork, res, cache, handles     \* Compile

tcVars == <<dims, hwKind, dir, env, layouts, tcPc, layout, parts, idx, fin, dest, writes>>
toVars == <<sizes, partitions, work, sent, toResults, toPc>>
fromVars == <<items, batchOf, pending, fromResults, fromPc>>
chVars == <<plan, mode, chPc, next, outs, uses, chResults, rpcs, stray>>
exVars == <<kind, reps, tuples, exPc, exPending, mwait, failed, exResults>>
cpVars == <<inst, dev, cpPc, built, cpWork, res, cache, handles>>
vars == <<call, tcVars, toVars, fromVars, chVars, exVars, cpVars>>

Calls == {"copy", "to", "from", "chained", "execute", "compile"}

TransferDevices == {dA, dB}

TransferTargetOf == (dA :> w1) @@ (dB :> w2)

ExecuteDevices == {dA, dB, dC}

ExecuteTargetOf == (dA :> w1) @@ (dB :> w1) @@ (dC :> w2)

\* Shapes: a TPU shape that pads too much (sorted layout, 3 partitions of a
\* 5-row dimension), a rank-3 shape whose sorted layout has ties, and a
\* shape whose most minor dimension is too small to stride along.
CopyDims == {<<5, 3>>, <<2, 2, 2>>, <<3, 2>>, <<5, 1>>, <<3, 0>>}

CopyLayoutEnvs ==
    {<<>>,
     <<[dims |-> <<3, 2>>, layout |-> <<0, 1>>]>>,
     <<[dims |-> <<2, 2, 2>>, layout |-> <<2, 0, 1>>],
       [dims |-> <<2, 2, 2>>, layout |-> <<0, 1, 2>>]>>,
     <<[dims |-> <<3, 2>>, layout |-> <<1, 1>>]>>}

\* XLA_MAX_PADDING_FACTOR's default 1.25.
CopyPaddingFactor == <<5, 4>>

TC == INSTANCE TensorCopy
          WITH kind <- hwKind, pc <- tcPc, Kinds <- HwKinds, DimsSet <- CopyDims,
               LayoutEnvs <- CopyLayoutEnvs, MaxPaddingFactor <- CopyPaddingFactor

To == INSTANCE TransferToServer WITH results <- toResults, pc <- toPc

From == INSTANCE TransferFromServer
            WITH results <- fromResults, pc <- fromPc,
                 Devices <- TransferDevices, TargetOf <- TransferTargetOf

Chain == INSTANCE ExecuteChained WITH pc <- chPc, results <- chResults

Exec == INSTANCE Execute
            WITH pc <- exPc, pending <- exPending, results <- exResults,
                 Devices <- ExecuteDevices, TargetOf <- ExecuteTargetOf

Comp == INSTANCE Compile
            WITH pc <- cpPc, work <- cpWork,
                 Devices <- ExecuteDevices, DomainOf <- ExecuteTargetOf

\* The calls that do not run rest in one of their initial states: empty
\* lists, a chain of one device-data op, one ExecuteComputation, one
\* instance per Compile caller, a copy under the default layouts.
CopyIdle ==
    /\ dims = TC!Vec(<<3, 2>>) /\ hwKind = CHOOSE k \in HwKinds : TRUE
    /\ dir = "to_device" /\ env = <<>> /\ TC!Init

ToIdle == sizes = <<>> /\ To!Init

FromIdle == items = <<>> /\ From!Init

ChainIdle ==
    /\ plan = <<[data |-> TRUE, inputs |-> <<>>, outputs |-> <<>>]>>
    /\ mode = CHOOSE m \in Modes : TRUE
    /\ chPc = "start" /\ next = 0 /\ rpcs = 0 /\ stray = 0
    /\ outs = [i \in {0} |-> <<>>] /\ uses = [i \in {0} |-> 0] /\ chResults = <<>>

ExecIdle == kind = "computation" /\ reps = <<CHOOSE r \in Exec!Rep : TRUE>> /\ Exec!Init

CompIdle ==
    /\ inst = [c \in Callers |-> <<CHOOSE x \in Computations : TRUE>>]
    /\ dev = [c \in Callers |-> dA]
    /\ Comp!Init

Init ==
    \/ call = "copy" /\ TC!Init /\ ToIdle /\ FromIdle /\ ChainIdle /\ ExecIdle /\ CompIdle
    \/ call = "to" /\ To!Init /\ CopyIdle /\ FromIdle /\ ChainIdle /\ ExecIdle /\ CompIdle
    \/ call = "from" /\ From!Init /\ CopyIdle /\ ToIdle /\ ChainIdle /\ ExecIdle /\ CompIdle
    \/ call = "chained" /\ Chain!Init /\ CopyIdle /\ ToIdle /\ FromIdle /\ ExecIdle /\ CompIdle
    \/ call = "execute" /\ Exec!Init /\ CopyIdle /\ ToIdle /\ FromIdle /\ ChainIdle /\ CompIdle
    \/ call = "compile" /\ Comp!Init /\ CopyIdle /\ ToIdle /\ FromIdle /\ ChainIdle /\ ExecIdle

\* A step of each call, the other calls unchanged.
CopyStep(A) == call = "copy" /\ A /\ UNCHANGED <<call, toVars, fromVars, chVars, exVars, cpVars>>

ToStep == call = "to" /\ To!Next /\ UNCHANGED <<call, tcVars, fromVars, chVars, exVars, cpVars>>

FromStep == call = "from" /\ From!Next /\ UNCHANGED <<call, tcVars, toVars, chVars, exVars, cpVars>>

ChainStep == call = "chained" /\ Chain!Next /\ UNCHANGED <<call, tcVars, toVars, fromVars, exVars, cpVars>>

ExecStep == call = "execute" /\ Exec!Next /\ UNCHANGED <<call, tcVars, toVars, fromVars, chVars, cpVars>>

CompStep(A) == call = "compile" /\ A /\ UNCHANGED <<call, tcVars, toVars, fromVars, chVars, exVars>>

Next == CopyStep(TC!Next) \/ ToStep \/ FromStep \/ ChainStep \/ ExecStep \/ CompStep(Comp!Next)

(* The fairness of Execute.tla and Compile.tla, on the steps of their     *)
(* calls: the execute caller and I/O pool, and the compile builders and   *)
(* runners, keep running. The other calls are checked for safety only.     *)
Fairness ==
    /\ WF_vars(ExecStep)
    /\ \A c \in Callers :
          /\ \A i \in 1..MaxInstances :
                WF_vars(CompStep(i \in Comp!Idx(c) /\ Comp!Builder(c, i)))
          /\ WF_vars(CompStep(Comp!BuildersDone(c)))
          /\ WF_vars(CompStep(Comp!Runner(c) \/ Comp!RunnerFails(c)))

Spec == Init /\ [][Next]_vars /\ Fairness

-----------------------------------------------------------------------------
TypeOK ==
    /\ call \in Calls
    /\ TC!TypeOK /\ To!TypeOK /\ From!TypeOK /\ Chain!TypeOK /\ Exec!TypeOK /\ Comp!TypeOK

(* The host copy puts every source element where the destination layout  *)
(* gives its logical index, whatever the layouts, the partitioning and    *)
(* the interleaving of the SlicedCopy closures.                            *)
CopyPreservesElements == TC!CopyPreservesElements

(* The SlicedCopy closures write the destination without a lock: no       *)
(* destination element is ever stored twice.                               *)
NoOverlappingWrites == TC!NoOverlappingWrites

(* TransferToServer's partitions follow spec.md 4.4's greedy rule: start   *)
(* at 0, none empty, each under the ceiling unless one tensor alone, each  *)
(* closed only when the next tensor would exceed the ceiling.              *)
PartitionIsGreedy == To!PartitionIsGreedy

(* TransferToServer returns results[i] = the handle of tensor i, however   *)
(* the converters of all partitions interleave on the call's lock.          *)
ToServerResultsInOrder == To!ResultsInOrder

(* A read RPC of TransferFromServerImpl carries several handles only if    *)
(* they stay under the ceiling.                                             *)
BatchUnderCeiling == From!BatchUnderCeiling

(* TransferFromServerImpl returns literals in handle order, whatever order *)
(* the per-(batch, session) RPCs run in.                                    *)
FromServerResultsInOrder == From!ResultsInOrder

(* ExecuteChained runs a well-formed chain to the end in either mode:      *)
(* split mode never drops an intermediate a later op still reads.          *)
ValidPlanSucceeds == Chain!ValidPlanSucceeds

(* ExecuteChainedSplit holds an op's outputs exactly until its last        *)
(* consumer has run (spec.md 4.6).                                          *)
IntermediatesHeldUntilLastUse == Chain!IntermediatesHeldUntilLastUse

(* RunComputations returns each replica the data of its own computation on *)
(* its own device, whatever the session grouping and closure order.        *)
ReplicaResultsInOrder == Exec!ReplicaResultsInOrder

(* DeconstructTuple returns every tuple its own elements in order.         *)
TupleElementsInOrder == Exec!TupleElementsInOrder

(* Every execute call returns or throws: the MultiWait is released by the *)
(* session closures, failing ones included.                                 *)
CallReturns == call = "execute" => Exec!CallReturns

(* When Compile returns, results[i] is a program compiled from instance    *)
(* i's own key, from the cache or the RPC, whatever the other caller did.  *)
ResultsMatchInstances == Comp!ResultsMatchInstances

(* Every program in compilation_cache_ was compiled from its key.          *)
CacheEntriesMatchKeys == Comp!CacheEntriesMatchKeys

(* Every Compile call returns, with all hits and no runner included.       *)
CompileReturns == call = "compile" => Comp!CompileReturns
=============================================================================
