------------------------- MODULE TransferFromServer -------------------------
(***************************************************************************)
(* TransferFromServerImpl of xrt_computation_client.cc.                    *)
(*                                                                         *)
(* The first loop walks the handles in order. A new SessionMap (a batch)  *)
(* is started when the running byte size would reach the payload ceiling. *)
(* Each handle is appended to the SessionWork of its session: the batch's *)
(* session for its device's worker target. A new SessionMap borrows new   *)
(* sessions, so a work item is keyed by (batch, target). The second loop  *)
(* issues one read RPC per work item, in the std::map's pointer order,    *)
(* and stores output j at results[index_mapping[j]].                       *)
(*                                                                         *)
(* Handle i (0-based) is items[i + 1]: its device and its byte size. The  *)
(* literal read back for handle i is named by i.                            *)
(***************************************************************************)
EXTENDS Integers, Sequences, FiniteSets, Functions

CONSTANTS
    MaxHandles,         \* the longest handle list tried
    SizeSet,            \* ByteSizeOfElements values tried
    Devices,
    TargetOf,           \* TargetOf[d]: the worker target of device d
    MaxPartitionSize,   \* GetMaxTensorsPartitionSize
    None

ASSUME MaxPartitionSize \in Nat /\ SizeSet \subseteq Nat

VARIABLES
    items,     \* the handles' devices and sizes
    batchOf,   \* batchOf[i + 1]: the SessionMap handle i was placed in
    pending,   \* the work items whose RPC has not run yet
    results,   \* results[i]: the literal stored for handle i, or None
    pc         \* "batch", "read" or "done"

vars == <<items, batchOf, pending, results, pc>>

N == Len(items)

Handles == 0..(N - 1)

Size(i) == items[i + 1].size

Target(i) == TargetOf[items[i + 1].dev]

Item == [dev : Devices, size : SizeSet]

-----------------------------------------------------------------------------
\* Mutant: a batch is closed only when it would exceed the ceiling.
RECURSIVE BatchLoopAboveCeiling(_, _, _, _)
BatchLoopAboveCeiling(i, current, nb, acc) ==
    IF i = N THEN acc
    ELSE IF current + Size(i) > MaxPartitionSize
         THEN BatchLoopAboveCeiling(i + 1, Size(i), nb + 1, Append(acc, nb + 1))
         ELSE BatchLoopAboveCeiling(i + 1, current + Size(i), nb, Append(acc, nb))

(* The first loop's batching: session_maps.emplace_back() when             *)
(* current_size + shape_size reaches max_partition_size. Batch 1 is the   *)
(* SessionMap created before the loop.                                      *)
RECURSIVE BatchLoop(_, _, _, _)
BatchLoop(i, current, nb, acc) ==
    IF i = N THEN acc
    ELSE IF current + Size(i) >= MaxPartitionSize
         THEN BatchLoop(i + 1, Size(i), nb + 1, Append(acc, nb + 1))
         ELSE BatchLoop(i + 1, current + Size(i), nb, Append(acc, nb))

\* index_mapping of the SessionWork keyed w.
IndexMapping(w) ==
    SelectSeq([j \in 1..N |-> j - 1],
              LAMBDA i : <<batchOf[i + 1], Target(i)>> = w)

TypeOK ==
    /\ items \in Seq(Item) /\ N <= MaxHandles
    /\ batchOf \in Seq(Nat)
    /\ pending \subseteq Nat \X Range(TargetOf)
    /\ results \in [Handles -> Handles \cup {None}]
    /\ pc \in {"batch", "read", "done"}

Init ==
    /\ items \in UNION {[1..n -> Item] : n \in 0..MaxHandles}
    /\ batchOf = <<>>
    /\ pending = {}
    /\ results = [i \in Handles |-> None]
    /\ pc = "batch"

-----------------------------------------------------------------------------
\* The first loop: batching and the per-session work.
BuildSessionWork ==
    /\ pc = "batch"
    /\ batchOf' = BatchLoop(0, 0, 1, <<>>)
    /\ pending' = {<<batchOf'[i + 1], Target(i)>> : i \in Handles}
    /\ pc' = "read"
    /\ UNCHANGED <<items, results>>

\* Mutant: output j is stored at results[j] of the work's own outputs,
\* ignoring index_mapping.
ReadResultsByPosition(w) ==
    [i \in Handles |->
        IF \E j \in DOMAIN IndexMapping(w) : j - 1 = i
        THEN IndexMapping(w)[i + 1] ELSE results[i]]

\* The literals of one work item: results[index_mapping[j]] = output j.
ReadResults(w) ==
    [i \in Handles |->
        IF \E j \in DOMAIN IndexMapping(w) : IndexMapping(w)[j] = i
        THEN i ELSE results[i]]

(* One iteration of the second loop: the read RPC of work item w.          *)
ReadRpc(w) ==
    /\ pc = "read"
    /\ w \in pending
    /\ results' = ReadResults(w)
    /\ pending' = pending \ {w}
    /\ UNCHANGED <<items, batchOf, pc>>

Return ==
    /\ pc = "read"
    /\ pending = {}
    /\ pc' = "done"
    /\ UNCHANGED <<items, batchOf, pending, results>>

Next ==
    \/ BuildSessionWork
    \/ \E w \in pending : ReadRpc(w)
    \/ Return

Spec == Init /\ [][Next]_vars

-----------------------------------------------------------------------------
(* Properties                                                              *)

BatchMembers(b) == {i \in Handles : batchOf[i + 1] = b}

BatchSize(b) == SumFunctionOnSet([i \in Handles |-> Size(i)], BatchMembers(b))

Batches == {batchOf[i + 1] : i \in Handles}

(* Every read RPC stays under the payload ceiling unless it reads one      *)
(* handle alone: a batch of several handles never reaches the ceiling.    *)
BatchUnderCeiling ==
    pc # "batch" =>
        \A b \in Batches :
            BatchSize(b) < MaxPartitionSize \/ Cardinality(BatchMembers(b)) = 1

(* Literals come back in the order of the handles, whatever order the      *)
(* per-(batch, session) RPCs run in.                                         *)
ResultsInOrder ==
    pc = "done" => \A i \in Handles : results[i] = i
=============================================================================
