-------------------------- MODULE TransferToServer --------------------------
(***************************************************************************)
(* XrtDevice::TransferToServer and TransferToServerInternal of             *)
(* xrt_computation_client.cc.                                               *)
(*                                                                         *)
(* PartitionTransferToServer splits the tensors into partitions under the  *)
(* payload ceiling. Each partition runs as a sender closure on the I/O     *)
(* pool (or directly, on the fast path of a single partition). Inside a    *)
(* partition every tensor has a converter closure. A converter fills its  *)
(* staging tensor and then, under the call's lock, appends it to the       *)
(* session's work: the allocate node's output and its local index in       *)
(* index_mapping. Once every converter is done, the session runner issues *)
(* one RPC, and the handle of output j goes to results[index_mapping[j]]. *)
(* The sender copies the partition's results to base_index + r.           *)
(*                                                                         *)
(* Tensor i (0-based, as in the code) has size sizes[i + 1]. All tensors   *)
(* go to one device, so each partition has one session and one RPC. The    *)
(* server's handle for a fed tensor is named by that tensor's index.      *)
(***************************************************************************)
EXTENDS Integers, Sequences, Functions

CONSTANTS
    MaxTensors,          \* the longest tensor list tried
    SizeSet,             \* ByteSizeOfElements values tried
    MaxPartitionSize,    \* GetMaxTensorsPartitionSize (XRT_MAX_TENSORS_PARTITION)
    None

ASSUME MaxPartitionSize \in Nat /\ SizeSet \subseteq Nat

VARIABLES
    sizes,       \* the tensors' byte sizes
    partitions,  \* the partition start indices, <<>> before partitioning
    work,        \* work[k]: index_mapping of partition k's session work
    sent,        \* sent[k]: partition k's RPC and copy-back are done
    results,     \* results[i]: the handle stored for tensor i, or None
    pc           \* "partition", "transfer" or "done"

vars == <<sizes, partitions, work, sent, results, pc>>

N == Len(sizes)

Tensors == 0..(N - 1)

Size(i) == sizes[i + 1]

-----------------------------------------------------------------------------
\* Mutant: a new partition is pushed as starting one past the tensor that
\* overflowed.
RECURSIVE PartitionLoopOffByOne(_, _, _)
PartitionLoopOffByOne(i, current, parts) ==
    IF i = N THEN (IF parts = <<>> THEN <<0>> ELSE parts)
    ELSE IF current + Size(i) > MaxPartitionSize
         THEN PartitionLoopOffByOne(i + 1, Size(i),
                  (IF parts = <<>> /\ i > 0 THEN <<0>> ELSE parts) \o <<i + 1>>)
         ELSE PartitionLoopOffByOne(i + 1, current + Size(i), parts)

\* Mutant: a partition is closed when it would reach the ceiling, as in
\* TransferFromServerImpl.
RECURSIVE PartitionLoopAtCeiling(_, _, _)
PartitionLoopAtCeiling(i, current, parts) ==
    IF i = N THEN (IF parts = <<>> THEN <<0>> ELSE parts)
    ELSE IF current + Size(i) >= MaxPartitionSize
         THEN PartitionLoopAtCeiling(i + 1, Size(i),
                  (IF parts = <<>> /\ i > 0 THEN <<0>> ELSE parts) \o <<i>>)
         ELSE PartitionLoopAtCeiling(i + 1, current + Size(i), parts)

(* PartitionTransferToServer: the loop over the tensors, with              *)
(* current_size and the partitions vector as accumulators. Index 0 is only *)
(* pushed once a second partition starts.                                   *)
RECURSIVE PartitionLoop(_, _, _)
PartitionLoop(i, current, parts) ==
    IF i = N THEN (IF parts = <<>> THEN <<0>> ELSE parts)
    ELSE IF current + Size(i) > MaxPartitionSize
         THEN PartitionLoop(i + 1, Size(i),
                  (IF parts = <<>> /\ i > 0 THEN <<0>> ELSE parts) \o <<i>>)
         ELSE PartitionLoop(i + 1, current + Size(i), parts)

PartitionTransferToServer == PartitionLoop(0, 0, <<>>)

\* The sender's base_index and length of partition k.
Base(k) == partitions[k]

Length(k) == IF k < Len(partitions) THEN partitions[k + 1] - Base(k) ELSE N - Base(k)

Parts == DOMAIN partitions

TypeOK ==
    /\ sizes \in Seq(SizeSet) /\ N <= MaxTensors
    /\ partitions \in Seq(Tensors \cup {0})
    /\ work \in [Parts -> Seq(Nat)]
    /\ sent \in [Parts -> BOOLEAN]
    /\ results \in [Tensors -> Tensors \cup {None}]
    /\ pc \in {"partition", "transfer", "done"}

Init ==
    /\ sizes \in UNION {[1..n -> SizeSet] : n \in 0..MaxTensors}
    /\ partitions = <<>>
    /\ work = <<>>
    /\ sent = <<>>
    /\ results = [i \in Tensors |-> None]
    /\ pc = "partition"

-----------------------------------------------------------------------------
(* XrtDevice::TransferToServer: partition, then start one sender per       *)
(* partition (or take the fast path for a single one).                     *)
Partition ==
    /\ pc = "partition"
    /\ partitions' = PartitionTransferToServer
    /\ work' = [k \in DOMAIN partitions' |-> <<>>]
    /\ sent' = [k \in DOMAIN partitions' |-> FALSE]
    /\ pc' = "transfer"
    /\ UNCHANGED <<sizes, results>>

(* A converter of partition k finishes the staging copy of its local       *)
(* tensor i and appends it to the session work under the lock.             *)
Convert(k, i) ==
    /\ pc = "transfer"
    /\ ~sent[k]
    /\ i \in 0..(Length(k) - 1)
    /\ i \notin Range(work[k])
    /\ work' = [work EXCEPT ![k] = Append(@, i)]
    /\ UNCHANGED <<sizes, partitions, sent, results, pc>>

\* Mutant: output j is stored at local index j, ignoring index_mapping.
PartitionResultsByPosition(k) ==
    [r \in 0..(Length(k) - 1) |-> Base(k) + work[k][r + 1]]

\* The partition's results: output j is the handle of local tensor
\* index_mapping[j].
PartitionResults(k) ==
    [r \in 0..(Length(k) - 1) |->
        LET j == CHOOSE j \in DOMAIN work[k] : work[k][j] = r
        IN Base(k) + work[k][j]]

(* After mwait.Wait() for the converters, the runner issues the RPC and    *)
(* fills the partition's results through index_mapping; the sender then    *)
(* copies them to results[base_index + r].                                  *)
SendPartition(k) ==
    /\ pc = "transfer"
    /\ ~sent[k]
    /\ Len(work[k]) = Length(k)
    /\ results' = [i \in Tensors |->
                     IF i \in Base(k)..(Base(k) + Length(k) - 1)
                     THEN PartitionResults(k)[i - Base(k)]
                     ELSE results[i]]
    /\ sent' = [sent EXCEPT ![k] = TRUE]
    /\ UNCHANGED <<sizes, partitions, work, pc>>

\* mwait.Wait() over the senders, then return results.
Return ==
    /\ pc = "transfer"
    /\ \A k \in Parts : sent[k]
    /\ pc' = "done"
    /\ UNCHANGED <<sizes, partitions, work, sent, results>>

Next ==
    \/ Partition
    \/ \E k \in Parts : SendPartition(k) \/ \E i \in Tensors : Convert(k, i)
    \/ Return

Spec == Init /\ [][Next]_vars

-----------------------------------------------------------------------------
(* Properties                                                              *)

Segment(k) == Base(k)..(Base(k) + Length(k) - 1)

SegmentSize(k) == SumFunctionOnSet([i \in Tensors |-> Size(i)], Segment(k))

(* spec.md 4.4's partitioning rule, as a reference definition: the         *)
(* partitions start at 0, none is empty, each stays under the ceiling      *)
(* unless it is one tensor alone, and each is closed only when the next    *)
(* tensor would exceed the ceiling. This pins PartitionTransferToServer's  *)
(* lazily pushed 0 and its strict comparison.                               *)
PartitionIsGreedy ==
    pc # "partition" =>
        /\ partitions[1] = 0
        /\ N > 0 => \A k \in Parts : Length(k) >= 1
        /\ \A k \in Parts : SegmentSize(k) <= MaxPartitionSize \/ Length(k) = 1
        /\ \A k \in Parts : k < Len(partitions) =>
              SegmentSize(k) + Size(Base(k + 1)) > MaxPartitionSize

(* Output order equals input order (spec.md 4.4): however the converters   *)
(* of all partitions interleave on the lock, when TransferToServer returns *)
(* results[i] holds the handle made from tensor i.                          *)
ResultsInOrder ==
    pc = "done" => \A i \in Tensors : results[i] = i
=============================================================================
