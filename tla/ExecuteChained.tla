--------------------------- MODULE ExecuteChained ---------------------------
(***************************************************************************)
(* ExecuteChained of xrt_computation_client.cc: a DAG of chained ops run  *)
(* on one device, either as one XRT plan (ExecuteChainedXrt) or op by op   *)
(* (ExecuteChainedSplit, XRT_SPLIT_CHAINED_EXEC).                           *)
(*                                                                         *)
(* Op i (0-based) is plan[i + 1]: either device data, or a computation     *)
(* with inputs and result slots it writes. An input is an op index (output *)
(* index 0): an earlier op in a well-formed chain, any index up to         *)
(* ops.size() in a malformed one. An op's output is the handle <<i, 0>>.   *)
(* In split mode ops_outputs[i] holds the op's outputs until uses[i], the  *)
(* number of input references to op i, drops to zero.                      *)
(***************************************************************************)
EXTENDS Integers, Sequences, SequencesExt

CONSTANTS
    MaxOps,       \* the most ops in a chain
    MaxInputs,    \* the most inputs of one computation op
    MaxResult,    \* result_index values are 0..MaxResult
    Modes,        \* the XRT_SPLIT_CHAINED_EXEC settings tried
    PastEnd       \* 1 if an input may name op ops.size(), past the end; else 0

Op(n) == [data : {TRUE}, inputs : {<<>>}, outputs : BoundedSeq(0..MaxResult, 1)]
         \cup [data : {FALSE}, inputs : BoundedSeq(0..(n - 1 + PastEnd), MaxInputs),
               outputs : BoundedSeq(0..MaxResult, 1)]

Plans == UNION {[1..n -> Op(n)] : n \in 1..MaxOps}

VARIABLES
    plan,      \* the ops
    mode,      \* "xrt" or "split"
    pc,        \* "start", "run" (split mode), "done", "error" or "abort"
    next,      \* split mode: the index of the op the loop runs next
    outs,      \* ops_outputs
    uses,      \* uses
    results,   \* results: a handle or None per result index
    rpcs,      \* execute RPCs issued so far
    stray      \* increments the first split loop wrote past the end of uses

vars == <<plan, mode, pc, next, outs, uses, results, rpcs, stray>>

N == Len(plan)

OpIdx == 0..(N - 1)

Handle(i) == <<i, 0>>

None == <<-1, -1>>

\* How many of op c's inputs name op j.
InputCount(c, j) == Len(SelectSeq(plan[c + 1].inputs, LAMBDA x : x = j))

\* results.resize(result_index + 1) and the slot write, for op i's outputs.
WriteResults(res, i) ==
    LET rs == ToSet(plan[i + 1].outputs)
        len == IF rs = {} THEN Len(res)
               ELSE IF Len(res) > Max(rs) THEN Len(res) ELSE Max(rs) + 1
    IN [r \in 1..len |-> IF (r - 1) \in rs THEN Handle(i)
                         ELSE IF r <= Len(res) THEN res[r] ELSE None]

TypeOK ==
    /\ DOMAIN plan = 1..N /\ N \in 1..MaxOps
    /\ \A i \in 1..N : plan[i] \in Op(N)
    /\ mode \in Modes
    /\ pc \in {"start", "run", "done", "error", "abort"}
    /\ next \in 0..N
    /\ outs \in [OpIdx -> Seq(OpIdx \X {0})]
    /\ uses \in [OpIdx -> Nat]
    /\ results \in Seq((OpIdx \X {0}) \cup {None})
    /\ rpcs \in 0..MaxOps
    /\ stray \in 0..(MaxOps * MaxInputs)

Init ==
    /\ plan \in Plans
    /\ mode \in Modes
    /\ pc = "start"
    /\ next = 0
    /\ outs = [i \in OpIdx |-> <<>>]
    /\ uses = [i \in OpIdx |-> 0]
    /\ results = <<>>
    /\ rpcs = 0
    /\ stray = 0

-----------------------------------------------------------------------------
(* ExecuteChainedXrt: the plan is built op by op, XLA_CHECK_LT(op_index,   *)
(* i) on every input, then one RPC runs the whole plan. The server writes  *)
(* each op's outputs to their result slots in op order.                     *)
ExecuteChainedXrt ==
    /\ pc = "start"
    /\ mode = "xrt"
    /\ IF \A i \in OpIdx : \A x \in ToSet(plan[i + 1].inputs) : x < i
       THEN /\ rpcs' = 1
            /\ results' = FoldLeft(WriteResults, <<>>, [k \in 1..N |-> k - 1])
            /\ pc' = "done"
       ELSE /\ pc' = "error"
            /\ UNCHANGED <<rpcs, results>>
    /\ UNCHANGED <<plan, mode, next, outs, uses, stray>>

\* The inputs of all ops that name no op: op_index >= ops.size().
StrayInputs == SumFunctionOnSet([c \in OpIdx |->
                   Len(SelectSeq(plan[c + 1].inputs, LAMBDA x : x >= N))], OpIdx)

(* ExecuteChainedSplit's first loop: uses[input.op_index] += 1 for every   *)
(* input of every op, before any check. An index past the end writes      *)
(* outside the vector: undefined behaviour, which either goes unnoticed   *)
(* or aborts the process on the corrupted heap.                            *)
StartSplit ==
    /\ pc = "start"
    /\ mode = "split"
    /\ uses' = [j \in OpIdx |-> SumFunctionOnSet([c \in OpIdx |-> InputCount(c, j)], OpIdx)]
    /\ stray' = StrayInputs
    /\ pc' \in IF StrayInputs = 0 THEN {"run"} ELSE {"run", "abort"}
    /\ UNCHANGED <<plan, mode, next, outs, results, rpcs>>

\* Mutant: the check rejects the op right before i as well.
BadInputOffByOne(i) ==
    \E x \in ToSet(plan[i + 1].inputs) : x >= i - 1 \/ Len(outs[x]) = 0

\* Inputs of op i that fail XLA_CHECK_LT(op_index, i) or whose producer's
\* outputs have already been cleared.
BadInput(i) ==
    \E x \in ToSet(plan[i + 1].inputs) : x >= i \/ Len(outs[x]) = 0

\* uses after the drop loop of op i.
UsesAfter(i) == [j \in OpIdx |-> uses[j] - InputCount(i, j)]

\* Mutant: the drop loop is missing.
ClearedNone(i) == {j \in OpIdx : FALSE}

\* The producers whose outputs op i's drop loop clears.
Cleared(i) == {j \in OpIdx : InputCount(i, j) > 0 /\ UsesAfter(i)[j] = 0}

(* One iteration of the split loop for op i: device data is its own       *)
(* output; a computation checks its inputs, runs its RPC and takes its    *)
(* results. Then the result slots are written, the inputs whose last use  *)
(* this was are cleared, and the session is Reset.                         *)
SplitStep(i) ==
    /\ pc = "run"
    /\ next = i
    /\ IF ~plan[i + 1].data /\ BadInput(i)
       THEN /\ pc' = "error"
            /\ UNCHANGED <<next, outs, uses, results, rpcs>>
       ELSE /\ rpcs' = IF plan[i + 1].data THEN rpcs ELSE rpcs + 1
            /\ results' = WriteResults(results, i)
            /\ uses' = UsesAfter(i)
            /\ outs' = [j \in OpIdx |->
                          IF j = i THEN <<Handle(i)>>
                          ELSE IF j \in Cleared(i) THEN <<>> ELSE outs[j]]
            /\ next' = i + 1
            /\ pc' = IF i + 1 = N THEN "done" ELSE "run"
    /\ UNCHANGED <<plan, mode, stray>>

Next ==
    \/ ExecuteChainedXrt
    \/ StartSplit
    \/ \E i \in OpIdx : SplitStep(i)

Spec == Init /\ [][Next]_vars

-----------------------------------------------------------------------------
(* Properties                                                              *)

WellFormed == \A i \in OpIdx : \A x \in ToSet(plan[i + 1].inputs) : x < i

Consumers(j) == {c \in OpIdx : InputCount(c, j) > 0}

(* A well-formed chain (every input names an earlier op) runs to the end  *)
(* in either mode: split mode never drops an intermediate that a later op *)
(* still reads, which would fail the XLA_CHECK_LT on ops_outputs' size.   *)
ValidPlanSucceeds ==
    pc = "error" => ~WellFormed

(* In split mode the outputs of op j are held exactly until the last op   *)
(* that reads them has run: kept while a consumer is still to come,       *)
(* dropped once every consumer has run (spec.md 4.6).                      *)
IntermediatesHeldUntilLastUse ==
    (mode = "split" /\ pc \in {"run", "done"}) =>
        \A j \in 0..(next - 1) :
            /\ (\E c \in Consumers(j) : c >= next) => outs[j] # <<>>
            /\ (Consumers(j) # {} /\ \A c \in Consumers(j) : c < next)
                   => outs[j] = <<>>

(* spec.md 8: a chained DAG with a forward or self reference is rejected   *)
(* before any RPC is issued.                                                *)
RejectedBeforeAnyRpc ==
    pc = "error" => rpcs = 0

(* ExecuteChainedSplit's first loop writes only inside uses: a chain whose *)
(* inputs name an op past the end is rejected (as ExecuteChainedXrt does,  *)
(* and spec.md 8 asks) before anything is written.                          *)
UsesWrittenInBounds ==
    stray = 0
=============================================================================
