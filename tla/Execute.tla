------------------------------- MODULE Execute -------------------------------
(***************************************************************************)
(* ExecuteComputation, ExecuteReplicated, ExecuteParallel (through        *)
(* CreateExecuteOps and RunComputations) and DeconstructTuple of           *)
(* xrt_computation_client.cc: one call per behaviour.                       *)
(*                                                                         *)
(* Replica i (1-based here, i - 1 in the code) runs computation            *)
(* reps[i].comp on device reps[i].dev; reps[i].argOk says whether its      *)
(* arguments live on that device. RunComputations groups the replicas by  *)
(* the session of their device's worker target, runs one I/O closure per  *)
(* session under a MultiWait, and stores output j of a session at          *)
(* results[replicas[j]]. DeconstructTuple groups the tuples by session in *)
(* the same way, but runs the sessions one after another on the caller.   *)
(*                                                                         *)
(* The data GetComputationResults makes for replica i is named by what it *)
(* holds: the computation and the device. Element j of tuple li is         *)
(* <<li, j>>.                                                               *)
(***************************************************************************)
EXTENDS Integers, Sequences, FiniteSets, SequencesExt, Folds

CONSTANTS
    Devices,
    TargetOf,      \* TargetOf[d]: the worker target of device d
    Computations,
    MaxReplicas,   \* the most replicas (or computations) of one call
    MaxTuples,     \* the most tuples DeconstructTuple is given
    MaxElements,   \* the most elements of one tuple
    RpcMayFail,    \* whether an execute or read RPC may fail
    None

Kinds == {"computation", "replicated", "parallel", "deconstruct"}

Rep == [dev : Devices, comp : Computations, argOk : BOOLEAN]

Tup == [dev : Devices, count : 0..MaxElements]

VARIABLES
    kind,      \* the entry point called
    reps,      \* the replicas of an execute call
    tuples,    \* the tuples of a DeconstructTuple call
    pc,        \* "start", "run", "done" or "error"
    pending,   \* the sessions whose closure (or loop iteration) has not run
    mwait,     \* the MultiWait's count of closures still to complete
    failed,    \* an RPC of some session closure failed
    results    \* results[i] for replica or tuple i, or None

vars == <<kind, reps, tuples, pc, pending, mwait, failed, results>>

N == IF kind = "deconstruct" THEN Len(tuples) ELSE Len(reps)

\* GetWorkerForDevice(...).second: a SessionMap has one session per target.
Session(i) == TargetOf[reps[i].dev]

TupleSession(li) == TargetOf[tuples[li].dev]

Sessions == {Session(i) : i \in 1..Len(reps)}

\* GetComputationResults for replica i's output.
Exec(i) == [comp |-> reps[i].comp, dev |-> reps[i].dev]

Out == [comp : Computations, dev : Devices]

Elem == (1..MaxTuples) \X (0..MaxElements)

TypeOK ==
    /\ kind \in Kinds
    /\ reps \in Seq(Rep) /\ Len(reps) <= MaxReplicas
    /\ tuples \in Seq(Tup) /\ Len(tuples) <= MaxTuples
    /\ pc \in {"start", "run", "done", "error"}
    /\ pending \subseteq Range(TargetOf)
    /\ mwait \in 0..MaxReplicas
    /\ failed \in BOOLEAN
    /\ \A i \in 1..N : results[i] \in
           IF kind = "deconstruct" THEN Seq(Elem) \cup {None} ELSE Out \cup {None}
    /\ DOMAIN results = 1..N

Init ==
    /\ \/ kind = "computation" /\ reps \in [1..1 -> Rep] /\ tuples = <<>>
       \/ kind = "replicated" /\ tuples = <<>>
          /\ \E n \in 1..MaxReplicas, c \in Computations :
                reps \in [1..n -> {r \in Rep : r.comp = c}]
       \/ kind = "parallel" /\ tuples = <<>>
          /\ reps \in UNION {[1..n -> Rep] : n \in 1..MaxReplicas}
       \/ kind = "deconstruct" /\ reps = <<>>
          /\ tuples \in UNION {[1..n -> Tup] : n \in 1..MaxTuples}
    /\ pc = "start"
    /\ pending = {}
    /\ mwait = 0
    /\ failed = FALSE
    /\ results = [i \in 1..N |-> None]

-----------------------------------------------------------------------------
(* ExecuteComputation, ExecuteReplicated, ExecuteParallel                   *)

\* Mutant: the MultiWait counts replicas instead of sessions.
StartRunPerReplica ==
    /\ pc = "start"
    /\ kind # "deconstruct"
    /\ IF \A i \in 1..Len(reps) : reps[i].argOk
       THEN /\ pc' = "run"
            /\ pending' = IF kind = "computation" THEN {} ELSE Sessions
            /\ mwait' = IF kind = "computation" THEN 0 ELSE Len(reps)
       ELSE /\ pc' = "error"
            /\ UNCHANGED <<pending, mwait>>
    /\ UNCHANGED <<kind, reps, tuples, failed, results>>

(* CreateExecuteOps: GetArgumentsInputs checks with XLA_CHECK_EQ that each *)
(* argument is on its replica's device, before anything is run. Then       *)
(* RunComputations groups the replicas into session_replicas, sizes the   *)
(* MultiWait to the number of sessions and schedules one closure each.     *)
(* ExecuteComputation runs its single op inline instead.                   *)
StartRun ==
    /\ pc = "start"
    /\ kind # "deconstruct"
    /\ IF \A i \in 1..Len(reps) : reps[i].argOk
       THEN /\ pc' = "run"
            /\ pending' = IF kind = "computation" THEN {} ELSE Sessions
            /\ mwait' = IF kind = "computation" THEN 0 ELSE Cardinality(Sessions)
       ELSE /\ pc' = "error"
            /\ UNCHANGED <<pending, mwait>>
    /\ UNCHANGED <<kind, reps, tuples, failed, results>>

(* ExecuteComputation: one Run on the device's session; a failed status    *)
(* makes CheckComputationStatus throw.                                      *)
ExecuteComputation ==
    /\ pc = "run"
    /\ kind = "computation"
    /\ \/ /\ results' = [results EXCEPT ![1] = Exec(1)]
          /\ pc' = "done"
       \/ /\ RpcMayFail
          /\ pc' = "error"
          /\ UNCHANGED results
    /\ UNCHANGED <<kind, reps, tuples, pending, mwait, failed>>

\* session_replicas[session]: the replicas of session g, in device order.
Replicas(g) == SelectSeq([i \in 1..Len(reps) |-> i], LAMBDA i : Session(i) = g)

\* Mutant: output j is stored at results[j] instead of results[replicas[j]].
RunnerResultsByPosition(g) ==
    [i \in 1..N |-> IF i \in DOMAIN Replicas(g) THEN Exec(Replicas(g)[i]) ELSE results[i]]

\* results[replicas[j]] = GetComputationResults(outputs[j], ...).
RunnerResults(g) ==
    [i \in 1..N |-> IF i \in Range(Replicas(g)) THEN Exec(i) ELSE results[i]]

(* The closure of session g: one Run over the exec ops of its replicas,    *)
(* then the results through replicas. MultiWait's Completer counts it done *)
(* whether it returns or throws.                                            *)
SessionRunner(g) ==
    /\ pc = "run"
    /\ kind \in {"replicated", "parallel"}
    /\ g \in pending
    /\ \/ results' = RunnerResults(g) /\ UNCHANGED failed
       \/ RpcMayFail /\ failed' = TRUE /\ UNCHANGED results
    /\ pending' = pending \ {g}
    /\ mwait' = mwait - 1
    /\ UNCHANGED <<kind, reps, tuples, pc>>

\* mwait.Wait(): returns once every closure completed, rethrowing a failure.
WaitRunners ==
    /\ pc = "run"
    /\ kind \in {"replicated", "parallel"}
    /\ mwait = 0
    /\ pc' = IF failed THEN "error" ELSE "done"
    /\ UNCHANGED <<kind, reps, tuples, pending, mwait, failed, results>>

-----------------------------------------------------------------------------
(* DeconstructTuple                                                          *)

\* session_work.index_mapping: the tuples of session g, in input order.
IndexMapping(g) ==
    SelectSeq([li \in 1..Len(tuples) |-> li], LAMBDA li : TupleSession(li) = g)

\* The RPC's outputs: a sub-tuple node per element, in outputs_handles order.
TupleOutputs(g) ==
    FoldLeft(LAMBDA acc, li : acc \o [j \in 1..tuples[li].count |-> <<li, j - 1>>],
             <<>>, IndexMapping(g))

\* Mutant: output_index restarts at 0 for every tuple.
DeconstructResultsRestart(g) ==
    FoldLeft(LAMBDA acc, li :
                 <<[acc[1] EXCEPT ![li] = SubSeq(TupleOutputs(g), 1, tuples[li].count)],
                   acc[2] + tuples[li].count>>,
             <<results, 0>>, IndexMapping(g))[1]

\* The loop over index_mapping: tuple li takes the next count outputs.
DeconstructResults(g) ==
    FoldLeft(LAMBDA acc, li :
                 <<[acc[1] EXCEPT ![li] =
                       SubSeq(TupleOutputs(g), acc[2] + 1, acc[2] + tuples[li].count)],
                   acc[2] + tuples[li].count>>,
             <<results, 0>>, IndexMapping(g))[1]

\* The first loop: session_work_map keyed by the tuples' sessions.
StartDeconstruct ==
    /\ pc = "start"
    /\ kind = "deconstruct"
    /\ pending' = {TupleSession(li) : li \in 1..Len(tuples)}
    /\ pc' = "run"
    /\ UNCHANGED <<kind, reps, tuples, mwait, failed, results>>

(* One iteration of the second loop, in std::map order (by session        *)
(* pointer, so any order): the RPC of session g and its results. A failed *)
(* RPC makes XLA_CHECK_OK throw, and the later sessions are not run.       *)
DeconstructRpc(g) ==
    /\ pc = "run"
    /\ kind = "deconstruct"
    /\ g \in pending
    /\ \/ /\ results' = DeconstructResults(g)
          /\ pending' = pending \ {g}
          /\ pc' = IF pending' = {} THEN "done" ELSE "run"
       \/ /\ RpcMayFail
          /\ pc' = "error"
          /\ UNCHANGED <<pending, results>>
    /\ UNCHANGED <<kind, reps, tuples, mwait, failed>>

-----------------------------------------------------------------------------
Next ==
    \/ StartRun
    \/ ExecuteComputation
    \/ \E g \in pending : SessionRunner(g)
    \/ WaitRunners
    \/ StartDeconstruct
    \/ \E g \in pending : DeconstructRpc(g)

(* The caller runs each step it can take, and the I/O pool runs every     *)
(* scheduled closure. Every behaviour of a call is finite, so weak         *)
(* fairness of the whole next-state relation is the same as of each part. *)
Spec == Init /\ [][Next]_vars /\ WF_vars(Next)

-----------------------------------------------------------------------------
(* Properties                                                              *)

(* spec.md 4.5: results come back in the caller's device order whatever   *)
(* the grouping into sessions and the order the closures ran in: replica i *)
(* gets the data its own computation made on its own device.               *)
ReplicaResultsInOrder ==
    (pc = "done" /\ kind # "deconstruct") =>
        \A i \in 1..Len(reps) : results[i] = Exec(i)

(* DeconstructTuple returns, for every tuple, its own elements in order,   *)
(* although the outputs of all tuples of one session come back in one      *)
(* flat list.                                                                *)
TupleElementsInOrder ==
    (pc = "done" /\ kind = "deconstruct") =>
        \A li \in 1..Len(tuples) :
            results[li] = [j \in 1..tuples[li].count |-> <<li, j - 1>>]

(* Every execute call returns or throws: the MultiWait is released by the *)
(* session closures, failing ones included.                                 *)
CallReturns == <>(pc \in {"done", "error"})

=============================================================================
