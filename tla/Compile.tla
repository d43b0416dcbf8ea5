------------------------------- MODULE Compile -------------------------------
(***************************************************************************)
(* XrtComputationClient::Compile of xrt_computation_client.cc, called      *)
(* concurrently by several callers that share compilation_cache_.          *)
(*                                                                         *)
(* One builder closure per instance computes the CompilationCacheKey       *)
(* (resource domain of the device, serialized computation) and looks it up *)
(* in the cache: a hit is the result, a miss is appended under the call's  *)
(* lock to the SessionWork of the device's session. After mwait.Wait(),    *)
(* one runner per session issues the compile RPC, builds an XrtComputation *)
(* per output through index_mapping and adds it to the cache. A failed RPC *)
(* makes CheckCompileStatus throw, and the call fails.                     *)
(*                                                                         *)
(* All instances of one call target one device, so a call has at most one *)
(* session. A compiled program is a record of its key and a server handle. *)
(***************************************************************************)
EXTENDS Integers, Sequences, SequencesExt, FiniteSets

CONSTANTS
    Callers,       \* threads calling Compile
    Computations,  \* serialized computations, as model values
    Devices,
    DomainOf,      \* GetResourceDomain: the worker host:port of a device
    MaxInstances,  \* the most instances of one call
    CacheSize,     \* XLA_COMPILATION_CACHE_SIZE
    RpcMayFail,    \* whether a compile RPC may fail
    None

VARIABLES
    inst,    \* inst[c]: the computations of caller c's instances
    dev,     \* dev[c]: the device of caller c's call
    pc,      \* pc[c]: "build", "run", "done" or "error"
    built,   \* built[c]: the instances whose builder has run
    work,    \* work[c]: the SessionWork's index_mapping
    res,     \* res[c][i]: results[i], or None
    cache,   \* compilation_cache_: <<key, program>> pairs, most recent first
    handles  \* the compile handles the server has returned so far

vars == <<inst, dev, pc, built, work, res, cache, handles>>

Idx(c) == 1..Len(inst[c])

\* The CompilationCacheKey of caller c's instance i.
Key(c, i) == <<DomainOf[dev[c]], inst[c][i]>>

Keys == {<<d, x>> : d \in Range(DomainOf), x \in Computations}

Program == [key : Keys, handle : Nat]

-----------------------------------------------------------------------------
(* compilation_cache_ (util::Cache): a bounded LRU map.                     *)

Lookup(k) == {e \in Range(cache) : e[1] = k}

\* Cache::Get: the entry's program, which becomes the most recent.
CacheGet(k) == << CHOOSE e \in Lookup(k) : TRUE >> \o SelectSeq(cache, LAMBDA e : e[1] # k)

\* Cache::Add: the new entry goes to the front, replacing one of the same
\* key; the least recent entry is dropped beyond the capacity.
CacheAdd(c0, k, p) ==
    LET l == << <<k, p>> >> \o SelectSeq(c0, LAMBDA e : e[1] # k)
    IN IF Len(l) > CacheSize THEN SubSeq(l, 1, CacheSize) ELSE l

-----------------------------------------------------------------------------
TypeOK ==
    /\ \A c \in Callers : inst[c] \in Seq(Computations) /\ Len(inst[c]) <= MaxInstances
    /\ dev \in [Callers -> Devices]
    /\ pc \in [Callers -> {"build", "run", "done", "error"}]
    /\ \A c \in Callers : built[c] \subseteq Idx(c)
    /\ \A c \in Callers : work[c] \in Seq(Idx(c))
    /\ \A c \in Callers : res[c] \in [Idx(c) -> Program \cup {None}]
    /\ cache \in Seq(Keys \X Program) /\ Len(cache) <= CacheSize
    /\ handles \in Nat

Init ==
    /\ inst \in [Callers -> UNION {[1..n -> Computations] : n \in 1..MaxInstances}]
    /\ dev \in [Callers -> Devices]
    /\ pc = [c \in Callers |-> "build"]
    /\ built = [c \in Callers |-> {}]
    /\ work = [c \in Callers |-> <<>>]
    /\ res = [c \in Callers |-> [i \in Idx(c) |-> None]]
    /\ cache = <<>>
    /\ handles = 0

-----------------------------------------------------------------------------
(* Builder i of caller c: a cache hit is the result; a miss is added to    *)
(* the session's work under the call's lock.                               *)
Builder(c, i) ==
    /\ pc[c] = "build"
    /\ i \notin built[c]
    /\ built' = [built EXCEPT ![c] = @ \cup {i}]
    /\ IF Lookup(Key(c, i)) # {}
       THEN /\ res' = [res EXCEPT ![c][i] = (CHOOSE e \in Lookup(Key(c, i)) : TRUE)[2]]
            /\ cache' = CacheGet(Key(c, i))
            /\ UNCHANGED work
       ELSE /\ work' = [work EXCEPT ![c] = Append(@, i)]
            /\ UNCHANGED <<res, cache>>
    /\ UNCHANGED <<inst, dev, pc, handles>>

\* Mutant: mwait is reset to one runner even when every instance hit.
BuildersDoneAlwaysRun(c) ==
    /\ pc[c] = "build"
    /\ built[c] = Idx(c)
    /\ pc' = [pc EXCEPT ![c] = "run"]
    /\ UNCHANGED <<inst, dev, built, work, res, cache, handles>>

(* mwait.Wait() for the builders, then mwait.Reset(session_work_map.size()):*)
(* with no miss there is no runner and the call returns.                   *)
BuildersDone(c) ==
    /\ pc[c] = "build"
    /\ built[c] = Idx(c)
    /\ pc' = [pc EXCEPT ![c] = IF work[c] = <<>> THEN "done" ELSE "run"]
    /\ UNCHANGED <<inst, dev, built, work, res, cache, handles>>

\* The program the RPC returns for output j of caller c's session work.
Compiled(c, j) == [key |-> Key(c, work[c][j]), handle |-> handles + j]

\* Mutant: output j is stored at results[j] instead of results[index_mapping[j]].
RunnerResultsByPosition(c) ==
    [i \in Idx(c) |-> IF i \in DOMAIN work[c] THEN Compiled(c, i) ELSE res[c][i]]

\* results[li] for li = index_mapping[j].
RunnerResults(c) ==
    [i \in Idx(c) |->
        IF \E j \in DOMAIN work[c] : work[c][j] = i
        THEN Compiled(c, CHOOSE j \in DOMAIN work[c] : work[c][j] = i)
        ELSE res[c][i]]

\* Mutant: the cache entry takes cache_keys[output_index] for its key.
RunnerCacheByPosition(c) ==
    FoldLeft(LAMBDA cc, j : CacheAdd(cc, Key(c, j), Compiled(c, j)),
             cache, [j \in DOMAIN work[c] |-> j])

\* compilation_cache_.Add(cache_keys[li], results[li]) in output order.
RunnerCache(c) ==
    FoldLeft(LAMBDA cc, j : CacheAdd(cc, Key(c, work[c][j]), Compiled(c, j)),
             cache, [j \in DOMAIN work[c] |-> j])

(* The runner of the session_work_map entry, which exists once a miss    *)
(* was added: the compile RPC for every miss, then the results and the    *)
(* cache entries, one per output.                                          *)
Runner(c) ==
    /\ pc[c] = "run"
    /\ work[c] # <<>>
    /\ res' = [res EXCEPT ![c] = RunnerResults(c)]
    /\ cache' = RunnerCache(c)
    /\ handles' = handles + Len(work[c])
    /\ pc' = [pc EXCEPT ![c] = "done"]
    /\ UNCHANGED <<inst, dev, built, work>>

(* The compile RPC fails: CheckCompileStatus reports every computation of *)
(* the session work and throws, so Compile fails with nothing cached.      *)
RunnerFails(c) ==
    /\ RpcMayFail
    /\ pc[c] = "run"
    /\ work[c] # <<>>
    /\ pc' = [pc EXCEPT ![c] = "error"]
    /\ UNCHANGED <<inst, dev, built, work, res, cache, handles>>

Next ==
    \E c \in Callers :
        \/ \E i \in Idx(c) : Builder(c, i)
        \/ BuildersDone(c)
        \/ Runner(c)
        \/ RunnerFails(c)

\* The builders and runners are closures on the thread pools, which run
\* every scheduled closure.
Fairness ==
    \A c \in Callers :
        /\ \A i \in 1..MaxInstances : WF_vars(i \in Idx(c) /\ Builder(c, i))
        /\ WF_vars(BuildersDone(c))
        /\ WF_vars(Runner(c) \/ RunnerFails(c))

Spec == Init /\ [][Next]_vars /\ Fairness

-----------------------------------------------------------------------------
(* Properties                                                              *)

(* When Compile returns, results[i] is a program compiled from instance    *)
(* i's own key, whether it came from the cache or from the RPC, however    *)
(* the builders interleaved and whatever the other callers compiled.       *)
ResultsMatchInstances ==
    \A c \in Callers :
        pc[c] = "done" => \A i \in Idx(c) : res[c][i] # None /\ res[c][i].key = Key(c, i)

(* Every cached program was compiled from the key it is cached under, so  *)
(* a later hit on that key gets the right program.                         *)
CacheEntriesMatchKeys ==
    \A e \in Range(cache) : e[2].key = e[1]

(* Every Compile call returns, with all hits and no runner included.       *)
CompileReturns ==
    \A c \in Callers : <>(pc[c] \in {"done", "error"})
====
