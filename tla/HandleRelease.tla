--------------------------- MODULE HandleRelease ---------------------------
(***************************************************************************)
(* The handle registry and the asynchronous releaser of                    *)
(* xrt_computation_client.cc.                                               *)
(*                                                                         *)
(* A data object (XrtData, or a ComputationPtr for a compiled program)     *)
(* holds a shared XrtHandle. Destroying the last XrtHandle calls           *)
(* ReleaseXrtData or ReleaseXrtComputation on the thread that dropped it.  *)
(* That call pushes the handle on a pending list under lock_ and then      *)
(* activates the releaser TriggeredTask. Each of the task's runner threads *)
(* runs HandleReleaser. It swaps the data list out under the lock, groups  *)
(* the handles by session and issues one release RPC per session. It then  *)
(* does the same for the compile list.                                     *)
(*                                                                         *)
(* A slot stands for one data object. Its value is the handle it holds, or *)
(* None for a placeholder or a destroyed object. A handle's reference      *)
(* count is the number of slots that hold it. Server handles are never     *)
(* reused, so each handle is allocated at most once.                        *)
(***************************************************************************)
EXTENDS Naturals, Sequences, FiniteSets, SequencesExt

CONSTANTS
    Threads,      \* caller threads that create, assign and drop data
    Slots,        \* data objects
    DataSlots,    \* the slots that are XrtData; the others are ComputationPtr
    Owner,        \* Owner[s]: the thread that writes slot s
    Handles,      \* server-side handles
    DataHandles,  \* allocation handles; the others are compilation handles
    Devices,
    DeviceOf,     \* DeviceOf[h]: the device h lives on, captured by its releaser
    Targets,      \* worker RPC targets; one session per target in a SessionMap
    TargetOf,     \* TargetOf[d]: the target of device d's worker (workers_map)
    Runners,      \* the TriggeredTask threads running HandleReleaser
    RpcMayFail,   \* whether a release RPC may fail
    None

ASSUME
    /\ DataSlots \subseteq Slots
    /\ Owner \in [Slots -> Threads]
    /\ DataHandles \subseteq Handles
    /\ DeviceOf \in [Handles -> Devices]
    /\ TargetOf \in [Devices -> Targets]
    /\ Runners # {}
    /\ RpcMayFail \in BOOLEAN
    /\ None \notin Handles \cup Devices

VARIABLES
    slot,       \* slot[s]: the handle data object s holds, or None
    srv,        \* srv[h]: "free" (not yet allocated), "live" or "released"
    pending,    \* released_data_handles_ and released_compile_handles_
    activated,  \* the TriggeredTask activation flag
    tpc,        \* tpc[t]: "idle", or "activate" between push and Activate()
    phase,      \* phase[r]: where runner r is in HandleReleaser
    batch,      \* batch[r]: the handles runner r swapped out, not yet sent
    relCount,   \* history: how many release RPCs have carried each handle
    failed      \* history: handles whose release RPC failed

vars == <<slot, srv, pending, activated, tpc, phase, batch, relCount, failed>>

Kinds == {"data", "compile"}

Kind(h) == IF h \in DataHandles THEN "data" ELSE "compile"

SlotKind(s) == IF s \in DataSlots THEN "data" ELSE "compile"

Phases == {"wait", "swap_data", "rpc_data", "swap_compile", "rpc_compile", "dead"}

\* HandleReleaser releases the data list and then the compile list.
SwapPhase(k) == IF k = "data" THEN "swap_data" ELSE "swap_compile"
RpcPhase(k)  == IF k = "data" THEN "rpc_data" ELSE "rpc_compile"
AfterPhase(k) == IF k = "data" THEN "swap_compile" ELSE "wait"

\* The history counter saturates: 2 already means "released twice".
RelCap == 2

Holders(h) == {s \in Slots : slot[s] = h}

\* GetSessionForDevice: the session is the one of the device's worker target.
SessionTarget(h) == TargetOf[DeviceOf[h]]

TypeOK ==
    /\ slot \in [Slots -> Handles \cup {None}]
    /\ srv \in [Handles -> {"free", "live", "released"}]
    /\ pending \in [Kinds -> Seq(Handles)]
    /\ activated \in BOOLEAN
    /\ tpc \in [Threads -> {"idle", "activate"}]
    /\ phase \in [Runners -> Phases]
    /\ batch \in [Runners -> Seq(Handles)]
    /\ relCount \in [Handles -> 0..RelCap]
    /\ failed \subseteq Handles

Init ==
    /\ slot = [s \in Slots |-> None]
    /\ srv = [h \in Handles |-> "free"]
    /\ pending = [k \in Kinds |-> <<>>]
    /\ activated = FALSE
    /\ tpc = [t \in Threads |-> "idle"]
    /\ phase = [r \in Runners |-> "wait"]
    /\ batch = [r \in Runners |-> <<>>]
    /\ relCount = [h \in Handles |-> 0]
    /\ failed = {}

-----------------------------------------------------------------------------
(* Caller threads                                                          *)

\* Mutant: a placeholder, which holds no handle, is pushed when it is
\* overwritten by Assign.
ReleaseHandleNoNullCheck(t, h) ==
    IF \A s \in Slots : slot'[s] # h
    THEN /\ pending' = [pending EXCEPT ![Kind(h)] = Append(@, h)]
         /\ tpc' = [tpc EXCEPT ![t] = "activate"]
    ELSE UNCHANGED <<pending, tpc>>

\* Mutant: the handle is pushed whenever a reference goes away, not only
\* when the last one does.
ReleaseHandleEveryUnref(t, h) ==
    IF h # None
    THEN /\ pending' = [pending EXCEPT ![Kind(h)] = Append(@, h)]
         /\ tpc' = [tpc EXCEPT ![t] = "activate"]
    ELSE UNCHANGED <<pending, tpc>>

(* ReleaseHandle, reached from ~XrtHandle through ReleaseXrtData or        *)
(* ReleaseXrtComputation. Once slot' is fixed, if no slot holds h any      *)
(* more, the XrtHandle is destroyed. The handle is pushed on its kind's    *)
(* pending list under lock_, and the thread still has to call Activate().  *)
ReleaseHandle(t, h) ==
    IF h # None /\ \A s \in Slots : slot'[s] # h
    THEN /\ pending' = [pending EXCEPT ![Kind(h)] = Append(@, h)]
         /\ tpc' = [tpc EXCEPT ![t] = "activate"]
    ELSE UNCHANGED <<pending, tpc>>

\* Mutant: a data object wraps a handle without it being a fresh one from
\* the server, so a handle whose release is pending can be held again.
CreateXrtDataAnyHandle(t, s, h) ==
    /\ tpc[t] = "idle"
    /\ Owner[s] = t
    /\ slot[s] = None
    /\ srv[h] # "released"
    /\ Kind(h) = SlotKind(s)
    /\ slot' = [slot EXCEPT ![s] = h]
    /\ srv' = [srv EXCEPT ![h] = "live"]
    /\ UNCHANGED <<pending, activated, tpc, phase, batch, relCount, failed>>

(* XrtData(device, shape, handle): a transfer, execute, sub-tuple or       *)
(* compile RPC returned the new handle h, and an empty slot of thread t    *)
(* takes it.                                                                *)
CreateXrtData(t, s, h) ==
    /\ tpc[t] = "idle"
    /\ Owner[s] = t
    /\ slot[s] = None
    /\ srv[h] = "free"
    /\ Kind(h) = SlotKind(s)
    /\ slot' = [slot EXCEPT ![s] = h]
    /\ srv' = [srv EXCEPT ![h] = "live"]
    /\ UNCHANGED <<pending, activated, tpc, phase, batch, relCount, failed>>

(* XrtData::Assign: unless s and e are the same object, s now shares e's   *)
(* XrtHandle. The XrtHandle that s held loses a reference, and may lose    *)
(* its last one.                                                            *)
Assign(t, s, e) ==
    /\ tpc[t] = "idle"
    /\ Owner[s] = t
    /\ {s, e} \subseteq DataSlots
    /\ s # e
    /\ slot[e] # None
    /\ slot' = [slot EXCEPT ![s] = slot[e]]
    /\ ReleaseHandle(t, slot[s])
    /\ UNCHANGED <<srv, activated, phase, batch, relCount, failed>>

(* Destroying data object s (an XrtData or an XrtComputation).             *)
DropData(t, s) ==
    /\ tpc[t] = "idle"
    /\ Owner[s] = t
    /\ slot[s] # None
    /\ slot' = [slot EXCEPT ![s] = None]
    /\ ReleaseHandle(t, slot[s])
    /\ UNCHANGED <<srv, activated, phase, batch, relCount, failed>>

(* The triggered_task_->Activate() call that ends ReleaseHandle.           *)
Activate(t) ==
    /\ tpc[t] = "activate"
    /\ activated' = TRUE
    /\ tpc' = [tpc EXCEPT ![t] = "idle"]
    /\ UNCHANGED <<slot, srv, pending, phase, batch, relCount, failed>>

-----------------------------------------------------------------------------
(* Releaser runners                                                        *)

(* A waiting TriggeredTask runner consumes the activation and starts       *)
(* HandleReleaser.                                                          *)
Wake(r) ==
    /\ phase[r] = "wait"
    /\ activated
    /\ activated' = FALSE
    /\ phase' = [phase EXCEPT ![r] = "swap_data"]
    /\ UNCHANGED <<slot, srv, pending, tpc, batch, relCount, failed>>

\* Mutant: the pending list is copied out instead of swapped, so it is not
\* cleared under the lock.
SwapPendingCopy(r, k) ==
    /\ phase[r] = SwapPhase(k)
    /\ batch' = [batch EXCEPT ![r] = pending[k]]
    /\ phase' = [phase EXCEPT ![r] =
                    IF pending[k] = <<>> THEN AfterPhase(k) ELSE RpcPhase(k)]
    /\ UNCHANGED <<slot, srv, pending, activated, tpc, relCount, failed>>

\* Mutant: an empty data list ends HandleReleaser, so the compile list is
\* not looked at in that pass.
SwapPendingEarlyExit(r, k) ==
    /\ phase[r] = SwapPhase(k)
    /\ batch' = [batch EXCEPT ![r] = pending[k]]
    /\ pending' = [pending EXCEPT ![k] = <<>>]
    /\ phase' = [phase EXCEPT ![r] =
                    IF pending[k] = <<>> THEN "wait" ELSE RpcPhase(k)]
    /\ UNCHANGED <<slot, srv, activated, tpc, relCount, failed>>

(* ReleaseHandles: released_handles.swap(handles) under lock_. An empty   *)
(* swap ends this ReleaseHandles call.                                      *)
SwapPending(r, k) ==
    /\ phase[r] = SwapPhase(k)
    /\ batch' = [batch EXCEPT ![r] = pending[k]]
    /\ pending' = [pending EXCEPT ![k] = <<>>]
    /\ phase' = [phase EXCEPT ![r] =
                    IF pending[k] = <<>> THEN AfterPhase(k) ELSE RpcPhase(k)]
    /\ UNCHANGED <<slot, srv, activated, tpc, relCount, failed>>

\* session_handles_map[session]: the handles of r's batch for target g.
Group(r, g) == SelectSeq(batch[r], LAMBDA h : SessionTarget(h) = g)

Rest(r, g) == SelectSeq(batch[r], LAMBDA h : SessionTarget(h) # g)

\* Mutant: the whole batch is considered done after the first session's RPC.
ReleaseRpcFirstGroupOnly(r, k, g) ==
    /\ phase[r] = RpcPhase(k)
    /\ Group(r, g) # <<>>
    /\ LET grp == Group(r, g) IN
       /\ srv' = [h \in Handles |-> IF h \in ToSet(grp) THEN "released" ELSE srv[h]]
       /\ relCount' = [h \in Handles |->
                          IF relCount[h] + Quantify(DOMAIN grp, LAMBDA i : grp[i] = h) > RelCap
                          THEN RelCap
                          ELSE relCount[h] + Quantify(DOMAIN grp, LAMBDA i : grp[i] = h)]
    /\ batch' = [batch EXCEPT ![r] = <<>>]
    /\ phase' = [phase EXCEPT ![r] = AfterPhase(k)]
    /\ UNCHANGED <<slot, pending, activated, tpc, failed>>

(* One iteration of the loop over session_handles_map: a release RPC on    *)
(* the session of target g frees every handle of the group. The map is     *)
(* keyed by session pointer, so the groups go out in any order.            *)
ReleaseRpc(r, k, g) ==
    /\ phase[r] = RpcPhase(k)
    /\ Group(r, g) # <<>>
    /\ LET grp == Group(r, g) IN
       /\ srv' = [h \in Handles |-> IF h \in ToSet(grp) THEN "released" ELSE srv[h]]
       /\ relCount' = [h \in Handles |->
                          IF relCount[h] + Quantify(DOMAIN grp, LAMBDA i : grp[i] = h) > RelCap
                          THEN RelCap
                          ELSE relCount[h] + Quantify(DOMAIN grp, LAMBDA i : grp[i] = h)]
    /\ batch' = [batch EXCEPT ![r] = Rest(r, g)]
    /\ phase' = [phase EXCEPT ![r] = IF Rest(r, g) = <<>> THEN AfterPhase(k) ELSE @]
    /\ UNCHANGED <<slot, pending, activated, tpc, failed>>

(* The release RPC fails. XLA_CHECK_OK throws out of ReleaseHandles and    *)
(* out of the runner thread. The groups of the batch that have not been    *)
(* sent yet are dropped with it.                                            *)
ReleaseRpcFails(r, k, g) ==
    /\ RpcMayFail
    /\ phase[r] = RpcPhase(k)
    /\ Group(r, g) # <<>>
    /\ failed' = failed \cup ToSet(Group(r, g))
    /\ batch' = [batch EXCEPT ![r] = <<>>]
    /\ phase' = [phase EXCEPT ![r] = "dead"]
    /\ UNCHANGED <<slot, srv, pending, activated, tpc, relCount>>

-----------------------------------------------------------------------------
CallerStep ==
    \E t \in Threads :
        \/ \E s \in Slots, h \in Handles : CreateXrtData(t, s, h)
        \/ \E s, e \in Slots : Assign(t, s, e)
        \/ \E s \in Slots : DropData(t, s)
        \/ Activate(t)

RunnerStep(r) ==
    \/ Wake(r)
    \/ \E k \in Kinds : SwapPending(r, k)
    \/ \E k \in Kinds, g \in Targets : ReleaseRpc(r, k, g) \/ ReleaseRpcFails(r, k, g)

Next == CallerStep \/ \E r \in Runners : RunnerStep(r)

(* Fairness. A thread that pushed a handle goes straight on to Activate(). *)
(* A runner that has begun HandleReleaser runs it to the end. Some waiting *)
(* runner is woken by notify_one() while the flag is set. Callers are not  *)
(* obliged to create or drop data.                                          *)
Fairness ==
    /\ \A t \in Threads : WF_vars(Activate(t))
    /\ WF_vars(\E r \in Runners : Wake(r))
    /\ \A r \in Runners :
          /\ WF_vars(\E k \in Kinds : SwapPending(r, k))
          /\ WF_vars(\E k \in Kinds, g \in Targets : ReleaseRpc(r, k, g))

Spec == Init /\ [][Next]_vars /\ Fairness

-----------------------------------------------------------------------------
(* Properties                                                              *)

(* No use after release: the server frees a handle only once no data      *)
(* object holds it. This is about the last-reference test of ~XrtHandle    *)
(* and Assign, together with the releaser's swap.                           *)
NoUseAfterRelease ==
    \A h \in Handles : relCount[h] > 0 => Holders(h) = {}

(* Exactly once, the "never in more than one" half: no handle is carried   *)
(* by two release RPCs, even with several runners swapping the same lists *)
(* concurrently.                                                            *)
ReleasedAtMostOnce ==
    \A h \in Handles : relCount[h] <= 1

InFlight(h) ==
    \/ \E k \in Kinds : h \in ToSet(pending[k])
    \/ \E r \in Runners : phase[r] # "dead" /\ h \in ToSet(batch[r])

(* No stranded handle. Every allocated handle that nothing references is   *)
(* pending, in a live runner's batch, released, or was in the group whose  *)
(* own RPC failed. Release is best effort for that group only (spec.md     *)
(* 4.3); a failure must not lose the handles of other sessions.            *)
NoStrandedHandle ==
    \A h \in Handles :
        (srv[h] = "live" /\ Holders(h) = {}) =>
            (InFlight(h) \/ h \in failed)

(* The same, for behaviours in which every release RPC has succeeded so   *)
(* far: a failure is the one case in which the code loses handles.          *)
NoStrandedHandleWhileRpcsSucceed ==
    failed = {} => NoStrandedHandle

(* Liveness: once the last reference to a handle is gone, the handle is    *)
(* eventually released by some runner's RPC (spec.md 8 "Handle             *)
(* lifecycle"), unless a release RPC fails first. This catches a lost     *)
(* wake-up between the push, Activate() and the runner's swap.             *)
EventuallyReleased ==
    \A h \in Handles :
        (srv[h] = "live" /\ Holders(h) = {}) ~> (srv[h] = "released" \/ failed # {})

(* Refinement: every step of the registry is a step of the abstract       *)
(* handle lifecycle, failing release RPCs included: a handle goes from    *)
(* live to pending only when its last reference goes, and is freed only   *)
(* from pending, by one RPC.                                                *)
AbsState(h) ==
    CASE srv[h] = "free"     -> "free"
      [] srv[h] = "released" -> "released"
      [] Holders(h) # {}     -> "live"
      [] OTHER               -> "pending"

HL == INSTANCE HandleLifecycle WITH hstate <- [h \in Handles |-> AbsState(h)]

HandleLifecycleSpec == HL!Spec
=============================================================================
