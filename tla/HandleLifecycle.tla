-------------------------- MODULE HandleLifecycle --------------------------
(***************************************************************************)
(* What the handle registry promises (spec.md 3 "DeviceHandle" and 4.3).   *)
(* Every server-side handle goes                                           *)
(*     free -> live -> pending -> released                                  *)
(* A handle is live while a reference holds it. It is pending once the     *)
(* last reference is gone. It is released once a release RPC has freed it  *)
(* on the server. One release RPC may free several pending handles at      *)
(* once. This is the safety part; HandleRelease states the liveness         *)
(* (EventuallyReleased) where release RPCs are reliable.                    *)
(***************************************************************************)
CONSTANT Handles

VARIABLE hstate

States == {"free", "live", "pending", "released"}

Init == hstate = [h \in Handles |-> "free"]

\* The server hands out a new handle and a reference takes it.
Alloc(h) ==
    /\ hstate[h] = "free"
    /\ hstate' = [hstate EXCEPT ![h] = "live"]

\* The last reference to a live handle goes away.
Unref(h) ==
    /\ hstate[h] = "live"
    /\ hstate' = [hstate EXCEPT ![h] = "pending"]

\* One release RPC frees a non-empty set of pending handles.
Release(S) ==
    /\ S # {}
    /\ \A h \in S : hstate[h] = "pending"
    /\ hstate' = [h \in Handles |-> IF h \in S THEN "released" ELSE hstate[h]]

Next ==
    \/ \E h \in Handles : Alloc(h) \/ Unref(h)
    \/ \E S \in SUBSET Handles : Release(S)

Spec == Init /\ [][Next]_hstate
=============================================================================
