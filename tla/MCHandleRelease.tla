-------------------------- MODULE MCHandleRelease --------------------------
(***************************************************************************)
(* Model-checking instance of HandleRelease.                               *)
(*   Two caller threads: t1 owns data slots s1 and s2; t2 owns data slot   *)
(*   s3 and a ComputationPtr slot c1. Data slots may alias each other      *)
(*   through Assign.                                                        *)
(*   Three allocation handles and one compilation handle.                   *)
(*   h1 and h4 live on dA, h2 on dB, h3 on dC.                             *)
(*   Devices dA and dB are on worker target w1 (one session serves both);  *)
(*   dC is on target w2.                                                    *)
(*   Two releaser runners, so that two HandleReleaser passes can overlap.  *)
(***************************************************************************)
EXTENDS HandleRelease

CONSTANTS t1, t2, s1, s2, s3, c1, h1, h2, h3, h4, dA, dB, dC, w1, w2, r1, r2

MCThreads == {t1, t2}
MCSlots == {s1, s2, s3, c1}
MCDataSlots == {s1, s2, s3}
MCOwner == (s1 :> t1) @@ (s2 :> t1) @@ (s3 :> t2) @@ (c1 :> t2)
MCHandles == {h1, h2, h3, h4}
MCDataHandles == {h1, h2, h3}
MCDevices == {dA, dB, dC}
MCDeviceOf == (h1 :> dA) @@ (h2 :> dB) @@ (h3 :> dC) @@ (h4 :> dA)
MCTargets == {w1, w2}
MCTargetOf == (dA :> w1) @@ (dB :> w1) @@ (dC :> w2)
MCRunners == {r1, r2}

MCSymmetry == Permutations(MCRunners)
=============================================================================
