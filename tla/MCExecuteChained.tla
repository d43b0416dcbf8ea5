-------------------------- MODULE MCExecuteChained --------------------------
(***************************************************************************)
(* ExecuteChained alone, for the runs that ask what it does with a        *)
(* malformed chain: every chain of up to three ops, computations with up  *)
(* to two inputs, result slots 0 and 1, in both modes. Its passing         *)
(* properties are checked in MCDataPlane.                                  *)
(***************************************************************************)
EXTENDS ExecuteChained
=============================================================================
