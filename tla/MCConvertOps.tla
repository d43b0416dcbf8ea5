---------------------------- MODULE MCConvertOps ----------------------------
(***************************************************************************)
(* Values on both sides of 0 and past the scaled widths of S8, S16 and    *)
(* S32, so that every narrowing has something to cut off.                 *)
(***************************************************************************)
EXTENDS ConvertOps

MCValues == {0, 1, -1, 5, -5, 40, -40, 3000, -3000}
=============================================================================
