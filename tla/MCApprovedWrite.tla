---------------------------- MODULE MCApprovedWrite ----------------------------
(***************************************************************************)
(* TLC instance of ApprovedWrite: two pages, so that one can lag behind    *)
(* the other, and two calls, so that a decision on one can meet the other  *)
(* and one can follow a write of the agent's own.                          *)
(***************************************************************************)
EXTENDS ApprovedWrite, TLC

Symmetry == Permutations(Pages)
=============================================================================
