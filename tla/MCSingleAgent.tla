----------------------------- MODULE MCSingleAgent -----------------------------
(***************************************************************************)
(* TLC instance of SingleAgent: two queries, four calls and four steps, so *)
(* that three errors of a kind can be spread over other calls.             *)
(***************************************************************************)
EXTENDS SingleAgent, TLC

Symmetry == Permutations(Queries)
=============================================================================
