------------------------------ MODULE MCReviewer ------------------------------
(***************************************************************************)
(* TLC instance of Reviewer: a module, a report and a table, of which a    *)
(* review reads two, so that one may fall off the list.                    *)
(***************************************************************************)
EXTENDS Reviewer, TLC

\* Two figures are interchangeable.
Symmetry == Permutations(Figures)
=============================================================================
