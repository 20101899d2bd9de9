------------------------- MODULE MCGraphOrchestrator -------------------------
(***************************************************************************)
(* TLC instance of GraphOrchestrator, with the limits the program uses.    *)
(***************************************************************************)
EXTENDS GraphOrchestrator

Wordings == [i \in 1 .. MaxRounds |-> <<"x">>]
=============================================================================
