-------------------------------- MODULE MCTurn --------------------------------
(***************************************************************************)
(* TLC instance of Turn: every request there is, with the retries of the   *)
(* runtime.                                                                *)
(***************************************************************************)
EXTENDS Turn
=============================================================================
