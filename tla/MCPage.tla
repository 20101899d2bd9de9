-------------------------------- MODULE MCPage --------------------------------
(***************************************************************************)
(* TLC instance of Page: two tasks, so that one of the page's can wait     *)
(* behind another one, its own or somebody else's, or be refused for it.   *)
(***************************************************************************)
EXTENDS Page, TLC
=============================================================================
