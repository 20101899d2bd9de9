--------------------------- MODULE MCLlamaClient ---------------------------
(***************************************************************************)
(* TLC instance of LlamaClient: three calls are enough for one to be left  *)
(* by its caller in the model, one to wait for the lock and one to come    *)
(* later.                                                                  *)
(***************************************************************************)
EXTENDS LlamaClient
=============================================================================
