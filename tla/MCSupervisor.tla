---------------------------- MODULE MCSupervisor ----------------------------
(***************************************************************************)
(* TLC instance of Supervisor: three planned tasks are enough for a batch  *)
(* of three workers under a semaphore of two, and for a batch, a reviewed  *)
(* task, and a dependency in one plan.  The first text extends the second  *)
(* one as feedback does, the third in another way; the fourth is the       *)
(* second again.                                                           *)
(***************************************************************************)
EXTENDS Supervisor

Wordings == <<<<"x", "feedback">>, <<"x">>, <<"x", "y">>, <<"x">>>>
=============================================================================
