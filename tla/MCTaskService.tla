--------------------------- MODULE MCTaskService ---------------------------
(***************************************************************************)
(* TLC instance of TaskService.  The sizes are the smallest that make the  *)
(* queue fill up, a record be evicted and a conversation be trimmed.       *)
(***************************************************************************)
EXTENDS TaskService, TLC

\* Safety runs only: the conversations are interchangeable, the tasks too.
Symmetry == Permutations(Tasks) \cup Permutations(Conversations)
=============================================================================
