--------------------------- MODULE TaskLifecycle ---------------------------
(***************************************************************************)
(* What the task service promises its clients (README, "Eşzamanlı çalışma  *)
(* ve kuyruk"): at most MaxQueue tasks wait, one runs at a time, in the    *)
(* order of submission, each accepted task ends completed or failed, and   *)
(* when the server goes down what was not over is lost.                    *)
(*                                                                         *)
(* A result is provisional until the next task may begin: the service      *)
(* reports a task as completed before its exchange is stored, and a store  *)
(* failure turns it into a failed one.                                     *)
(***************************************************************************)
EXTENDS Naturals, Sequences

CONSTANTS Tasks, NoTask, MaxQueue

VARIABLES
  serving, \* whether the server accepts and runs tasks
  line,    \* the accepted tasks that have not begun, in order
  active,  \* the task being worked on
  life     \* what a client is told about each task

vars == <<serving, line, active, life>>

Init ==
  /\ serving = FALSE
  /\ line = <<>>
  /\ active = NoTask
  /\ life = [t \in Tasks |-> "absent"]

Open ==
  /\ ~serving
  /\ serving' = TRUE
  /\ UNCHANGED <<line, active, life>>

Accept(t) ==
  /\ serving
  /\ life[t] = "absent"
  /\ Len(line) < MaxQueue
  /\ line' = Append(line, t)
  /\ life' = [life EXCEPT ![t] = "queued"]
  /\ UNCHANGED <<serving, active>>

Begin ==
  /\ active = NoTask
  /\ line # <<>>
  /\ active' = Head(line)
  /\ line' = Tail(line)
  /\ life' = [life EXCEPT ![Head(line)] = "working"]
  /\ UNCHANGED serving

\* The task ends with result r, at once or with its exchange still to store.
End(t, r, settled) ==
  /\ t = active
  /\ life[t] = "working"
  /\ life' = [life EXCEPT ![t] = r]
  /\ active' = IF settled THEN NoTask ELSE active
  /\ UNCHANGED <<serving, line>>

Revoke(t) ==
  /\ t = active
  /\ life[t] = "completed"
  /\ life' = [life EXCEPT ![t] = "failed"]
  /\ UNCHANGED <<serving, line, active>>

Settle(t) ==
  /\ t = active
  /\ life[t] \in {"completed", "failed"}
  /\ active' = NoTask
  /\ UNCHANGED <<serving, line, life>>

Halt ==
  /\ serving
  /\ serving' = FALSE
  /\ line' = <<>>
  /\ active' = NoTask
  /\ life' = [t \in Tasks |-> IF life[t] \in {"queued", "working"}
                              THEN "lost" ELSE life[t]]

Work(t) == \/ \E r \in {"completed", "failed"}, b \in BOOLEAN : End(t, r, b)
           \/ Revoke(t)
           \/ Settle(t)

Next == \/ Open
        \/ Halt
        \/ Begin
        \/ \E t \in Tasks : Accept(t) \/ Work(t)

\* While the server is up, the head of the line begins and the active task ends.
Fairness == WF_vars(Begin) /\ \A t \in Tasks : WF_vars(Work(t))

Spec == Init /\ [][Next]_vars /\ Fairness
=============================================================================
