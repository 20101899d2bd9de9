----------------------------- MODULE ApprovedWrite -----------------------------
(***************************************************************************)
(* Writing a file with a person's approval: ToolRegistry.execute, the      *)
(* file_write tool, the approver of the service and the pages that show    *)
(* the request and send the decision (app/tools/registry.py, filesystem.py,*)
(* app/service/tasks.py, app/ui/app.js).                                   *)
(*                                                                         *)
(* An agent makes its calls one after the other, here all on one path.  The*)
(* target is looked at three times: before the request, when the approval  *)
(* is in, and when a thread opens the file.  Whoever owns the workspace may*)
(* change it at any time, and pages show what they were last sent.         *)
(***************************************************************************)
EXTENDS Naturals, FiniteSets

CONSTANTS
  Pages,    \* browser pages that follow the task
  MaxCalls  \* file_write calls of the agent

ASSUME MaxCallsAssumption == MaxCalls \in Nat

Calls == 1 .. MaxCalls

VARIABLES
  file,    \* the target: absent, a directory or a text, whose, and if whole
  pc,      \* where the agent is: between calls, or in one of its awaits
  serving, \* whether anybody still awaits the call (the service is not closing)
  call,    \* number of the current or last call
  over,    \* its overwrite argument
  future,  \* approval_future
  shown,   \* per page: the call whose request it shows, 0 for none
  enabled, \* per page: whether its two buttons can be clicked
  posts,   \* decisions that pages have sent
  results, \* history variable: what each call returned
  opened,  \* history variable: calls that opened the file for writing
  granted, \* history variable: calls that an approving decision was taken for
  clicked  \* history variable: calls approved by a click on their own request

agent == <<pc, serving, call, over, future>>
pages == <<shown, enabled, posts, clicked>>
vars == <<file, agent, pages, results, opened, granted>>

----------------------------------------------------------------------------

User == 0
Absent == [is |-> "absent", by |-> User, whole |-> TRUE]
Directory == [is |-> "directory", by |-> User, whole |-> TRUE]
Text(author, whole) == [is |-> "text", by |-> author, whole |-> whole]

\* The checks that preflight and execute make: what they find, or "ok".
Check(overwrite) ==
  CASE file.is = "directory" -> "invalid"
    [] file.is = "text" /\ ~overwrite -> "exists"
    [] OTHER -> "ok"

Init ==
  /\ file \in {Absent, Directory, Text(User, TRUE)}
  /\ pc = "idle"
  /\ serving = TRUE
  /\ call = 0
  /\ over = FALSE
  /\ future = "none"
  /\ shown = [p \in Pages |-> 0]
  /\ enabled = [p \in Pages |-> FALSE]
  /\ posts = {}
  /\ results = [n \in Calls |-> "none"]
  /\ opened = {}
  /\ granted = {}
  /\ clicked = {}

\* The call ends with result r and the agent goes on, if it is still there.
Ends(r) ==
  /\ results' = [results EXCEPT ![call] = IF serving THEN r ELSE @]
  /\ pc' = IF serving THEN "idle" ELSE "over"

----------------------------------------------------------------------------
(* The agent's call.                                                       *)

\* execute: a call that fails its preflight is answered at once.
PreflightFails(overwrite) ==
  /\ pc = "idle"
  /\ call < MaxCalls
  /\ call' = call + 1
  /\ over' = overwrite
  /\ Check(overwrite) # "ok"
  /\ results' = [results EXCEPT ![call + 1] = Check(overwrite)]
  /\ UNCHANGED <<file, pc, serving, future, pages, opened, granted>>

\* Otherwise a person is asked: the service shows the request with a new future.
Asks(overwrite) ==
  /\ pc = "idle"
  /\ call < MaxCalls
  /\ call' = call + 1
  /\ over' = overwrite
  /\ Check(overwrite) = "ok"
  /\ future' = "pending"
  /\ pc' = "approval"
  /\ UNCHANGED <<file, serving, pages, results, opened, granted>>

\* Denied, or not decided in 300 seconds (a decision in the last moment may be
\* too late): ToolApprovalError ends the agent.
ApprovalDenied ==
  /\ pc = "approval"
  /\ future' = "none"
  /\ pc' = "over"
  /\ results' = [results EXCEPT ![call] = "denied"]
  /\ UNCHANGED <<file, serving, call, over, pages, opened, granted>>

\* (Mutated) Whatever is not a refusal lets the tool run.
ApprovalGrantedUnlessDenied ==
  /\ pc = "approval"
  /\ future # "denied"
  /\ future' = "none"
  /\ IF Check(over) = "ok"
     THEN pc' = "open" /\ results' = results
     ELSE Ends(Check(over))
  /\ UNCHANGED <<file, serving, call, over, pages, opened, granted>>

\* The approved call runs: the target is checked again, then handed to a thread.
ApprovalGranted ==
  /\ pc = "approval"
  /\ future = "approved"
  /\ future' = "none"
  /\ IF Check(over) = "ok"
     THEN pc' = "open" /\ results' = results
     ELSE Ends(Check(over))
  /\ UNCHANGED <<file, serving, call, over, pages, opened, granted>>

\* (Mutated) The thread opens the file with mode "w" in any case.
OpensTruncating ==
  /\ pc = "open"
  /\ file.is # "directory"
  /\ file' = Text(call, FALSE)
  /\ opened' = opened \cup {call}
  /\ pc' = "write"
  /\ UNCHANGED <<serving, call, over, future, pages, results, granted>>

\* _write: the file is created, or truncated if overwriting was allowed.
Opens ==
  /\ pc = "open"
  /\ file.is = "absent" \/ (file.is = "text" /\ over)
  /\ file' = Text(call, FALSE)
  /\ opened' = opened \cup {call}
  /\ pc' = "write"
  /\ UNCHANGED <<serving, call, over, future, pages, results, granted>>

\* Mode "x" finds a file, or the file cannot be opened.
OpenFails ==
  /\ pc = "open"
  /\ Ends(IF file.is # "absent" /\ ~over THEN "exists" ELSE "error")
  /\ UNCHANGED <<file, serving, call, over, future, pages, opened, granted>>

\* The text is in the file, unless somebody has put another one there.
Writes ==
  /\ pc = "write"
  /\ file' = IF file.by = call THEN Text(call, TRUE) ELSE file
  /\ Ends("ok")
  /\ UNCHANGED <<serving, call, over, future, pages, opened, granted>>

\* (Mutated) An error after the file was opened is not noticed.
WriteFailsQuietly ==
  /\ pc = "write"
  /\ Ends("ok")
  /\ UNCHANGED <<file, serving, call, over, future, pages, opened, granted>>

\* The file was opened but not written: it stays as it is then.
WriteFails ==
  /\ pc = "write"
  /\ Ends("error")
  /\ UNCHANGED <<file, serving, call, over, future, pages, opened, granted>>

\* The service closes: the agent is cancelled where it is, a thread goes on.
Close ==
  /\ serving
  /\ serving' = FALSE
  /\ future' = "none"
  /\ pc' = IF pc \in {"open", "write"} THEN pc ELSE "over"
  /\ UNCHANGED <<file, call, over, pages, results, opened, granted>>

----------------------------------------------------------------------------
(* The owner of the workspace, and the pages.                              *)

\* The owner saves, removes or makes something at the path.
OwnerChanges ==
  /\ file' \in {Absent, Directory, Text(User, TRUE)}
  /\ UNCHANGED <<agent, pages, results, opened, granted>>

\* An update of the event stream reaches page p: it shows the open request, with
\* its buttons, or none.
Render(p) ==
  /\ shown' = [shown EXCEPT ![p] = IF pc = "approval" THEN call ELSE 0]
  /\ enabled' = [enabled EXCEPT ![p] = pc = "approval"]
  /\ UNCHANGED <<file, agent, posts, clicked, results, opened, granted>>

\* sendApproval: the buttons are disabled and the decision is sent.  It names
\* the task.  (A second equal decision on the way makes no difference.)
Click(p, approved) ==
  /\ shown[p] # 0
  /\ enabled[p]
  /\ enabled' = [enabled EXCEPT ![p] = FALSE]
  /\ posts' = posts \cup {[page |-> p, approved |-> approved]}
  /\ clicked' = IF approved THEN clicked \cup {shown[p]} ELSE clicked
  /\ UNCHANGED <<file, agent, shown, results, opened, granted>>

\* The decision is taken for whatever request the task has open.  The answer is
\* the task as it stands, with the request still in it, and is rendered.
Decide(m) ==
  /\ m \in posts
  /\ future = "pending"
  /\ future' = IF m.approved THEN "approved" ELSE "denied"
  /\ granted' = IF m.approved THEN granted \cup {call} ELSE granted
  /\ posts' = posts \ {m}
  /\ shown' = [shown EXCEPT ![m.page] = call]
  /\ enabled' = [enabled EXCEPT ![m.page] = TRUE]
  /\ UNCHANGED <<file, pc, serving, call, over, clicked, results, opened>>

\* 409, or no answer at all: the page enables its buttons again.
Refused(m) ==
  /\ m \in posts
  /\ future # "pending"
  /\ posts' = posts \ {m}
  /\ enabled' = [enabled EXCEPT ![m.page] = TRUE]
  /\ UNCHANGED <<file, agent, shown, clicked, results, opened, granted>>

----------------------------------------------------------------------------

Agent == \/ \E overwrite \in BOOLEAN : PreflightFails(overwrite) \/ Asks(overwrite)
         \/ ApprovalDenied
         \/ ApprovalGranted
         \/ Opens
         \/ OpenFails
         \/ Writes
         \/ WriteFails
         \/ Close

Outside == \/ OwnerChanges
           \/ \E p \in Pages : Render(p)
           \/ \E p \in Pages, approved \in BOOLEAN : Click(p, approved)
           \/ \E m \in posts : Decide(m) \/ Refused(m)

Next == Agent \/ Outside

Spec == Init /\ [][Next]_vars

----------------------------------------------------------------------------
(* Properties.                                                             *)

\* Every variable stays in its type.
TypeOK ==
  /\ file \in [is : {"absent", "directory", "text"}, by : Calls \cup {User},
              whole : BOOLEAN]
  /\ pc \in {"idle", "approval", "open", "write", "over"}
  /\ serving \in BOOLEAN
  /\ call \in Calls \cup {0}
  /\ over \in BOOLEAN
  /\ future \in {"none", "pending", "approved", "denied"}
  /\ shown \in [Pages -> Calls \cup {0}]
  /\ enabled \in [Pages -> BOOLEAN]
  /\ posts \subseteq [page : Pages, approved : BOOLEAN]
  /\ results \in [Calls -> {"none", "ok", "exists", "invalid", "denied", "error"}]
  /\ opened \subseteq Calls
  /\ granted \subseteq Calls
  /\ clicked \subseteq Calls

\* Nothing is written unless an approval was taken for that very call while it
\* was awaited: not after a refusal, a time-out, a cancellation, or a preflight
\* or second check that failed.
OnlyGrantedWrites ==
  /\ opened \subseteq granted
  /\ \A n \in Calls : results[n] \in {"denied", "invalid", "exists"} => n \notin opened

\* README: file_write changes an existing file only if overwrite was given, even
\* if the file came into being after the checks; a directory is never replaced.
NoUnaskedOverwrite ==
  [][/\ file.is = "text" /\ file'.by \notin {User, file.by} => over
     /\ file.is = "directory" => file'.by = User]_file

\* What the agent is told is so: a write reported as done is whole (if it is
\* still there), and one that is not whole is in progress, failed or abandoned.
ReportsHold ==
  /\ \A n \in Calls : results[n] = "ok" => n \in opened
  /\ file.by # User => file.by \in opened
  /\ ~file.whole => results[file.by] \in {"none", "error"}

\* Where the call stands: open requests, running writes and what they left.
CallConsistent ==
  /\ future # "none" => pc = "approval"
  /\ future = "approved" => call \in granted
  /\ pc \in {"approval", "open", "write"} => call # 0 /\ results[call] = "none"
  /\ pc \in {"open", "write"} => call \in granted
  /\ pc \in {"approval", "open"} => call \notin opened
  /\ pc = "write" => call \in opened
  /\ \A n \in Calls : n > call => results[n] = "none" /\ n \notin opened

\* What pages show is not ahead of the agent, and an approval on its way was clicked.
PagesConsistent ==
  /\ \A p \in Pages : shown[p] <= call
  /\ \A m \in posts : m.approved => \E n \in clicked : n <= call

FileConsistent ==
  /\ file.by # User => file.is = "text"
  /\ ~file.whole => file.by # User

\* The inductive invariant.
WriteInv ==
  /\ TypeOK /\ CallConsistent /\ PagesConsistent /\ FileConsistent
  /\ OnlyGrantedWrites /\ ReportsHold
=============================================================================
