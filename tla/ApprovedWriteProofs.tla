-------------------------- MODULE ApprovedWriteProofs --------------------------
(***************************************************************************)
(* Proofs about ApprovedWrite: what is written was granted, what existed   *)
(* is replaced only if that was asked for, and reports are right, for any  *)
(* number of pages and calls.                                              *)
(***************************************************************************)
EXTENDS ApprovedWrite, TLAPS

\* The steps of Next, one by one.
LEMMA StepCases ==
  ASSUME [Next]_vars
  PROVE  \/ \E overwrite \in BOOLEAN : PreflightFails(overwrite)
         \/ \E overwrite \in BOOLEAN : Asks(overwrite)
         \/ ApprovalDenied
         \/ ApprovalGranted
         \/ Opens
         \/ OpenFails
         \/ Writes
         \/ WriteFails
         \/ Close
         \/ OwnerChanges
         \/ \E p \in Pages : Render(p)
         \/ \E p \in Pages, approved \in BOOLEAN : Click(p, approved)
         \/ \E m \in posts : Decide(m)
         \/ \E m \in posts : Refused(m)
         \/ UNCHANGED vars
  BY DEF Next, Agent, Outside

\* What the owner may leave at the path is of the file's type.
LEMMA OwnersFile ==
  ASSUME NEW f \in {Absent, Directory, Text(User, TRUE)}
  PROVE  f \in [is : {"absent", "directory", "text"}, by : Calls \cup {User},
               whole : BOOLEAN]
PROOF
  <1>1. CASE f = Absent
    BY <1>1 DEF Absent, User
  <1>2. CASE f = Directory
    BY <1>2 DEF Directory, User
  <1>3. CASE f = Text(User, TRUE)
    BY <1>3 DEF Text, User
  <1>4. QED
    BY <1>1, <1>2, <1>3

\* Every variable keeps its type.
LEMMA TypePreserved ==
  ASSUME WriteInv, [Next]_vars
  PROVE  TypeOK'
PROOF
  <1> USE MaxCallsAssumption
         DEF WriteInv, TypeOK, CallConsistent, Calls, User, Absent, Directory, Text
  <1>1. ASSUME NEW overwrite \in BOOLEAN, PreflightFails(overwrite) PROVE TypeOK'
    BY <1>1 DEF PreflightFails, Check, agent, pages
  <1>2. ASSUME NEW overwrite \in BOOLEAN, Asks(overwrite) PROVE TypeOK'
    BY <1>2 DEF Asks, pages
  <1>3. CASE ApprovalDenied
    BY <1>3 DEF ApprovalDenied, pages
  <1>4. CASE ApprovalGranted
    BY <1>4 DEF ApprovalGranted, Ends, Check, pages
  <1>5. CASE Opens
    BY <1>5 DEF Opens, pages
  <1>6. CASE OpenFails
    BY <1>6 DEF OpenFails, Ends, pages
  <1>7. CASE Writes
    BY <1>7 DEF Writes, Ends, pages
  <1>8. CASE WriteFails
    BY <1>8 DEF WriteFails, Ends, pages
  <1>9. CASE Close
    BY <1>9 DEF Close, pages
  <1>10. CASE OwnerChanges
    <2>1. file' \in {Absent, Directory, Text(User, TRUE)}
      BY <1>10 DEF OwnerChanges
    <2>2. file' \in [is : {"absent", "directory", "text"}, by : Calls \cup {User},
                     whole : BOOLEAN]
      BY <2>1, OwnersFile
    <2>3. QED
      BY <1>10, <2>2 DEF OwnerChanges, agent, pages
  <1>11. ASSUME NEW p \in Pages, Render(p) PROVE TypeOK'
    BY <1>11 DEF Render, agent
  <1>12. ASSUME NEW p \in Pages, NEW approved \in BOOLEAN, Click(p, approved) PROVE TypeOK'
    <2>1. posts' \subseteq [page : Pages, approved : BOOLEAN]
      BY <1>12 DEF Click
    <2>2. clicked' \subseteq Calls
      BY <1>12 DEF Click
    <2>3. QED
      BY <1>12, <2>1, <2>2 DEF Click, agent
  <1>13. ASSUME NEW m \in posts, Decide(m) PROVE TypeOK'
    <2>1. m.page \in Pages /\ m.approved \in BOOLEAN
      BY <1>13
    <2>2. granted' \subseteq Calls
      BY <1>13 DEF Decide
    <2>3. QED
      BY <1>13, <2>1, <2>2 DEF Decide
  <1>14. ASSUME NEW m \in posts, Refused(m) PROVE TypeOK'
    BY <1>14 DEF Refused, agent
  <1>15. CASE UNCHANGED vars
    BY <1>15 DEF vars, agent, pages
  <1>16. QED
    BY <1>1, <1>2, <1>3, <1>4, <1>5, <1>6, <1>7, <1>8, <1>9, <1>10, <1>11, <1>12,
       <1>13, <1>14, <1>15, StepCases

\* The parts of WriteInv that are not about types.
StateInv ==
  CallConsistent /\ PagesConsistent /\ FileConsistent /\ OnlyGrantedWrites /\ ReportsHold

\* No step writes without an approval of that call, reports what is not so, or
\* leaves the state of the call at odds with what it did.
LEMMA StatePreserved ==
  ASSUME WriteInv, [Next]_vars
  PROVE  StateInv'
PROOF
  <1> USE MaxCallsAssumption
         DEF StateInv, WriteInv, TypeOK, CallConsistent, PagesConsistent, FileConsistent,
             OnlyGrantedWrites,
             ReportsHold, Calls, User, Absent, Directory, Text
  <1>1. ASSUME NEW overwrite \in BOOLEAN, PreflightFails(overwrite) PROVE StateInv'
    BY <1>1 DEF PreflightFails, Check, agent, pages
  <1>2. ASSUME NEW overwrite \in BOOLEAN, Asks(overwrite) PROVE StateInv'
    BY <1>2 DEF Asks, pages
  <1>3. CASE ApprovalDenied
    BY <1>3 DEF ApprovalDenied, pages
  <1>4. CASE ApprovalGranted
    BY <1>4 DEF ApprovalGranted, Ends, Check, pages
  <1>5. CASE Opens
    BY <1>5 DEF Opens, pages
  <1>6. CASE OpenFails
    BY <1>6 DEF OpenFails, Ends, pages
  <1>7. CASE Writes
    BY <1>7 DEF Writes, Ends, pages
  <1>8. CASE WriteFails
    BY <1>8 DEF WriteFails, Ends, pages
  <1>9. CASE Close
    BY <1>9 DEF Close, pages
  <1>10. CASE OwnerChanges
    BY <1>10 DEF OwnerChanges, agent, pages
  <1>11. ASSUME NEW p \in Pages, Render(p) PROVE StateInv'
    BY <1>11 DEF Render, agent
  <1>12. ASSUME NEW p \in Pages, NEW approved \in BOOLEAN, Click(p, approved)
         PROVE  StateInv'
    BY <1>12 DEF Click, agent
  <1>13. ASSUME NEW m \in posts, Decide(m) PROVE StateInv'
    BY <1>13 DEF Decide
  <1>14. ASSUME NEW m \in posts, Refused(m) PROVE StateInv'
    BY <1>14 DEF Refused, agent
  <1>15. CASE UNCHANGED vars
    BY <1>15 DEF vars, agent, pages
  <1>16. QED
    BY <1>1, <1>2, <1>3, <1>4, <1>5, <1>6, <1>7, <1>8, <1>9, <1>10, <1>11, <1>12,
       <1>13, <1>14, <1>15, StepCases

\* The invariant holds from the start.
LEMMA InitInv == Init => WriteInv
PROOF
  <1> SUFFICES ASSUME Init PROVE WriteInv
    OBVIOUS
  <1> USE DEF Init, Calls, User, Absent, Directory, Text
  <1>1. file \in [is : {"absent", "directory", "text"}, by : Calls \cup {User},
                  whole : BOOLEAN]
    BY OwnersFile
  <1>2. TypeOK
    BY <1>1 DEF TypeOK
  <1>3. CallConsistent /\ PagesConsistent /\ FileConsistent
    BY MaxCallsAssumption DEF CallConsistent, PagesConsistent, FileConsistent
  <1>4. OnlyGrantedWrites /\ ReportsHold
    BY DEF OnlyGrantedWrites, ReportsHold
  <1>5. QED
    BY <1>2, <1>3, <1>4 DEF WriteInv

----------------------------------------------------------------------------

\* The inductive invariant of the approved write.
THEOREM WriteInvariant == Spec => []WriteInv
PROOF
  <1>1. WriteInv /\ [Next]_vars => WriteInv'
    BY TypePreserved, StatePreserved DEF StateInv, WriteInv
  <1>2. QED
    BY <1>1, InitInv, PTL DEF Spec

\* Nothing is written without an approval taken for that very call.
THEOREM GrantedWrites == Spec => []OnlyGrantedWrites
PROOF
  <1>1. WriteInv => OnlyGrantedWrites
    BY DEF WriteInv
  <1>2. QED
    BY <1>1, WriteInvariant, PTL

\* What the agent is told of a write is so.
THEOREM TrueReports == Spec => []ReportsHold
PROOF
  <1>1. WriteInv => ReportsHold
    BY DEF WriteInv
  <1>2. QED
    BY <1>1, WriteInvariant, PTL

\* A text is replaced only by a call that was allowed to overwrite, a directory
\* never, however the workspace changes in between.
THEOREM OverwriteAsked == Spec => NoUnaskedOverwrite
PROOF
  <1> DEFINE Asked == /\ file.is = "text" /\ file'.by \notin {User, file.by} => over
                      /\ file.is = "directory" => file'.by = User
  <1>1. ASSUME WriteInv, [Next]_vars PROVE [Asked]_file
    <2> USE DEF WriteInv, TypeOK, FileConsistent, User, Absent, Directory, Text
    <2>1. CASE Opens
      BY <1>1, <2>1 DEF Opens
    <2>2. CASE Writes
      BY <1>1, <2>2 DEF Writes
    <2>3. CASE OwnerChanges
      BY <1>1, <2>3 DEF OwnerChanges
    <2>4. CASE ~Opens /\ ~Writes /\ ~OwnerChanges
      <3>1. file' = file
        BY <1>1, <2>4, StepCases
           DEF PreflightFails, Asks, ApprovalDenied, ApprovalGranted, OpenFails,
               WriteFails, Close, Render, Click, Decide, Refused, vars
      <3>2. QED
        BY <3>1
    <2>5. QED
      BY <2>1, <2>2, <2>3, <2>4
  <1>2. QED
    BY <1>1, WriteInvariant, PTL DEF Spec, NoUnaskedOverwrite
=============================================================================
