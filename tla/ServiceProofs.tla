--------------------------- MODULE ServiceProofs ---------------------------
(***************************************************************************)
(* Proofs about TaskService, for any number of tasks and conversations and *)
(* any sizes that meet the module's assumptions: one task is worked on at a*)
(* time, decisions and ends are final, sizes are kept, the service does    *)
(* what TaskLifecycle promises, and queue and database are in the order of *)
(* submission.  Then about Page, which uses the service: every step of the *)
(* page is a step of the service or leaves it alone, so all of this holds  *)
(* under the page too, a conversation that is shown has what was stored    *)
(* before it, and a button that is disabled waits for something.           *)
(***************************************************************************)
EXTENDS Page, FiniteSetTheorems, SequenceTheorems, WellFoundedInduction, TLAPS

USE NoTaskAssumption, SizesAssumption

\* Evicting a record leaves a sequence of records, at most MaxHistory - 1 long
\* if there were at most MaxHistory.
LEMMA KeptType ==
  ASSUME TypeOK, NEW kept \in Kept
  PROVE  /\ kept \in Seq(Tasks)
         /\ Len(records) <= MaxHistory => Len(kept) < MaxHistory
<1>1. CASE Len(records) < MaxHistory
  BY <1>1 DEF TypeOK, Kept
<1>2. CASE ~(Len(records) < MaxHistory)
  <2>1. PICK i \in Evictable : kept = RemoveAt(records, i)
    BY <1>2 DEF Kept
  <2>2. records \in Seq(Tasks) /\ i \in 1 .. Len(records) /\ Len(records) \in Nat
    BY <2>1 DEF Evictable, TypeOK
  <2> DEFINE front == SubSeq(records, 1, i - 1)
             back == SubSeq(records, i + 1, Len(records))
  <2>3. front \in Seq(Tasks) /\ Len(front) = i - 1
    BY <2>2, SubSeqProperties
  <2>4. back \in Seq(Tasks) /\ Len(back) = Len(records) - i
    BY <2>2, SubSeqProperties
  <2>5. kept = front \o back
    BY <2>1 DEF RemoveAt
  <2> HIDE DEF front, back
  <2>6. kept \in Seq(Tasks) /\ Len(kept) = Len(front) + Len(back)
    BY <2>3, <2>4, <2>5, ConcatProperties
  <2>7. Len(kept) = Len(records) - 1
    BY <2>2, <2>3, <2>4, <2>6
  <2>8. QED
    BY <2>2, <2>6, <2>7
<1>3. QED
  BY <1>1, <1>2

\* What the store keeps of a conversation is again a sequence of exchanges.
LEMMA TrimType ==
  ASSUME NEW s \in Seq(Tasks)
  PROVE  Trim(s) \in Seq(Tasks)
<1>1. CASE Len(s) > MaxPairs
  <2>1. \A i \in Len(s) - MaxPairs + 1 .. Len(s) : s[i] \in Tasks
    BY <1>1
  <2>2. QED
    BY <1>1, <2>1, SubSeqProperties DEF Trim
<1>2. CASE ~(Len(s) > MaxPairs)
  BY <1>2 DEF Trim
<1>3. QED
  BY <1>1, <1>2

----------------------------------------------------------------------------

LEMMA InitInv == Init => ServiceInv
BY EmptySeq DEF Init, ServiceInv, TypeOK, DownIsEmpty, QueueHoldsQueued,
   WorkerConsistent, StatusAt, Statuses, Active, Terminal

\* Each step keeps the types.
LEMMA TypePreserved ==
  ASSUME ServiceInv, [Next]_vars
  PROVE  TypeOK'
<1> USE DEF ServiceInv, TypeOK, Statuses, Active, Terminal
<1>1. CASE Start
  BY <1>1 DEF Start, memory, ghosts
<1>2. ASSUME NEW t \in Tasks, Submit(t)
      PROVE  TypeOK'
  <2>1. PICK kept \in Kept : records' = Append(kept, t)
    BY <1>2 DEF Submit
  <2>2. records' \in Seq(Tasks) /\ queue' \in Seq(Tasks) /\ order' \in Seq(Tasks)
    BY <1>2, <2>1, KeptType, AppendProperties DEF Submit
  <2>3. QED
    BY <1>2, <2>2 DEF Submit
<1>3. ASSUME NEW t \in Tasks, NEW approved \in BOOLEAN, Decide(t, approved)
      PROVE  TypeOK'
  BY <1>3 DEF Decide, ghosts
<1>4. ASSUME NEW c \in Conversations, RequestDelete(c)
      PROVE  TypeOK'
  BY <1>4 DEF RequestDelete, memory, ghosts
<1>5. CASE Take
  <2>1. cur' \in Tasks /\ queue' \in Seq(Tasks)
    BY <1>5, HeadTailProperties DEF Take
  <2>2. QED
    BY <1>5, <2>1 DEF Take, ghosts
<1>6. CASE HistoryListed
  BY <1>6 DEF HistoryListed, memory, ghosts
<1>7. ASSUME cur \in Tasks, NEW e \in {"runner", "storage"},
             NEW b \in BOOLEAN, FailWith(e, b)
      PROVE  TypeOK'
  BY <1>7 DEF FailWith, ghosts
<1>8. pc \notin {"off", "get"} => cur \in Tasks
  BY DEF WorkerConsistent
<1>9. CASE HistoryListFails
  BY <1>7, <1>8, <1>9 DEF HistoryListFails
<1>10. ASSUME NEW b \in BOOLEAN, RunnerFails(b)
       PROVE  TypeOK'
  BY <1>7, <1>8, <1>10 DEF RunnerFails
<1>11. ASSUME NEW b \in BOOLEAN, RunnerCompletes(b)
       PROVE  TypeOK'
  BY <1>8, <1>11 DEF RunnerCompletes, ghosts
<1>12. CASE RequestApproval
  BY <1>12 DEF RequestApproval, ghosts
<1>13. CASE ApprovalReturns
  BY <1>13 DEF ApprovalReturns, ghosts
<1>14. ASSUME NEW t \in Tasks, StoreCommits(t)
       PROVE  TypeOK'
  <2>1. Trim(Append(history[conv[t]], t)) \in Seq(Tasks)
    <3>1. history[conv[t]] \in Seq(Tasks)
      OBVIOUS
    <3>2. Append(history[conv[t]], t) \in Seq(Tasks)
      BY <3>1, AppendProperties
    <3>3. QED
      BY <3>2, TrimType
  <2>2. history' \in [Conversations -> Seq(Tasks)]
    BY <1>14, <2>1 DEF StoreCommits
  <2>3. QED
    BY <1>14, <2>2 DEF StoreCommits
<1>15. ASSUME NEW t \in Tasks, StoreFailsOnce(t)
       PROVE  TypeOK'
  BY <1>7, <1>8, <1>15 DEF StoreFailsOnce
<1>16. ASSUME NEW t \in Tasks, StoreFailsTwice(t)
       PROVE  TypeOK'
  BY <1>16 DEF StoreFailsTwice, ghosts
<1>17. ASSUME NEW t \in Tasks, OrphanFails(t)
       PROVE  TypeOK'
  BY <1>17 DEF OrphanFails, memory, ghosts
<1>18. ASSUME NEW c \in Conversations, DeleteCommits(c)
       PROVE  TypeOK'
  <2>1. history' \in [Conversations -> Seq(Tasks)]
    BY <1>18, EmptySeq DEF DeleteCommits
  <2>2. QED
    BY <1>18, <2>1 DEF DeleteCommits, memory, InConversation
<1>19. ASSUME NEW c \in Conversations, DeleteFails(c)
       PROVE  TypeOK'
  BY <1>19 DEF DeleteFails, memory, ghosts
<1>20. CASE Close
  BY <1>20 DEF Close, ghosts
<1>21. ASSUME MemoryLost, writing' \subseteq writing, deleting' \subseteq deleting
       PROVE  TypeOK'
  BY <1>21, EmptySeq DEF MemoryLost, ghosts
<1>22. CASE Exit
  BY <1>21, <1>22 DEF Exit
<1>23. CASE Crash
  BY <1>21, <1>23 DEF Crash
<1>24. CASE UNCHANGED vars
  BY <1>24 DEF vars, memory, ghosts
<1> HIDE DEF ServiceInv, TypeOK, Statuses, Active, Terminal
<1>25. QED
  BY <1>1, <1>2, <1>3, <1>4, <1>5, <1>6, <1>9, <1>10, <1>11, <1>12, <1>13,
     <1>14, <1>15, <1>16, <1>17, <1>18, <1>19, <1>20, <1>22, <1>23, <1>24
  DEF Next, Client, Consumer, Store, StoreEnds, DeleteEnds, Process

\* A consumer that is past the queue holds a record that is not queued.
LEMMA HeldRecord ==
  ASSUME ServiceInv, pc \notin {"off", "get"}
  PROVE  /\ cur \in Tasks /\ phase = "up"
         /\ status[cur] = StatusAt[pc] /\ status[cur] # "queued"
<1>1. cur \in Tasks /\ phase = "up" /\ status[cur] = StatusAt[pc]
  BY DEF ServiceInv, TypeOK, WorkerConsistent
<1>2. pc \in {"list", "run", "approval", "store", "fail"}
  BY DEF ServiceInv, TypeOK
<1>3. StatusAt[pc] # "queued"
  BY <1>2 DEF StatusAt
<1>4. QED
  BY <1>1, <1>3

\* The consumer's position still determines what it holds and what clients see.
LEMMA WorkerPreserved ==
  ASSUME ServiceInv, TypeOK', [Next]_vars
  PROVE  WorkerConsistent'
<1> USE DEF ServiceInv, TypeOK, Statuses, Active, Terminal, StatusAt, WorkerConsistent
<1>1. CASE Start
  BY <1>1 DEF Start, memory, DownIsEmpty
<1>2. ASSUME NEW t \in Tasks, Submit(t)
      PROVE  WorkerConsistent'
  BY <1>2 DEF Submit
<1>3. ASSUME NEW t \in Tasks, NEW approved \in BOOLEAN, Decide(t, approved)
      PROVE  WorkerConsistent'
  BY <1>3 DEF Decide
<1>4. ASSUME NEW c \in Conversations, RequestDelete(c)
      PROVE  WorkerConsistent'
  BY <1>4 DEF RequestDelete, memory
<1>5. CASE Take
  <2>1. Head(queue) \in Tasks
    BY <1>5, HeadTailProperties DEF Take
  <2>2. QED
    BY <1>5, <2>1 DEF Take
<1>6. CASE HistoryListed
  BY <1>6 DEF HistoryListed, memory
<1>7. ASSUME pc \notin {"off", "get"}, NEW e, NEW b, FailWith(e, b),
             pc # "approval"
      PROVE  WorkerConsistent'
  BY <1>7 DEF FailWith
<1>8. CASE HistoryListFails
  BY <1>7, <1>8 DEF HistoryListFails
<1>9. ASSUME NEW b \in BOOLEAN, RunnerFails(b)
      PROVE  WorkerConsistent'
  BY <1>7, <1>9 DEF RunnerFails
<1>10. ASSUME NEW b \in BOOLEAN, RunnerCompletes(b)
       PROVE  WorkerConsistent'
  <2>1. pc = "run" /\ cur \in Tasks /\ phase = "up"
    BY <1>10, HeldRecord DEF RunnerCompletes
  <2>2. CASE b
    BY <1>10, <2>1, <2>2 DEF RunnerCompletes
  <2>3. CASE ~b
    BY <1>10, <2>1, <2>3 DEF RunnerCompletes
  <2>4. QED
    BY <2>2, <2>3
<1>11. CASE RequestApproval
  BY <1>11 DEF RequestApproval
<1>12. CASE ApprovalReturns
  BY <1>12 DEF ApprovalReturns
<1>13. ASSUME NEW t \in Tasks, StoreCommits(t)
       PROVE  WorkerConsistent'
  <2>1. CASE t = cur
    <3>1. phase = "up" /\ writing = {cur} /\ pc \in {"store", "fail"}
      BY <1>13, <2>1, HeldRecord DEF StoreCommits
    <3>2. QED
      BY <1>13, <2>1, <3>1 DEF StoreCommits
  <2>2. CASE t # cur
    <3>1. phase # "up" /\ cur = NoTask /\ pc = "off"
      BY <1>13, <2>2 DEF StoreCommits
    <3>2. QED
      BY <1>13, <2>2, <3>1 DEF StoreCommits
  <2>3. QED
    BY <2>1, <2>2
<1>14. ASSUME NEW t \in Tasks, StoreFailsOnce(t)
       PROVE  WorkerConsistent'
  BY <1>7, <1>14 DEF StoreFailsOnce
<1>15. ASSUME NEW t \in Tasks, StoreFailsTwice(t)
       PROVE  WorkerConsistent'
  BY <1>15 DEF StoreFailsTwice
<1>16. ASSUME NEW t \in Tasks, OrphanFails(t)
       PROVE  WorkerConsistent'
  BY <1>16 DEF OrphanFails, memory
<1>17. ASSUME NEW c \in Conversations, DeleteEnds(c)
       PROVE  WorkerConsistent'
  BY <1>17 DEF DeleteEnds, DeleteCommits, DeleteFails, memory
<1>18. CASE Close
  BY <1>18 DEF Close
<1>19. CASE Exit \/ Crash
  BY <1>19 DEF Exit, Crash, MemoryLost
<1>20. CASE UNCHANGED vars
  BY <1>20 DEF vars, memory
<1> HIDE DEF ServiceInv, TypeOK, WorkerConsistent
<1>21. QED
  BY <1>1, <1>2, <1>3, <1>4, <1>5, <1>6, <1>8, <1>9, <1>10, <1>11, <1>12,
     <1>13, <1>14, <1>15, <1>16, <1>17, <1>18, <1>19, <1>20
  DEF Next, Client, Consumer, Store, StoreEnds, Process

\* What is in the queue is still queued, once.
LEMMA QueuePreserved ==
  ASSUME ServiceInv, TypeOK', [Next]_vars
  PROVE  QueueHoldsQueued'
<1>1. /\ queue \in Seq(Tasks) /\ Len(queue) \in Nat
      /\ \A i \in 1 .. Len(queue) : queue[i] \in Tasks
  BY DEF ServiceInv, TypeOK
<1>2. /\ \A i \in 1 .. Len(queue) : status[queue[i]] = "queued"
      /\ \A i, j \in 1 .. Len(queue) : queue[i] = queue[j] => i = j
  BY DEF ServiceInv, QueueHoldsQueued
<1>3. status \in [Tasks -> Statuses]
  BY DEF ServiceInv, TypeOK
\* A step that leaves the queue and the status of its tasks alone.
<1>4. ASSUME queue' = queue,
             \A i \in 1 .. Len(queue) : status'[queue[i]] = status[queue[i]]
      PROVE  QueueHoldsQueued'
  <2>1. \A i \in 1 .. Len(queue) : status'[queue[i]] = "queued"
    BY <1>2, <1>4
  <2>2. QED
    BY <1>2, <1>4, <2>1 DEF QueueHoldsQueued
\* A step that only changes the status of the record the consumer holds.
<1>5. ASSUME pc \notin {"off", "get"}, queue' = queue,
             NEW v, status' = [status EXCEPT ![cur] = v]
      PROVE  QueueHoldsQueued'
  <2>1. \A i \in 1 .. Len(queue) : queue[i] # cur
    BY <1>2, <1>5, HeldRecord
  <2>2. \A i \in 1 .. Len(queue) : status'[queue[i]] = status[queue[i]]
    BY <1>1, <1>3, <1>5, <2>1
  <2>3. QED
    BY <1>4, <1>5, <2>2
<1>6. ASSUME NEW t \in Tasks, Submit(t)
      PROVE  QueueHoldsQueued'
  <2>1. /\ Len(queue') = Len(queue) + 1
        /\ queue'[Len(queue) + 1] = t
        /\ \A i \in 1 .. Len(queue) : queue'[i] = queue[i]
    BY <1>1, <1>6, AppendProperties DEF Submit
  <2>2. status[t] = "new" /\ status' = [status EXCEPT ![t] = "queued"]
    BY <1>6 DEF Submit
  <2>3. \A i \in 1 .. Len(queue) : queue[i] # t
    BY <1>2, <2>2
  <2>4. ASSUME NEW i \in 1 .. Len(queue')
        PROVE  status'[queue'[i]] = "queued"
    BY <1>1, <1>2, <1>3, <2>1, <2>2
  <2>5. ASSUME NEW i \in 1 .. Len(queue'), NEW j \in 1 .. Len(queue'),
               queue'[i] = queue'[j]
        PROVE  i = j
    <3>1. CASE i \in 1 .. Len(queue) /\ j \in 1 .. Len(queue)
      BY <1>2, <2>1, <2>5, <3>1
    <3>2. CASE i = Len(queue) + 1 \/ j = Len(queue) + 1
      BY <1>1, <2>1, <2>3, <2>5, <3>2
    <3>3. QED
      BY <1>1, <2>1, <3>1, <3>2
  <2>6. QED
    BY <2>4, <2>5 DEF QueueHoldsQueued
<1>7. CASE Take
  <2>1. /\ Len(queue') = Len(queue) - 1
        /\ Head(queue) = queue[1] /\ Len(queue) \in Nat \ {0}
        /\ \A i \in 1 .. Len(queue') : queue'[i] = queue[i + 1]
    BY <1>1, <1>7, HeadTailProperties DEF Take
  <2>2. status' = [status EXCEPT ![queue[1]] = "running"]
    BY <1>7, <2>1 DEF Take
  <2>3. ASSUME NEW i \in 1 .. Len(queue')
        PROVE  status'[queue'[i]] = "queued"
    <3>1. i + 1 \in 1 .. Len(queue) /\ i + 1 # 1 /\ 1 \in 1 .. Len(queue)
      BY <2>1
    <3>2. queue[i + 1] # queue[1]
      BY <1>2, <3>1
    <3>3. QED
      BY <1>1, <1>2, <1>3, <2>1, <2>2, <3>1, <3>2
  <2>4. ASSUME NEW i \in 1 .. Len(queue'), NEW j \in 1 .. Len(queue'),
               queue'[i] = queue'[j]
        PROVE  i = j
    <3>1. /\ i + 1 \in 1 .. Len(queue) /\ j + 1 \in 1 .. Len(queue)
          /\ queue[i + 1] = queue[j + 1]
      BY <2>1, <2>4
    <3>2. i + 1 = j + 1
      BY <1>2, <3>1
    <3>3. QED
      BY <2>1, <3>2
  <2>5. QED
    BY <2>3, <2>4 DEF QueueHoldsQueued
<1>8. CASE \/ Start
           \/ \E t \in Tasks, approved \in BOOLEAN : Decide(t, approved)
           \/ \E c \in Conversations : RequestDelete(c)
           \/ HistoryListed
           \/ \E t \in Tasks : StoreCommits(t) \/ OrphanFails(t)
           \/ \E c \in Conversations : DeleteEnds(c)
           \/ UNCHANGED vars
  BY <1>4, <1>8 DEF Start, Decide, RequestDelete, HistoryListed, StoreCommits,
     OrphanFails, DeleteEnds, DeleteCommits, DeleteFails, vars, memory
<1>9. CASE HistoryListFails \/ (\E b \in BOOLEAN : RunnerFails(b))
  BY <1>5, <1>9 DEF HistoryListFails, RunnerFails, FailWith
<1>10. CASE \E b \in BOOLEAN : RunnerCompletes(b)
  BY <1>5, <1>10 DEF RunnerCompletes
<1>11. CASE RequestApproval \/ ApprovalReturns
  BY <1>5, <1>11 DEF RequestApproval, ApprovalReturns
<1>12. CASE \E t \in Tasks : StoreFailsOnce(t)
  BY <1>5, <1>12 DEF StoreFailsOnce, FailWith
<1>13. CASE \E t \in Tasks : StoreFailsTwice(t)
  BY <1>4, <1>13 DEF StoreFailsTwice
<1>14. CASE Close
  <2>1. \A i \in 1 .. Len(queue) : queue[i] = cur => pc # "approval"
    BY <1>2, HeldRecord
  <2>2. \A i \in 1 .. Len(queue) : status'[queue[i]] = status[queue[i]]
    BY <1>1, <1>14, <2>1 DEF Close
  <2>3. QED
    BY <1>4, <1>14, <2>2 DEF Close
<1>15. CASE Exit \/ Crash
  <2>1. queue' = <<>>
    BY <1>15 DEF Exit, Crash, MemoryLost
  <2>2. QED
    BY <2>1 DEF QueueHoldsQueued
<1>16. QED
  BY <1>6, <1>7, <1>8, <1>9, <1>10, <1>11, <1>12, <1>13, <1>14, <1>15
  DEF Next, Client, Consumer, Store, StoreEnds, Process

\* Only a crash or an exit brings the process down, and both leave it empty.
LEMMA DownPreserved ==
  ASSUME ServiceInv, [Next]_vars
  PROVE  DownIsEmpty'
<1>1. CASE Exit \/ Crash
  BY <1>1 DEF Exit, Crash, MemoryLost, DownIsEmpty, ServiceInv, TypeOK, Active
<1>2. CASE UNCHANGED vars
  BY <1>2 DEF vars, memory, DownIsEmpty, ServiceInv
<1>3. CASE Next /\ ~(Exit \/ Crash)
  <2>1. phase = "down" => pc = "off" /\ writing = {} /\ deleting = {}
    BY DEF ServiceInv, DownIsEmpty, WorkerConsistent
  <2>2. phase' # "down"
    BY <1>3, <2>1 DEF Next, Client, Consumer, Store, StoreEnds, DeleteEnds,
       Process, Start, Submit, Decide, RequestDelete, Take, HistoryListed,
       HistoryListFails, RunnerFails, FailWith, RunnerCompletes, RequestApproval,
       ApprovalReturns, StoreCommits, StoreFailsOnce, StoreFailsTwice,
       OrphanFails, DeleteCommits, DeleteFails, Close
  <2>3. QED
    BY <2>2 DEF DownIsEmpty
<1>4. QED
  BY <1>1, <1>2, <1>3

\* The inductive invariant holds in every reachable state.
THEOREM ServiceInvariant == Spec => []ServiceInv
<1>1. ServiceInv /\ [Next]_vars => ServiceInv'
  BY TypePreserved, WorkerPreserved, QueuePreserved, DownPreserved DEF ServiceInv
<1>2. QED
  BY <1>1, InitInv, PTL DEF Spec

\* One task at a time, and an approval open exactly while the consumer waits.
THEOREM OneTaskAtATime == Spec => []WorkerConsistent
<1>1. ServiceInv => WorkerConsistent
  BY DEF ServiceInv
<1>2. QED
  BY <1>1, ServiceInvariant, PTL

----------------------------------------------------------------------------

\* A final status is never taken back, except by the report that the exchange
\* could not be stored.
THEOREM TerminalFinality == Spec => TerminalIsFinal
<1> DEFINE Kept1(t) ==
      status[t] \in Terminal /\ status'[t] # status[t] =>
         /\ status[t] = "completed"
         /\ status'[t] = "failed"
         /\ error'[t] = "storage"
<1>1. ASSUME ServiceInv, [Next]_vars, NEW t \in Tasks
      PROVE  Kept1(t)
  <2>1. status \in [Tasks -> Statuses] /\ error \in [Tasks -> {"none", "runner", "storage"}]
    BY <1>1 DEF ServiceInv, TypeOK
  <2>2. CASE status' = status
    BY <2>2
  <2>3. ASSUME NEW u \in Tasks, NEW v, status' = [status EXCEPT ![u] = v],
               status[u] \notin Terminal
        PROVE  Kept1(t)
    BY <2>1, <2>3
  <2>4. CASE \E u \in Tasks : Submit(u)
    BY <2>3, <2>4 DEF Submit, Terminal
  <2>5. CASE Take
    <3>1. queue \in Seq(Tasks) /\ queue # <<>> /\ status[queue[1]] = "queued"
      BY <1>1, <2>5 DEF Take, ServiceInv, TypeOK, QueueHoldsQueued
    <3>2. Head(queue) \in Tasks /\ status[Head(queue)] \notin Terminal
      BY <3>1, HeadTailProperties DEF Terminal
    <3>3. QED
      BY <2>3, <2>5, <3>2 DEF Take
  <2>6. pc \in {"list", "run", "approval"} =>
          cur \in Tasks /\ status[cur] \notin Terminal
    BY <1>1, HeldRecord DEF StatusAt, Terminal
  <2>7. CASE \/ HistoryListFails
             \/ \E b \in BOOLEAN : RunnerFails(b) \/ RunnerCompletes(b)
             \/ RequestApproval
             \/ ApprovalReturns
    BY <2>3, <2>6, <2>7 DEF HistoryListFails, RunnerFails, RunnerCompletes,
       FailWith, RequestApproval, ApprovalReturns
  <2>8. CASE \E u \in Tasks : StoreFailsOnce(u)
    <3>1. pc = "store" /\ FailWith("storage", answer[cur])
      BY <2>8 DEF StoreFailsOnce
    <3>2. cur \in Tasks /\ status[cur] = "completed"
      BY <1>1, <3>1, HeldRecord DEF StatusAt
    <3>3. QED
      BY <2>1, <3>1, <3>2 DEF FailWith
  <2>9. CASE Close
    BY <2>1, <2>6, <2>9 DEF Close
  <2>10. CASE Exit \/ Crash
    BY <2>1, <2>10 DEF Exit, Crash, MemoryLost, Active, Terminal
  <2>11. CASE \/ Start
              \/ \E u \in Tasks, approved \in BOOLEAN : Decide(u, approved)
              \/ \E c \in Conversations : RequestDelete(c) \/ DeleteEnds(c)
              \/ HistoryListed
              \/ \E u \in Tasks : StoreCommits(u) \/ StoreFailsTwice(u) \/ OrphanFails(u)
              \/ UNCHANGED vars
    BY <2>2, <2>11 DEF Start, Decide, RequestDelete, DeleteEnds, DeleteCommits,
       DeleteFails, HistoryListed, StoreCommits, StoreFailsTwice, OrphanFails,
       vars, memory
  <2>12. QED
    BY <1>1, <2>4, <2>5, <2>7, <2>8, <2>9, <2>10, <2>11
    DEF Next, Client, Consumer, Store, StoreEnds, Process
<1>2. ServiceInv /\ [Next]_vars => [\A t \in Tasks : Kept1(t)]_<<status, error>>
  BY <1>1
<1>3. QED
  BY <1>2, ServiceInvariant, PTL DEF Spec, TerminalIsFinal

\* The first decision on an approval request is the one that counts.
THEOREM DecisionFinality == Spec => DecisionIsFinal
<1> DEFINE Once(t) ==
      /\ future[t] \in {"approved", "denied"} => future'[t] \in {future[t], "none"}
      /\ future[t] = "none" => future'[t] \in {"none", "pending"}
<1>1. ASSUME ServiceInv, [Next]_vars, NEW t \in Tasks
      PROVE  Once(t)
  <2>1. future \in [Tasks -> {"none", "pending", "approved", "denied"}]
    BY <1>1 DEF ServiceInv, TypeOK
  <2>2. CASE future' = future
    BY <2>2
  <2>3. CASE \E u \in Tasks, approved \in BOOLEAN : Decide(u, approved)
    BY <2>1, <2>3 DEF Decide
  <2>4. CASE RequestApproval
    <3>1. cur \in Tasks /\ future[cur] = "none"
      BY <1>1, <2>4, HeldRecord
      DEF RequestApproval, ServiceInv, WorkerConsistent
    <3>2. QED
      BY <2>1, <2>4, <3>1 DEF RequestApproval
  <2>5. CASE ApprovalReturns
    BY <2>1, <2>5 DEF ApprovalReturns
  <2>6. CASE Close \/ Exit \/ Crash
    BY <2>1, <2>6 DEF Close, Exit, Crash, MemoryLost
  <2>7. CASE \/ Start
             \/ \E u \in Tasks : Submit(u) \/ StoreEnds(u)
             \/ \E c \in Conversations : RequestDelete(c) \/ DeleteEnds(c)
             \/ Take \/ HistoryListed \/ HistoryListFails
             \/ \E b \in BOOLEAN : RunnerFails(b) \/ RunnerCompletes(b)
             \/ UNCHANGED vars
    BY <2>2, <2>7 DEF Start, Submit, StoreEnds, RequestDelete, DeleteEnds, Take,
       DeleteCommits, DeleteFails, HistoryListed, HistoryListFails, RunnerFails,
       FailWith, RunnerCompletes, StoreCommits, StoreFailsOnce, StoreFailsTwice,
       OrphanFails, vars, memory
  <2>8. QED
    BY <1>1, <2>3, <2>4, <2>5, <2>6, <2>7 DEF Next, Client, Consumer, Store, Process
<1>2. ServiceInv /\ [Next]_vars => [\A t \in Tasks : Once(t)]_future
  BY <1>1
<1>3. QED
  BY <1>2, ServiceInvariant, PTL DEF Spec, DecisionIsFinal

----------------------------------------------------------------------------
(* Admission: queue and history keep their sizes, and a full history always has a record to  *)
(* evict for a submission that the queue can take.                                           *)

\* A set of natural numbers has a smallest element.
LEMMA SmallestOf ==
  ASSUME NEW T \in SUBSET Nat, T # {}
  PROVE  \E i \in T : \A j \in T : i <= j
PROOF
  <1>1. PICK i \in T : \A j \in T : ~(<<j, i>> \in OpToRel(<, Nat))
    BY NatLessThanWellFounded, WFMin
  <1>2. \A j \in T : ~(j < i)
    BY <1>1 DEF OpToRel
  <1>3. QED
    BY <1>2

\* The positions of a sequence of n elements are n.
LEMMA Positions ==
  ASSUME NEW n \in Nat
  PROVE  IsFiniteSet(1 .. n) /\ Cardinality(1 .. n) = n
  BY FS_Interval

\* A sequence without repetitions is no longer than a finite set of its elements is large.
LEMMA DistinctFits ==
  ASSUME NEW S, NEW s \in Seq(S), NEW T, IsFiniteSet(T),
         \A i \in 1 .. Len(s) : s[i] \in T,
         \A i, j \in 1 .. Len(s) : s[i] = s[j] => i = j
  PROVE  Len(s) <= Cardinality(T)
PROOF
  <1> DEFINE f == [i \in 1 .. Len(s) |-> s[i]]
  <1>1. f \in Injection(1 .. Len(s), T)
    BY DEF Injection, IsInjective
  <1> HIDE DEF f
  <1>2. Cardinality(1 .. Len(s)) <= Cardinality(T)
    BY <1>1, FS_Injection
  <1>3. Len(s) \in Nat
    OBVIOUS
  <1>4. Cardinality(1 .. Len(s)) = Len(s)
    BY <1>3, Positions
  <1>5. QED
    BY <1>2, <1>4

\* The elements of a sequence are finitely many, no more than it is long.
LEMMA ElementsCounted ==
  ASSUME NEW S, NEW s \in Seq(S)
  PROVE  LET T == {s[i] : i \in 1 .. Len(s)}
         IN  IsFiniteSet(T) /\ Cardinality(T) <= Len(s)
PROOF
  <1> DEFINE T == {s[i] : i \in 1 .. Len(s)}
             f == [i \in 1 .. Len(s) |-> s[i]]
  <1>1. Len(s) \in Nat
    OBVIOUS
  <1>2. IsFiniteSet(1 .. Len(s)) /\ Cardinality(1 .. Len(s)) = Len(s)
    BY <1>1, Positions
  <1>3. f \in Surjection(1 .. Len(s), T)
    BY DEF Surjection
  <1>4. QED
    BY <1>2, <1>3, FS_Surjection

\* Eviction takes one record that is over out and leaves the order of the others.
LEMMA KeptElements ==
  ASSUME TypeOK, NEW kept \in Kept
  PROVE  \/ kept = records
         \/ \E i \in 1 .. Len(records) :
              /\ status[records[i]] \in Terminal
              /\ Len(kept) = Len(records) - 1
              /\ \A k \in 1 .. Len(kept) :
                   kept[k] = records[IF k < i THEN k ELSE k + 1]
PROOF
  <1>1. CASE Len(records) < MaxHistory
    BY <1>1 DEF Kept
  <1>2. CASE ~(Len(records) < MaxHistory)
    <2>1. PICK i \in Evictable : kept = RemoveAt(records, i)
      BY <1>2 DEF Kept
    <2>2. records \in Seq(Tasks) /\ i \in 1 .. Len(records) /\ Len(records) \in Nat
      BY <2>1 DEF Evictable, TypeOK
    <2> DEFINE front == SubSeq(records, 1, i - 1)
               back == SubSeq(records, i + 1, Len(records))
    <2>3. /\ front \in Seq(Tasks) /\ Len(front) = i - 1
          /\ \A k \in 1 .. i - 1 : front[k] = records[k]
      BY <2>2, SubSeqProperties
    <2>4. /\ back \in Seq(Tasks) /\ Len(back) = Len(records) - i
          /\ \A k \in 1 .. Len(records) - i : back[k] = records[i + k]
      BY <2>2, SubSeqProperties
    <2>5. kept = front \o back
      BY <2>1 DEF RemoveAt
    <2> HIDE DEF front, back
    <2>6. /\ Len(kept) = Len(front) + Len(back)
          /\ \A k \in 1 .. Len(kept) :
               kept[k] = IF k <= Len(front) THEN front[k] ELSE back[k - Len(front)]
      <3>1. front \in Seq(Tasks) /\ back \in Seq(Tasks)
        BY <2>3, <2>4
      <3>2. /\ Len(front \o back) = Len(front) + Len(back)
            /\ \A k \in 1 .. Len(front) + Len(back) :
                 (front \o back)[k] = IF k <= Len(front) THEN front[k] ELSE back[k - Len(front)]
        BY <3>1, ConcatProperties
      <3>3. QED
        BY <2>5, <3>2
    <2>7. Len(kept) = Len(records) - 1
      BY <2>2, <2>3, <2>4, <2>6
    <2>8. ASSUME NEW k \in 1 .. Len(kept)
          PROVE  kept[k] = records[IF k < i THEN k ELSE k + 1]
      <3>1. CASE k < i
        BY <2>2, <2>3, <2>6, <2>7, <3>1
      <3>2. CASE ~(k < i)
        <4>1. k - (i - 1) \in 1 .. Len(records) - i /\ i + (k - (i - 1)) = k + 1
          BY <2>2, <2>7, <3>2
        <4>2. kept[k] = back[k - (i - 1)]
          BY <2>2, <2>3, <2>6, <2>7, <3>2
        <4>3. QED
          BY <2>4, <3>2, <4>1, <4>2
      <3>3. QED
        BY <3>1, <3>2
    <2>9. status[records[i]] \in Terminal
      BY <2>1 DEF Evictable
    <2>10. QED
      BY <2>2, <2>7, <2>8, <2>9
  <1>3. QED
    BY <1>1, <1>2

----------------------------------------------------------------------------

\* The invariant of admission.
AdmissionInv ==
  /\ ServiceInv
  /\ RecordsCounted
  /\ Len(queue) <= MaxQueue
  /\ Len(records) <= MaxHistory

\* As long as there is room in the queue, there is room in the history, or a record that
\* can go: the records that cannot are in the queue, or the one that is worked on.
LEMMA RoomOrEvictable ==
  ASSUME AdmissionInv, Len(queue) < MaxQueue
  PROVE  Kept # {}
PROOF
  <1>1. /\ records \in Seq(Tasks) /\ queue \in Seq(Tasks)
        /\ status \in [Tasks -> Statuses]
        /\ Len(records) \in Nat /\ Len(queue) \in Nat
    BY DEF AdmissionInv, ServiceInv, TypeOK
  <1>2. CASE Len(records) < MaxHistory
    BY <1>2 DEF Kept
  <1>3. CASE Evictable # {}
    <2>1. \E i \in Evictable : \A j \in Evictable : i <= j
      <3>1. Evictable \subseteq Nat
        BY <1>1 DEF Evictable
      <3>2. QED
        BY <1>3, <3>1, SmallestOf
    <2>2. QED
      BY <2>1 DEF Kept
  <1>4. CASE Len(records) = MaxHistory /\ Evictable = {}
    <2> DEFINE queued == {queue[i] : i \in 1 .. Len(queue)}
               held == {t \in Tasks : status[t] \in {"running", "waiting_approval"}}
    <2>1. IsFiniteSet(queued) /\ Cardinality(queued) <= Len(queue)
      BY <1>1, ElementsCounted
    <2>2. PICK x : held \subseteq {x}
      BY DEF AdmissionInv, RecordsCounted
    <2> HIDE DEF queued, held
    <2>3. /\ IsFiniteSet(queued \cup {x})
          /\ Cardinality(queued \cup {x}) <= Len(queue) + 1
      <3>1. Cardinality(queued) \in Nat
        BY <2>1, FS_CardinalityType
      <3>2. /\ IsFiniteSet(queued \cup {x})
            /\ Cardinality(queued \cup {x})
                 = IF x \in queued THEN Cardinality(queued) ELSE Cardinality(queued) + 1
        BY <2>1, FS_AddElement
      <3>3. QED
        BY <1>1, <2>1, <3>1, <3>2
    <2>4. ASSUME NEW i \in 1 .. Len(records)
          PROVE  records[i] \in queued \cup {x}
      <3>1. records[i] \in Tasks /\ status[records[i]] \in Active
        BY <1>1, <1>4 DEF AdmissionInv, RecordsCounted, Evictable, Statuses
      <3>2. CASE status[records[i]] = "queued"
        BY <3>1, <3>2 DEF AdmissionInv, RecordsCounted, queued
      <3>3. CASE status[records[i]] \in {"running", "waiting_approval"}
        BY <2>2, <3>1, <3>3 DEF held
      <3>4. QED
        BY <3>1, <3>2, <3>3 DEF Active
    <2>5. \A i, j \in 1 .. Len(records) : records[i] = records[j] => i = j
      BY DEF AdmissionInv, RecordsCounted
    <2>6. Len(records) <= Cardinality(queued \cup {x})
      BY <1>1, <2>3, <2>4, <2>5, DistinctFits
    <2>7. Cardinality(queued \cup {x}) \in Nat
      BY <2>3, FS_CardinalityType
    <2>8. MaxHistory <= Len(queue) + 1 /\ Len(queue) < MaxQueue
      BY <1>1, <1>4, <2>3, <2>6, <2>7
    <2>9. QED
      BY <1>1, <2>8
  <1>5. QED
    BY <1>1, <1>2, <1>3, <1>4 DEF AdmissionInv

----------------------------------------------------------------------------

LEMMA InitAdmission == Init => AdmissionInv
  BY InitInv DEF Init, AdmissionInv, RecordsCounted

\* A step that changes no list and at most the status of the record that is held.
LEMMA HeldStatusKept ==
  ASSUME AdmissionInv, pc \notin {"off", "get"}, records' = records, queue' = queue,
         NEW v \in {"running", "waiting_approval"} \cup Terminal,
         status' = [status EXCEPT ![cur] = v]
  PROVE  RecordsCounted'
PROOF
  <1>1. /\ cur \in Tasks /\ status[cur] # "queued" /\ phase = "up"
        /\ status \in [Tasks -> Statuses] /\ records \in Seq(Tasks)
    BY HeldRecord DEF AdmissionInv, ServiceInv, TypeOK
  <1>2. \A t \in Tasks : status[t] \in {"running", "waiting_approval"} => t = cur
    BY <1>1 DEF AdmissionInv, ServiceInv, WorkerConsistent
  <1>3. \A t \in Tasks : status'[t] = IF t = cur THEN v ELSE status[t]
    BY <1>1
  <1>4. \A i \in 1 .. Len(records') : status'[records'[i]] \notin {"new", "lost"}
    BY <1>1, <1>3 DEF AdmissionInv, RecordsCounted, Terminal
  <1>5. \A t \in Tasks : status'[t] = "queued" =>
          \E i \in 1 .. Len(queue') : queue'[i] = t
    BY <1>3 DEF AdmissionInv, RecordsCounted, Terminal
  <1>6. \A t, u \in Tasks :
          {status'[t], status'[u]} \subseteq {"running", "waiting_approval"} => t = u
    BY <1>2, <1>3
  <1>7. QED
    BY <1>4, <1>5, <1>6 DEF AdmissionInv, RecordsCounted

\* The submitted task is new to records and queue.
LEMMA SubmitCounted ==
  ASSUME AdmissionInv, NEW t \in Tasks, Submit(t)
  PROVE  /\ RecordsCounted'
         /\ Len(queue') <= MaxQueue
         /\ Len(records') <= MaxHistory
PROOF
  <1>1. /\ TypeOK /\ records \in Seq(Tasks) /\ queue \in Seq(Tasks)
        /\ status \in [Tasks -> Statuses]
        /\ Len(records) \in Nat /\ Len(queue) \in Nat
    BY DEF AdmissionInv, ServiceInv, TypeOK
  <1>2. PICK kept \in Kept : records' = Append(kept, t)
    BY DEF Submit
  <1>3. kept \in Seq(Tasks) /\ Len(kept) < MaxHistory
    BY <1>1, <1>2, KeptType DEF AdmissionInv
  <1>4. /\ Len(records') = Len(kept) + 1 /\ Len(kept) \in Nat
        /\ records'[Len(kept) + 1] = t
        /\ \A i \in 1 .. Len(kept) : records'[i] = kept[i]
    BY <1>2, <1>3, AppendProperties
  <1>5. /\ Len(queue') = Len(queue) + 1
        /\ queue'[Len(queue) + 1] = t
        /\ \A i \in 1 .. Len(queue) : queue'[i] = queue[i]
    BY <1>1, AppendProperties DEF Submit
  <1>6. status[t] = "new" /\ status' = [status EXCEPT ![t] = "queued"] /\ Len(queue) < MaxQueue
    BY DEF Submit
  <1>7. \A u \in Tasks : status'[u] = IF u = t THEN "queued" ELSE status[u]
    BY <1>1, <1>6
  <1>8. /\ \A i, j \in 1 .. Len(kept) : kept[i] = kept[j] => i = j
        /\ \A i \in 1 .. Len(kept) : kept[i] \in Tasks /\ status[kept[i]] \notin {"new", "lost"}
    <2>1. /\ \A i, j \in 1 .. Len(records) : records[i] = records[j] => i = j
          /\ \A i \in 1 .. Len(records) : status[records[i]] \notin {"new", "lost"}
      BY DEF AdmissionInv, RecordsCounted
    <2>2. CASE kept = records
      BY <1>1, <2>1, <2>2
    <2>3. CASE \E i \in 1 .. Len(records) :
                 /\ Len(kept) = Len(records) - 1
                 /\ \A k \in 1 .. Len(kept) :
                      kept[k] = records[IF k < i THEN k ELSE k + 1]
      <3>1. PICK i \in 1 .. Len(records) :
              /\ Len(kept) = Len(records) - 1
              /\ \A k \in 1 .. Len(kept) : kept[k] = records[IF k < i THEN k ELSE k + 1]
        BY <2>3
      <3>2. \A k \in 1 .. Len(kept) : (IF k < i THEN k ELSE k + 1) \in 1 .. Len(records)
        BY <1>1, <3>1
      <3>3. ASSUME NEW j \in 1 .. Len(kept), NEW k \in 1 .. Len(kept), kept[j] = kept[k]
            PROVE  j = k
        <4>1. (IF j < i THEN j ELSE j + 1) = (IF k < i THEN k ELSE k + 1)
          BY <2>1, <3>1, <3>2, <3>3
        <4>2. QED
          BY <1>1, <1>4, <4>1
      <3>4. \A k \in 1 .. Len(kept) : kept[k] \in Tasks
        BY <1>3
      <3>5. \A k \in 1 .. Len(kept) : status[kept[k]] \notin {"new", "lost"}
        BY <2>1, <3>1, <3>2
      <3>6. QED
        BY <3>3, <3>4, <3>5
    <2>4. QED
      BY <1>1, <1>2, <2>2, <2>3, KeptElements
  <1>9. \A i \in 1 .. Len(records') : status'[records'[i]] \notin {"new", "lost"}
    BY <1>4, <1>7, <1>8
  <1>10. ASSUME NEW i \in 1 .. Len(records'), NEW j \in 1 .. Len(records'),
                records'[i] = records'[j]
         PROVE  i = j
    <2>1. CASE i \in 1 .. Len(kept) /\ j \in 1 .. Len(kept)
      BY <1>4, <1>8, <1>10, <2>1
    <2>2. CASE i = Len(kept) + 1 \/ j = Len(kept) + 1
      BY <1>4, <1>6, <1>8, <1>10, <2>2
    <2>3. QED
      BY <1>4, <2>1, <2>2
  <1>11. ASSUME NEW u \in Tasks, status'[u] = "queued"
         PROVE  \E i \in 1 .. Len(queue') : queue'[i] = u
    <2>1. CASE u = t
      BY <1>1, <1>5, <2>1
    <2>2. CASE u # t
      <3>1. PICK i \in 1 .. Len(queue) : queue[i] = u
        BY <1>7, <1>11, <2>2 DEF AdmissionInv, RecordsCounted
      <3>2. QED
        BY <1>1, <1>5, <3>1
    <2>3. QED
      BY <2>1, <2>2
  <1>12. \A u, w \in Tasks :
           {status'[u], status'[w]} \subseteq {"running", "waiting_approval"} => u = w
    BY <1>7 DEF AdmissionInv, RecordsCounted
  <1>13. RecordsCounted'
    BY <1>9, <1>10, <1>11, <1>12 DEF RecordsCounted
  <1>14. QED
    BY <1>1, <1>3, <1>4, <1>5, <1>6, <1>13

\* The task that is taken from the queue is the one that is worked on.
LEMMA TakeCounted ==
  ASSUME AdmissionInv, Take
  PROVE  RecordsCounted' /\ Len(queue') < Len(queue)
PROOF
  <1>1. /\ records \in Seq(Tasks) /\ queue \in Seq(Tasks) /\ queue # <<>>
        /\ status \in [Tasks -> Statuses] /\ phase = "up" /\ cur = NoTask
    BY DEF AdmissionInv, ServiceInv, TypeOK, WorkerConsistent, Take
  <1>2. /\ Len(queue') = Len(queue) - 1
        /\ Head(queue) = queue[1] /\ Len(queue) \in Nat \ {0} /\ queue[1] \in Tasks
        /\ \A i \in 1 .. Len(queue') : queue'[i] = queue[i + 1]
    BY <1>1, HeadTailProperties DEF Take
  <1>3. /\ records' = records
        /\ \A t \in Tasks : status'[t] = IF t = queue[1] THEN "running" ELSE status[t]
    BY <1>1, <1>2 DEF Take
  <1>4. \A t \in Tasks : status[t] \notin {"running", "waiting_approval"}
    BY <1>1 DEF AdmissionInv, ServiceInv, WorkerConsistent
  <1>5. ASSUME NEW u \in Tasks, status'[u] = "queued"
        PROVE  \E i \in 1 .. Len(queue') : queue'[i] = u
    <2>1. u # queue[1] /\ status[u] = "queued"
      BY <1>3, <1>5
    <2>2. PICK i \in 1 .. Len(queue) : queue[i] = u
      BY <2>1 DEF AdmissionInv, RecordsCounted
    <2>3. i - 1 \in 1 .. Len(queue') /\ queue'[i - 1] = u
      BY <1>2, <2>1, <2>2
    <2>4. QED
      BY <2>3
  <1>6. \A i \in 1 .. Len(records') : status'[records'[i]] \notin {"new", "lost"}
    BY <1>1, <1>3 DEF AdmissionInv, RecordsCounted
  <1>7. \A t, u \in Tasks :
          {status'[t], status'[u]} \subseteq {"running", "waiting_approval"} => t = u
    BY <1>3, <1>4
  <1>8. RecordsCounted'
    BY <1>3, <1>5, <1>6, <1>7 DEF AdmissionInv, RecordsCounted
  <1>9. QED
    BY <1>2, <1>8

\* Closing leaves the queue and what is worked on, the end of the process neither.
LEMMA EndCounted ==
  ASSUME AdmissionInv, Close \/ Exit \/ Crash
  PROVE  RecordsCounted' /\ Len(queue') <= MaxQueue /\ Len(records') <= MaxHistory
PROOF
  <1>1. status \in [Tasks -> Statuses] /\ records \in Seq(Tasks)
    BY DEF AdmissionInv, ServiceInv, TypeOK
  <1>2. CASE Close
    <2>1. records' = records /\ queue' = queue
      BY <1>2 DEF Close
    <2>2. \A t \in Tasks : /\ status'[t] = "queued" <=> status[t] = "queued"
                           /\ status'[t] \in {"new", "lost"} <=> status[t] \in {"new", "lost"}
                           /\ status'[t] \in {"running", "waiting_approval"}
                                <=> status[t] \in {"running", "waiting_approval"}
      BY <1>1, <1>2 DEF Close, AdmissionInv, ServiceInv, WorkerConsistent, StatusAt
    <2>3. \A i \in 1 .. Len(records) : records[i] \in Tasks
      BY <1>1
    <2>4. QED
      BY <2>1, <2>2, <2>3 DEF AdmissionInv, RecordsCounted
  <1>3. CASE Exit \/ Crash
    <2>1. /\ records' = <<>> /\ queue' = <<>>
          /\ \A t \in Tasks : status'[t] \notin Active
      BY <1>1, <1>3 DEF Exit, Crash, MemoryLost, Active
    <2>2. Len(records') = 0 /\ Len(queue') = 0
      BY <2>1
    <2>3. QED
      BY <2>1, <2>2 DEF RecordsCounted, Active
  <1>4. QED
    BY <1>2, <1>3

LEMMA AdmissionPreserved ==
  ASSUME AdmissionInv, ServiceInv', [Next]_vars
  PROVE  AdmissionInv'
PROOF
  <1>1. CASE \E t \in Tasks : Submit(t)
    BY <1>1, SubmitCounted DEF AdmissionInv
  <1>2. CASE Take
    <2>1. queue \in Seq(Tasks) /\ queue' \in Seq(Tasks)
      BY DEF AdmissionInv, ServiceInv, TypeOK
    <2>2. Len(queue) \in Nat /\ Len(queue') \in Nat /\ records' = records
      BY <1>2, <2>1 DEF Take
    <2>3. QED
      BY <1>2, <2>2, TakeCounted DEF AdmissionInv
  <1>3. CASE Close \/ Exit \/ Crash
    BY <1>3, EndCounted DEF AdmissionInv
  <1>4. CASE \/ HistoryListFails
             \/ \E b \in BOOLEAN : RunnerFails(b) \/ RunnerCompletes(b)
             \/ RequestApproval
             \/ ApprovalReturns
             \/ \E t \in Tasks : StoreFailsOnce(t)
    <2>1. /\ pc \notin {"off", "get"} /\ records' = records /\ queue' = queue
          /\ \E v \in {"running", "waiting_approval"} \cup Terminal :
               status' = [status EXCEPT ![cur] = v]
      BY <1>4 DEF HistoryListFails, RunnerFails, RunnerCompletes, RequestApproval,
         ApprovalReturns, StoreFailsOnce, FailWith, Terminal
    <2>2. QED
      BY <2>1, HeldStatusKept DEF AdmissionInv
  <1>5. CASE \/ Start
             \/ \E t \in Tasks, approved \in BOOLEAN : Decide(t, approved)
             \/ \E c \in Conversations : RequestDelete(c) \/ DeleteEnds(c)
             \/ HistoryListed
             \/ \E t \in Tasks : StoreCommits(t) \/ StoreFailsTwice(t) \/ OrphanFails(t)
             \/ UNCHANGED vars
    <2>1. UNCHANGED <<records, queue, status>>
      BY <1>5 DEF Start, Decide, RequestDelete, DeleteEnds, DeleteCommits, DeleteFails,
         HistoryListed, StoreCommits, StoreFailsTwice, OrphanFails, vars, memory
    <2>2. QED
      BY <2>1 DEF AdmissionInv, RecordsCounted
  <1>6. QED
    BY <1>1, <1>2, <1>3, <1>4, <1>5 DEF Next, Client, Consumer, Store, StoreEnds, Process

\* The invariant of admission holds in every reachable state.
THEOREM AdmissionInvariant == Spec => []AdmissionInv
PROOF
  <1>1. AdmissionInv /\ ServiceInv' /\ [Next]_vars => AdmissionInv'
    BY AdmissionPreserved
  <1>2. QED
    BY <1>1, InitAdmission, ServiceInvariant, PTL DEF Spec

\* Queue and history stay within their sizes, and no submission that the queue has room
\* for is refused for want of a record to evict.
THEOREM AdmissionIsBounded == Spec => []AdmissionBounded
PROOF
  <1>1. AdmissionInv => AdmissionBounded
    BY RoomOrEvictable DEF AdmissionInv, AdmissionBounded
  <1>2. QED
    BY <1>1, AdmissionInvariant, PTL

----------------------------------------------------------------------------
(* The refinement: TaskService implements the safety part of TaskLifecycle.  It starts as    *)
(* the lifecycle starts, and each of its steps is a step of the lifecycle or changes nothing *)
(* that the lifecycle speaks of.                                                             *)

\* What the lifecycle sees of the service.
Seen == <<phase, queue, cur, status>>

\* The mapped line and the mapped lives.
Line == IF phase = "up" THEN queue ELSE <<>>
Life == [t \in Tasks |-> LifeOf(t)]

\* The lives that a service of a given phase and statuses shows.
LEMMA LifeChanges ==
  ASSUME NEW t \in Tasks, NEW x,
         \A u \in Tasks : LifeOf(u)' = IF u = t THEN x ELSE LifeOf(u)
  PROVE  Life' = [Life EXCEPT ![t] = x]
  BY DEF Life

LEMMA LifeStays ==
  ASSUME \A u \in Tasks : LifeOf(u)' = LifeOf(u)
  PROVE  Life' = Life
  BY DEF Life

\* A service that has not been started shows a lifecycle that has not.
LEMMA InitRefines == Init => Lifecycle!Init
  BY DEF Init, Lifecycle!Init, LifeOf, Active, Terminal

\* A server comes up with nobody in line and nothing to lose.
LEMMA StartOpens ==
  ASSUME ServiceInv, Start
  PROVE  Lifecycle!Next
PROOF
  <1>1. queue = <<>> /\ \A t \in Tasks : status[t] \notin Active
    BY DEF Start, ServiceInv, DownIsEmpty
  <1>2. phase = "down" /\ phase' = "up" /\ UNCHANGED <<queue, cur, status>>
    BY DEF Start, memory
  <1>3. \A t \in Tasks : LifeOf(t)' = LifeOf(t)
    BY <1>1, <1>2 DEF LifeOf, Active
  <1>4. Lifecycle!Open
    BY <1>1, <1>2, <1>3, LifeStays DEF Lifecycle!Open, Life
  <1>5. QED
    BY <1>4 DEF Lifecycle!Next

\* A submission that is taken is accepted.
LEMMA SubmitAccepts ==
  ASSUME ServiceInv, NEW t \in Tasks, Submit(t)
  PROVE  Lifecycle!Next
PROOF
  <1>1. /\ phase = "up" /\ phase' = "up" /\ cur' = cur
        /\ status[t] = "new" /\ Len(queue) < MaxQueue
        /\ queue' = Append(queue, t)
        /\ status' = [status EXCEPT ![t] = "queued"]
    BY DEF Submit
  <1>2. status \in [Tasks -> Statuses]
    BY DEF ServiceInv, TypeOK
  <1>3. LifeOf(t) = "absent"
    BY <1>1 DEF LifeOf
  <1>4. \A u \in Tasks : LifeOf(u)' = IF u = t THEN "queued" ELSE LifeOf(u)
    BY <1>1, <1>2 DEF LifeOf, Active
  <1>5. Life' = [Life EXCEPT ![t] = "queued"]
    BY <1>4, LifeChanges
  <1>6. Lifecycle!Accept(t)
    BY <1>1, <1>3, <1>5 DEF Lifecycle!Accept, Life
  <1>7. QED
    BY <1>6 DEF Lifecycle!Next

\* The record that the consumer takes is the head of the line.
LEMMA TakeBegins ==
  ASSUME ServiceInv, Take
  PROVE  Lifecycle!Next
PROOF
  <1>1. phase = "up" /\ cur = NoTask
    BY DEF Take, ServiceInv, WorkerConsistent
  <1>2. queue \in Seq(Tasks) /\ status \in [Tasks -> Statuses]
    BY DEF ServiceInv, TypeOK
  <1>3. Head(queue) \in Tasks
    BY <1>2, HeadTailProperties DEF Take
  <1>4. \A u \in Tasks : LifeOf(u)' = IF u = Head(queue) THEN "working" ELSE LifeOf(u)
    BY <1>1, <1>2, <1>3 DEF Take, LifeOf, Active
  <1>5. Life' = [Life EXCEPT ![Head(queue)] = "working"]
    BY <1>3, <1>4, LifeChanges
  <1>6. Lifecycle!Begin
    BY <1>1, <1>5 DEF Take, Lifecycle!Begin, Life
  <1>7. QED
    BY <1>6 DEF Lifecycle!Next

\* A result of the task that is worked on ends it, its exchange stored or not.
LEMMA ResultEnds ==
  ASSUME ServiceInv, pc \in {"list", "run"}, phase' = phase, queue' = queue,
         NEW r \in Terminal, status' = [status EXCEPT ![cur] = r],
         NEW settled \in BOOLEAN, cur' = IF settled THEN NoTask ELSE cur
  PROVE  Lifecycle!Next
PROOF
  <1>1. cur \in Tasks /\ phase = "up" /\ status[cur] = "running"
    BY DEF ServiceInv, TypeOK, WorkerConsistent, StatusAt
  <1>2. status \in [Tasks -> Statuses]
    BY DEF ServiceInv, TypeOK
  <1>3. LifeOf(cur) = "working"
    BY <1>1 DEF LifeOf, Active
  <1>4. \A u \in Tasks : LifeOf(u)' = IF u = cur THEN r ELSE LifeOf(u)
    BY <1>1, <1>2 DEF LifeOf, Active, Terminal
  <1>5. Life' = [Life EXCEPT ![cur] = r]
    BY <1>1, <1>4, LifeChanges
  <1>6. Lifecycle!End(cur, r, settled)
    BY <1>1, <1>3, <1>5 DEF Lifecycle!End, Life
  <1>7. QED
    BY <1>1, <1>6 DEF Lifecycle!Next, Lifecycle!Work, Terminal

\* The exchange of a completed task could not be stored: its result is revoked.
LEMMA StorageErrorRevokes ==
  ASSUME ServiceInv, NEW t \in Tasks, StoreFailsOnce(t)
  PROVE  Lifecycle!Next
PROOF
  <1>1. /\ cur \in Tasks /\ phase = "up" /\ status[cur] = "completed"
        /\ status \in [Tasks -> Statuses]
    BY DEF StoreFailsOnce, ServiceInv, TypeOK, WorkerConsistent, StatusAt
  <1>2. /\ status' = [status EXCEPT ![cur] = "failed"]
        /\ phase' = phase /\ queue' = queue /\ cur' = cur
    BY DEF StoreFailsOnce, FailWith
  <1>3. LifeOf(cur) = "completed"
    BY <1>1 DEF LifeOf, Active
  <1>4. \A u \in Tasks : LifeOf(u)' = IF u = cur THEN "failed" ELSE LifeOf(u)
    BY <1>1, <1>2 DEF LifeOf, Active
  <1>5. Life' = [Life EXCEPT ![cur] = "failed"]
    BY <1>1, <1>4, LifeChanges
  <1>6. Lifecycle!Revoke(cur)
    BY <1>1, <1>2, <1>3, <1>5 DEF Lifecycle!Revoke, Life
  <1>7. QED
    BY <1>1, <1>6 DEF Lifecycle!Next, Lifecycle!Work

\* The consumer returns to the queue once the exchange of its task is stored or lost.
LEMMA StoreSettles ==
  ASSUME ServiceInv, NEW t \in Tasks, t = cur, pc \in {"store", "fail"},
         StoreCommits(t) \/ StoreFailsTwice(t)
  PROVE  Lifecycle!Next
PROOF
  <1>1. cur \in Tasks /\ phase = "up" /\ status[cur] \in Terminal
    BY DEF ServiceInv, TypeOK, WorkerConsistent, StatusAt, Terminal
  <1>2. phase' = phase /\ queue' = queue /\ cur' = NoTask /\ status' = status
    BY DEF StoreCommits, StoreFailsTwice
  <1>3. LifeOf(cur) \in Terminal
    BY <1>1 DEF LifeOf, Active, Terminal
  <1>4. Life' = Life
    BY <1>2, LifeStays DEF LifeOf
  <1>5. Lifecycle!Settle(cur)
    BY <1>1, <1>2, <1>3, <1>4 DEF Lifecycle!Settle, Life, Terminal
  <1>6. QED
    BY <1>1, <1>5 DEF Lifecycle!Next, Lifecycle!Work

\* A live server that closes or dies loses what is not over.
LEMMA EndHalts ==
  ASSUME ServiceInv, phase = "up", Close \/ Crash
  PROVE  Lifecycle!Next
PROOF
  <1>1. status \in [Tasks -> Statuses]
    BY DEF ServiceInv, TypeOK
  <1>2. phase' # "up" /\ cur' = NoTask
    BY DEF Close, Crash, MemoryLost
  <1>3. \A u \in Tasks :
          LifeOf(u)' = IF LifeOf(u) \in {"queued", "working"} THEN "lost" ELSE LifeOf(u)
    <2>1. ASSUME NEW u \in Tasks, Close
          PROVE  status[u] \in Active <=> status'[u] \in Active
      BY <1>1, <2>1 DEF Close, Active, ServiceInv, WorkerConsistent, StatusAt
    <2>2. ASSUME NEW u \in Tasks, Close, status[u] \notin Active
          PROVE  status'[u] = status[u]
      BY <1>1, <2>2 DEF Close, Active, ServiceInv, WorkerConsistent, StatusAt
    <2>3. CASE Close
      BY <1>1, <1>2, <2>1, <2>2, <2>3 DEF LifeOf, Active, Statuses, Terminal
    <2>4. CASE Crash
      BY <1>1, <1>2, <2>4 DEF Crash, MemoryLost, LifeOf, Active, Statuses, Terminal
    <2>5. QED
      BY <2>3, <2>4
  <1>4. Life' = [t \in Tasks |-> IF Life[t] \in {"queued", "working"}
                                 THEN "lost" ELSE Life[t]]
    BY <1>3 DEF Life
  <1>5. Lifecycle!Halt
    BY <1>2, <1>4 DEF Lifecycle!Halt, Life
  <1>6. QED
    BY <1>5 DEF Lifecycle!Next

\* The steps that the lifecycle does not see.
LEMMA Stutters ==
  ASSUME ServiceInv, phase' = phase, Line' = Line, cur' = cur,
         \A u \in Tasks : LifeOf(u)' = LifeOf(u)
  PROVE  UNCHANGED Lifecycle!vars
  BY LifeStays DEF Lifecycle!vars, Life, Line

LEMMA SeenStutters ==
  ASSUME ServiceInv, UNCHANGED Seen
  PROVE  UNCHANGED Lifecycle!vars
  BY Stutters DEF Seen, Line, LifeOf

\* Waiting for an approval is working.
LEMMA ApprovalStutters ==
  ASSUME ServiceInv, RequestApproval \/ ApprovalReturns
  PROVE  UNCHANGED Lifecycle!vars
PROOF
  <1>1. /\ cur \in Tasks /\ phase = "up"
        /\ status[cur] \in {"running", "waiting_approval"}
        /\ status \in [Tasks -> Statuses]
    BY DEF RequestApproval, ApprovalReturns, ServiceInv, TypeOK, WorkerConsistent, StatusAt
  <1>2. /\ \E s \in {"running", "waiting_approval"} : status' = [status EXCEPT ![cur] = s]
        /\ phase' = phase /\ queue' = queue /\ cur' = cur
    BY DEF RequestApproval, ApprovalReturns
  <1>3. \A u \in Tasks : LifeOf(u)' = LifeOf(u)
    BY <1>1, <1>2 DEF LifeOf, Active
  <1>4. QED
    BY <1>2, <1>3, Stutters DEF Line

\* The end of a process that had closed loses nothing more.
LEMMA ExitStutters ==
  ASSUME ServiceInv, phase # "up", Exit \/ Crash
  PROVE  UNCHANGED Lifecycle!vars
PROOF
  <1>1. cur = NoTask /\ cur' = NoTask /\ phase' # "up"
    BY DEF Exit, Crash, MemoryLost, ServiceInv, WorkerConsistent
  <1>2. \A u \in Tasks : LifeOf(u)' = LifeOf(u)
    BY <1>1 DEF Exit, Crash, MemoryLost, ServiceInv, TypeOK, LifeOf, Active, Statuses, Terminal
  <1>3. QED
    BY <1>1, <1>2, LifeStays DEF Lifecycle!vars, Life

\* Every step of the service is one of the lifecycle, or none.
LEMMA StepRefines ==
  ASSUME ServiceInv, [Next]_vars
  PROVE  [Lifecycle!Next]_(Lifecycle!vars)
PROOF
  <1>1. CASE Start
    BY <1>1, StartOpens
  <1>2. CASE \E t \in Tasks : Submit(t)
    BY <1>2, SubmitAccepts
  <1>3. CASE Take
    BY <1>3, TakeBegins
  <1>4. CASE HistoryListFails \/ \E b \in BOOLEAN : RunnerFails(b)
    <2>1. /\ pc \in {"list", "run"} /\ phase' = phase /\ queue' = queue
          /\ status' = [status EXCEPT ![cur] = "failed"] /\ cur' = cur
      BY <1>4 DEF HistoryListFails, RunnerFails, FailWith
    <2>2. QED
      BY <2>1, ResultEnds DEF Terminal
  <1>5. ASSUME NEW b \in BOOLEAN, RunnerCompletes(b) PROVE Lifecycle!Next
    <2>1. /\ pc = "run" /\ phase' = phase /\ queue' = queue
          /\ status' = [status EXCEPT ![cur] = "completed"]
          /\ cur' = IF ~b THEN NoTask ELSE cur
      BY <1>5 DEF RunnerCompletes
    <2>2. QED
      BY <2>1, ResultEnds DEF Terminal
  <1>6. CASE RequestApproval \/ ApprovalReturns
    BY <1>6, ApprovalStutters
  <1>7. CASE \E t \in Tasks : StoreFailsOnce(t)
    BY <1>7, StorageErrorRevokes
  <1>8. ASSUME NEW t \in Tasks, StoreCommits(t) \/ StoreFailsTwice(t)
        PROVE  [Lifecycle!Next]_(Lifecycle!vars)
    <2>1. CASE t = cur
      <3>1. pc \in {"store", "fail"}
        <4>1. phase = "up" /\ t \in writing
          BY <1>8, <2>1, NoTaskAssumption
             DEF StoreCommits, StoreFailsTwice, ServiceInv, TypeOK, WorkerConsistent
        <4>2. QED
          BY <4>1 DEF ServiceInv, WorkerConsistent
      <3>2. QED
        BY <1>8, <2>1, <3>1, StoreSettles
    <2>2. CASE t # cur
      BY <1>8, <2>2, SeenStutters DEF StoreCommits, StoreFailsTwice, Seen
    <2>3. QED
      BY <2>1, <2>2
  <1>9. CASE Close
    BY <1>9, EndHalts DEF Close
  <1>10. CASE Exit \/ Crash
    <2>1. CASE phase = "up"
      BY <1>10, <2>1, EndHalts DEF Exit
    <2>2. CASE phase # "up"
      BY <1>10, <2>2, ExitStutters
    <2>3. QED
      BY <2>1, <2>2
  <1>11. CASE \/ \E t \in Tasks, approved \in BOOLEAN : Decide(t, approved)
              \/ \E c \in Conversations : RequestDelete(c) \/ DeleteEnds(c)
              \/ HistoryListed
              \/ \E t \in Tasks : OrphanFails(t)
              \/ UNCHANGED vars
    <2>1. UNCHANGED Seen
      BY <1>11 DEF Decide, RequestDelete, DeleteEnds, DeleteCommits, DeleteFails,
         HistoryListed, OrphanFails, vars, memory, Seen
    <2>2. QED
      BY <2>1, SeenStutters
  <1>12. QED
    BY <1>1, <1>2, <1>3, <1>4, <1>5, <1>6, <1>7, <1>8, <1>9, <1>10, <1>11
    DEF Next, Client, Consumer, Store, StoreEnds, Process

\* What TaskLifecycle promises, but for its fairness: acceptance within the capacity,
\* one task at a time in the order of submission, results that stay but for a storage
\* error, and losses at the end of a server only.
THEOREM ServiceRefinesLifecycle ==
  Spec => Lifecycle!Init /\ [][Lifecycle!Next]_(Lifecycle!vars)
PROOF
  <1>1. Init => Lifecycle!Init
    BY InitRefines
  <1>2. ServiceInv /\ [Next]_vars => [Lifecycle!Next]_(Lifecycle!vars)
    BY StepRefines
  <1>3. QED
    BY <1>1, <1>2, ServiceInvariant, PTL DEF Spec
----------------------------------------------------------------------------
(* Order: the queue is the queued records in the order of submission, the database has the   *)
(* exchanges of a conversation in that order, and a task sees what its predecessors left.    *)
(* First what `Those' does with a sequence, by induction over its positions.                 *)

\* A set that has 0, and i with i - 1, has everything up to n.
LEMMA UpTo ==
  ASSUME NEW n \in Nat, NEW P, 0 \in P, \A i \in 1 .. n : i - 1 \in P => i \in P
  PROVE  \A i \in 0 .. n : i \in P
PROOF
  <1> DEFINE T == {i \in 0 .. n : i \notin P}
  <1>1. SUFFICES ASSUME T # {} PROVE FALSE
    OBVIOUS
  <1>2. T \in SUBSET Nat
    OBVIOUS
  <1>3. PICK i \in T : \A j \in T : i <= j
    BY <1>1, <1>2, SmallestOf
  <1>4. i \in 1 .. n /\ i - 1 \in 0 .. n /\ ~(i <= i - 1)
    BY <1>3
  <1>5. i - 1 \in P
    BY <1>3, <1>4
  <1>6. QED
    BY <1>3, <1>4, <1>5

\* One element more, if it is one of those.
Longer(q, s, S, i) == IF s[i] \in S THEN Append(q, s[i]) ELSE q

\* f is the function that Those(s, S) defines, as far as n.
Chain(f, s, S, n) == f = [i \in 0 .. n |-> IF i = 0 THEN <<>> ELSE Longer(f[i - 1], s, S, i)]

LEMMA ChainExists ==
  ASSUME NEW s, NEW S, NEW n \in Nat
  PROVE  \E f : Chain(f, s, S, n)
PROOF
  <1> DEFINE P == {m \in Nat : \E f : Chain(f, s, S, m)}
  <1>1. 0 \in P
    <2> DEFINE f == [i \in 0 .. 0 |-> <<>>]
    <2>1. f = [i \in 0 .. 0 |-> IF i = 0 THEN <<>> ELSE Longer(f[i - 1], s, S, i)]
      OBVIOUS
    <2>2. Chain(f, s, S, 0)
      BY <2>1, Zenon DEF Chain
    <2>3. QED
      BY <2>2
  <1>2. ASSUME NEW m \in 1 .. n, m - 1 \in P
        PROVE  m \in P
    <2>1. PICK p : p = m - 1
      OBVIOUS
    <2>2. p \in Nat /\ m = p + 1 /\ m \notin 0 .. p /\ m \in 0 .. m /\ m \in Nat
      BY <2>1
    <2>3. PICK f : Chain(f, s, S, p)
      BY <1>2, <2>1
    <2>4. f = [i \in 0 .. p |-> IF i = 0 THEN <<>> ELSE Longer(f[i - 1], s, S, i)]
      BY <2>3, Zenon DEF Chain
    <2>5. PICK last : last = Longer(f[p], s, S, m)
      OBVIOUS
    <2>6. PICK g : g = [i \in 0 .. m |-> IF i = m THEN last ELSE f[i]]
      OBVIOUS
    <2>7. ASSUME NEW i \in 0 .. m
          PROVE  g[i] = IF i = 0 THEN <<>> ELSE Longer(g[i - 1], s, S, i)
      <3>1. CASE i = m
        <4>1. g[i] = last /\ i # 0 /\ i - 1 = p /\ p \in 0 .. m /\ p # m
          BY <2>2, <2>6, <3>1
        <4>2. g[p] = f[p]
          BY <2>6, <4>1
        <4>3. QED
          BY <2>5, <3>1, <4>1, <4>2
      <3>2. CASE i # m /\ i = 0
        <4>1. g[i] = f[i] /\ i \in 0 .. p
          BY <2>2, <2>6, <3>2
        <4>2. QED
          BY <2>4, <3>2, <4>1
      <3>3. CASE i # m /\ i # 0
        <4>1. g[i] = f[i] /\ i \in 0 .. p /\ i - 1 \in 0 .. m /\ i - 1 # m
          BY <2>2, <2>6, <3>3
        <4>2. g[i - 1] = f[i - 1]
          BY <2>6, <4>1
        <4>3. f[i] = Longer(f[i - 1], s, S, i)
          BY <2>4, <3>3, <4>1
        <4>4. QED
          BY <3>3, <4>1, <4>2, <4>3
      <3>4. QED
        BY <3>1, <3>2, <3>3
    <2>8. g = [i \in 0 .. m |-> IF i = 0 THEN <<>> ELSE Longer(g[i - 1], s, S, i)]
      BY <2>6, <2>7
    <2>9. Chain(g, s, S, m)
      BY <2>8, Zenon DEF Chain
    <2>10. QED
      BY <2>2, <2>9
  <1> HIDE DEF P
  <1>3. n \in P
    <2>1. n \in 0 .. n
      OBVIOUS
    <2>2. QED
      BY <1>1, <1>2, <2>1, UpTo
  <1>4. QED
    BY <1>3 DEF P

\* The steps that lead to Those(s, S).
Steps(f, s, S) ==
  /\ f[0] = <<>>
  /\ \A i \in 1 .. Len(s) : f[i] = Longer(f[i - 1], s, S, i)

LEMMA ThoseIs ==
  ASSUME NEW T, NEW s \in Seq(T), NEW S
  PROVE  \E f : Steps(f, s, S) /\ Those(s, S) = f[Len(s)]
PROOF
  <1>1. Len(s) \in Nat
    OBVIOUS
  <1>2. PICK f : f = CHOOSE g : Chain(g, s, S, Len(s))
    OBVIOUS
  <1>3. Those(s, S) = f[Len(s)]
    BY <1>2, Zenon DEF Those, Chain, Longer
  <1>4. Chain(f, s, S, Len(s))
    BY <1>1, <1>2, ChainExists
  <1>5. f = [i \in 0 .. Len(s) |-> IF i = 0 THEN <<>> ELSE Longer(f[i - 1], s, S, i)]
    BY <1>4, Zenon DEF Chain
  <1>6. \A i \in 0 .. Len(s) : f[i] = IF i = 0 THEN <<>> ELSE Longer(f[i - 1], s, S, i)
    BY <1>5, Zenon
  <1>7. Steps(f, s, S)
    BY <1>1, <1>6 DEF Steps
  <1>8. QED
    BY <1>3, <1>7

\* What a step leads to is determined by the steps.
LEMMA StepsAre ==
  ASSUME NEW T, NEW s \in Seq(T), NEW S, NEW f, Steps(f, s, S)
  PROVE  Those(s, S) = f[Len(s)]
PROOF
  <1>1. PICK g : Steps(g, s, S) /\ Those(s, S) = g[Len(s)]
    BY ThoseIs
  <1> DEFINE P == {i \in Nat : f[i] = g[i]}
  <1>2. 0 \in P
    BY <1>1 DEF Steps
  <1>3. ASSUME NEW i \in 1 .. Len(s), i - 1 \in P
        PROVE  i \in P
    BY <1>1, <1>3 DEF Steps
  <1> HIDE DEF P
  <1>4. Len(s) \in Nat /\ Len(s) \in 0 .. Len(s)
    OBVIOUS
  <1>5. Len(s) \in P
    BY <1>2, <1>3, <1>4, UpTo
  <1>6. QED
    BY <1>1, <1>5 DEF P

\* The steps are sequences of the same elements.
LEMMA StepsType ==
  ASSUME NEW T, NEW s \in Seq(T), NEW S, NEW f, Steps(f, s, S)
  PROVE  \A i \in 0 .. Len(s) : f[i] \in Seq(T)
PROOF
  <1> DEFINE P == {i \in Nat : f[i] \in Seq(T)}
  <1>1. 0 \in P
    BY EmptySeq DEF Steps
  <1>2. ASSUME NEW i \in 1 .. Len(s), i - 1 \in P
        PROVE  i \in P
    <2>1. f[i] = Longer(f[i - 1], s, S, i) /\ s[i] \in T /\ f[i - 1] \in Seq(T)
      BY <1>2 DEF Steps
    <2>2. Append(f[i - 1], s[i]) \in Seq(T)
      BY <2>1, AppendProperties
    <2>3. Longer(f[i - 1], s, S, i) \in Seq(T)
      BY <2>1, <2>2, Zenon DEF Longer
    <2>4. QED
      BY <2>1, <2>3
  <1> HIDE DEF P
  <1>3. \A i \in 0 .. Len(s) : i \in P
    <2>1. Len(s) \in Nat
      OBVIOUS
    <2>2. QED
      BY <1>1, <1>2, <2>1, UpTo
  <1>4. QED
    BY <1>3 DEF P

LEMMA ThoseType ==
  ASSUME NEW T, NEW s \in Seq(T), NEW S
  PROVE  Those(s, S) \in Seq(T)
PROOF
  <1>1. PICK f : Steps(f, s, S) /\ Those(s, S) = f[Len(s)]
    BY ThoseIs
  <1>2. Len(s) \in 0 .. Len(s)
    OBVIOUS
  <1>3. QED
    BY <1>1, <1>2, StepsType

\* Sets that agree on the elements of a sequence choose the same.
LEMMA ThoseAgree ==
  ASSUME NEW T, NEW s \in Seq(T), NEW R, NEW S,
         \A i \in 1 .. Len(s) : s[i] \in R <=> s[i] \in S
  PROVE  Those(s, R) = Those(s, S)
PROOF
  <1>1. PICK f : Steps(f, s, R) /\ Those(s, R) = f[Len(s)]
    BY ThoseIs
  <1>2. Steps(f, s, S)
    BY <1>1 DEF Steps, Longer
  <1>3. QED
    BY <1>1, <1>2, StepsAre

\* Nothing is chosen where nothing is to be found.
LEMMA ThoseNone ==
  ASSUME NEW T, NEW s \in Seq(T), NEW S, \A i \in 1 .. Len(s) : s[i] \notin S
  PROVE  Those(s, S) = <<>>
PROOF
  <1> DEFINE f == [i \in 0 .. Len(s) |-> <<>>]
  <1>1. Len(s) \in Nat
    OBVIOUS
  <1>2. Steps(f, s, S)
    BY <1>1 DEF Steps, Longer
  <1>3. f[Len(s)] = <<>>
    BY <1>1
  <1>4. QED
    BY <1>2, <1>3, StepsAre

LEMMA ThoseEmpty ==
  ASSUME NEW S
  PROVE  Those(<<>>, S) = <<>>
PROOF
  <1>1. <<>> \in Seq(S) /\ Len(<<>>) = 0
    BY EmptySeq
  <1>2. \A i \in 1 .. Len(<<>>) : FALSE
    BY <1>1
  <1>3. QED
    BY <1>1, <1>2, ThoseNone

\* An element that is added comes last.
LEMMA ThoseAppend ==
  ASSUME NEW T, NEW s \in Seq(T), NEW S, NEW x \in T
  PROVE  Those(Append(s, x), S) = IF x \in S THEN Append(Those(s, S), x) ELSE Those(s, S)
PROOF
  <1>1. PICK f : Steps(f, s, S) /\ Those(s, S) = f[Len(s)]
    BY ThoseIs
  <1>2. PICK n : n = Len(s)
    OBVIOUS
  <1>3. PICK t : t = Append(s, x)
    OBVIOUS
  <1>4. /\ n \in Nat /\ t \in Seq(T) /\ Len(t) = n + 1 /\ t[n + 1] = x
        /\ \A i \in 1 .. n : t[i] = s[i]
    BY <1>2, <1>3, AppendProperties
  <1>5. PICK last : last = IF x \in S THEN Append(f[n], x) ELSE f[n]
    OBVIOUS
  <1>6. PICK g : g = [i \in 0 .. n + 1 |-> IF i = n + 1 THEN last ELSE f[i]]
    OBVIOUS
  <1>7. g[n + 1] = last /\ \A i \in 0 .. n : g[i] = f[i]
    BY <1>4, <1>6
  <1>8. Steps(g, t, S)
    <2>1. g[0] = <<>>
      BY <1>1, <1>4, <1>7 DEF Steps
    <2>2. ASSUME NEW i \in 1 .. n
          PROVE  g[i] = Longer(g[i - 1], t, S, i)
      <3>1. g[i] = f[i] /\ g[i - 1] = f[i - 1] /\ t[i] = s[i]
        BY <1>4, <1>7
      <3>2. QED
        BY <1>1, <1>2, <3>1 DEF Steps, Longer
    <2>3. ASSUME NEW i, i = n + 1
          PROVE  g[i] = Longer(g[i - 1], t, S, i)
      <3>1. i - 1 = n /\ g[n] = f[n] /\ g[i] = last /\ t[i] = x
        BY <1>4, <1>7, <2>3
      <3>2. QED
        BY <1>5, <3>1 DEF Longer
    <2>4. \A i \in 1 .. Len(t) : i \in 1 .. n \/ i = n + 1
      BY <1>4
    <2>5. ASSUME NEW i \in 1 .. Len(t)
          PROVE  g[i] = Longer(g[i - 1], t, S, i)
      <3>1. CASE i \in 1 .. n
        BY <2>2, <3>1
      <3>2. CASE i = n + 1
        BY <2>3, <3>2
      <3>3. QED
        BY <2>4, <3>1, <3>2
    <2>6. QED
      BY <2>1, <2>5, Zenon DEF Steps
  <1>9. Those(t, S) = g[n + 1]
    BY <1>4, <1>8, StepsAre
  <1>10. QED
    BY <1>1, <1>2, <1>3, <1>5, <1>7, <1>9

\* t is s without its element p.
Without(s, p, t) ==
  /\ p \in 1 .. Len(s) /\ Len(t) = Len(s) - 1
  /\ \A k \in 1 .. Len(t) : t[k] = s[IF k < p THEN k ELSE k + 1]

\* Taking out an element that is not chosen makes no difference.
LEMMA ThoseRemoved ==
  ASSUME NEW T, NEW s \in Seq(T), NEW S, NEW t \in Seq(T), NEW p, Without(s, p, t),
         s[p] \notin S
  PROVE  Those(t, S) = Those(s, S)
PROOF
  <1>0. /\ p \in 1 .. Len(s) /\ Len(t) = Len(s) - 1
        /\ \A k \in 1 .. Len(t) : t[k] = s[IF k < p THEN k ELSE k + 1]
    BY DEF Without
  <1>1. PICK f : Steps(f, s, S) /\ Those(s, S) = f[Len(s)]
    BY ThoseIs
  <1>2. PICK n : n = Len(t)
    OBVIOUS
  <1>3. n \in Nat /\ Len(s) = n + 1 /\ p \in 1 .. n + 1
    BY <1>0, <1>2
  <1>4. PICK g : g = [i \in 0 .. n |-> IF i < p THEN f[i] ELSE f[i + 1]]
    OBVIOUS
  <1>5. \A i \in 0 .. n : g[i] = IF i < p THEN f[i] ELSE f[i + 1]
    BY <1>4
  <1>6. f[p] = f[p - 1]
    BY <1>0, <1>1 DEF Steps, Longer
  <1>7. ASSUME NEW i \in 1 .. n
        PROVE  g[i] = Longer(g[i - 1], t, S, i)
    <2>0. t[i] = s[IF i < p THEN i ELSE i + 1]
      BY <1>0, <1>2
    <2>1. CASE i < p
      <3>1. i - 1 < p /\ i \in 0 .. n /\ i - 1 \in 0 .. n /\ i \in 1 .. Len(s)
        BY <1>3, <2>1
      <3>2. g[i] = f[i] /\ g[i - 1] = f[i - 1] /\ t[i] = s[i]
        BY <1>5, <2>0, <2>1, <3>1
      <3>3. f[i] = Longer(f[i - 1], s, S, i)
        BY <1>1, <3>1 DEF Steps
      <3>4. QED
        BY <3>2, <3>3 DEF Longer
    <2>2. CASE ~(i < p)
      <3>0. i \in 0 .. n /\ i + 1 \in 1 .. Len(s) /\ (i + 1) - 1 = i
        BY <1>3
      <3>1. g[i] = f[i + 1] /\ t[i] = s[i + 1] /\ i + 1 \in 1 .. Len(s) /\ (i + 1) - 1 = i
        BY <1>5, <2>0, <2>2, <3>0
      <3>2. g[i - 1] = f[i]
        <4>1. CASE i = p
          BY <1>3, <1>5, <1>6, <4>1
        <4>2. CASE i # p
          <5>1. ~(i - 1 < p) /\ i - 1 \in 0 .. n /\ (i - 1) + 1 = i
            BY <1>3, <2>2, <4>2
          <5>2. QED
            BY <1>5, <5>1
        <4>3. QED
          BY <4>1, <4>2
      <3>3. f[i + 1] = Longer(f[i], s, S, i + 1)
        BY <1>1, <3>1 DEF Steps
      <3>4. QED
        BY <3>1, <3>2, <3>3 DEF Longer
    <2>3. QED
      BY <2>1, <2>2
  <1>8. g[0] = <<>>
    BY <1>1, <1>3, <1>5 DEF Steps
  <1>9. Steps(g, t, S)
    BY <1>2, <1>7, <1>8 DEF Steps
  <1>10. g[n] = f[n + 1]
    <2>1. CASE n < p
      <3>1. n = p - 1 /\ n + 1 = p
        BY <1>3, <2>1
      <3>2. QED
        BY <1>3, <1>5, <1>6, <3>1
    <2>2. CASE ~(n < p)
      BY <1>3, <1>5, <2>2
    <2>3. QED
      BY <2>1, <2>2
  <1>11. QED
    BY <1>1, <1>2, <1>3, <1>9, <1>10, StepsAre

\* Without the first that is chosen, the others stay in their order.
LEMMA ThoseTail ==
  ASSUME NEW T, NEW s \in Seq(T), NEW S, NEW p \in 1 .. Len(s), s[p] \in S,
         \A i \in 1 .. Len(s) : s[i] = s[p] => i = p,
         \A i \in 1 .. p - 1 : s[i] \notin S
  PROVE  /\ Those(s, S) # <<>>
         /\ Head(Those(s, S)) = s[p]
         /\ Those(s, S \ {s[p]}) = Tail(Those(s, S))
PROOF
  <1>0. PICK R : R = S \ {s[p]}
    OBVIOUS
  <1>1. PICK f : Steps(f, s, S) /\ Those(s, S) = f[Len(s)]
    BY ThoseIs
  <1>2. PICK g : Steps(g, s, R) /\ Those(s, R) = g[Len(s)]
    BY ThoseIs
  <1>3. /\ \A i \in 0 .. Len(s) : f[i] \in Seq(T)
        /\ Len(s) \in Nat /\ p \in Nat /\ p >= 1 /\ p <= Len(s)
        /\ \A i \in 1 .. Len(s) : s[i] \in T
    BY <1>1, StepsType
  <1> DEFINE P == {i \in 0 .. Len(s) :
                     /\ i < p => f[i] = <<>> /\ g[i] = <<>>
                     /\ i >= p => f[i] # <<>> /\ Head(f[i]) = s[p] /\ g[i] = Tail(f[i])}
  <1>4. 0 \in P
    BY <1>1, <1>2, <1>3 DEF Steps
  <1>5. ASSUME NEW i \in 1 .. Len(s), i - 1 \in P
        PROVE  i \in P
    <2>1. /\ f[i] = Longer(f[i - 1], s, S, i) /\ g[i] = Longer(g[i - 1], s, R, i)
          /\ f[i - 1] \in Seq(T) /\ i - 1 \in 0 .. Len(s) /\ i \in 0 .. Len(s)
      <3>1. i - 1 \in 0 .. Len(s) /\ i \in 0 .. Len(s)
        BY <1>3
      <3>2. QED
        BY <1>1, <1>2, <1>3, <3>1 DEF Steps
    <2>2. CASE i < p
      <3>1. s[i] \notin S /\ s[i] \notin R /\ i - 1 < p /\ ~(i >= p)
        BY <1>0, <1>3, <2>2
      <3>2. f[i] = f[i - 1] /\ g[i] = g[i - 1]
        BY <2>1, <3>1 DEF Longer
      <3>3. f[i - 1] = <<>> /\ g[i - 1] = <<>>
        BY <1>5, <3>1
      <3>4. QED
        BY <2>1, <3>1, <3>2, <3>3
    <2>3. CASE i = p
      <3>1. i - 1 < p /\ ~(i < p) /\ s[i] \notin R
        BY <1>0, <1>3, <2>3
      <3>2. f[i - 1] = <<>> /\ g[i - 1] = <<>>
        BY <1>5, <3>1
      <3>3. f[i] = Append(<<>>, s[p]) /\ g[i] = <<>>
        BY <2>1, <2>3, <3>1, <3>2 DEF Longer
      <3>4. /\ Append(<<>>, s[p]) # <<>> /\ Head(Append(<<>>, s[p])) = s[p]
            /\ Tail(Append(<<>>, s[p])) = <<>>
        <4>1. <<>> \in Seq(T) /\ s[p] \in T
          BY <1>3, EmptySeq
        <4>2. QED
          BY <4>1, AppendProperties, HeadTailAppend
      <3>5. QED
        BY <2>1, <3>1, <3>3, <3>4
    <2>4. CASE i > p
      <3>1. i - 1 >= p /\ ~(i < p) /\ s[i] # s[p] /\ (s[i] \in R <=> s[i] \in S)
        BY <1>0, <1>3, <2>4
      <3>2. f[i - 1] # <<>> /\ Head(f[i - 1]) = s[p] /\ g[i - 1] = Tail(f[i - 1])
        BY <1>5, <3>1
      <3>3. CASE s[i] \in S
        <4>1. f[i] = Append(f[i - 1], s[i]) /\ g[i] = Append(g[i - 1], s[i])
          BY <2>1, <3>1, <3>3 DEF Longer
        <4>2. s[i] \in T
          BY <1>3
        <4>3. PICK h \in Seq(T) : h = f[i - 1] /\ h # <<>>
          BY <2>1, <3>2
        <4>4. PICK x \in T : x = s[i]
          BY <4>2
        <4>5. Append(h, x) # <<>>
          BY AppendProperties
        <4>6. Head(Append(h, x)) = Head(h) /\ Tail(Append(h, x)) = Append(Tail(h), x)
          BY <4>3, HeadTailAppend
        <4>7. f[i] = Append(h, x) /\ g[i] = Append(Tail(h), x) /\ Head(h) = s[p]
          BY <3>2, <4>1, <4>3, <4>4
        <4>8. QED
          BY <2>1, <3>1, <4>5, <4>6, <4>7
      <3>4. CASE s[i] \notin S
        <4>1. f[i] = f[i - 1] /\ g[i] = g[i - 1]
          BY <2>1, <3>1, <3>4 DEF Longer
        <4>2. QED
          BY <2>1, <3>1, <3>2, <4>1
      <3>5. QED
        BY <3>3, <3>4
    <2>5. QED
      BY <1>3, <2>2, <2>3, <2>4
  <1> HIDE DEF P
  <1>6. Len(s) \in P
    <2>1. Len(s) \in 0 .. Len(s)
      BY <1>3
    <2>2. QED
      BY <1>3, <1>4, <1>5, <2>1, UpTo
  <1>7. QED
    BY <1>0, <1>1, <1>2, <1>3, <1>6 DEF P

\* An element after all that are chosen comes last when it is chosen, too.
LEMMA ThoseLast ==
  ASSUME NEW T, NEW s \in Seq(T), NEW S, NEW p \in 1 .. Len(s), s[p] \notin S,
         \A i \in 1 .. Len(s) : s[i] = s[p] => i = p,
         \A i \in p + 1 .. Len(s) : s[i] \notin S
  PROVE  Those(s, S \cup {s[p]}) = Append(Those(s, S), s[p])
PROOF
  <1>0. PICK R : R = S \cup {s[p]}
    OBVIOUS
  <1>1. PICK f : Steps(f, s, S) /\ Those(s, S) = f[Len(s)]
    BY ThoseIs
  <1>2. PICK g : Steps(g, s, R) /\ Those(s, R) = g[Len(s)]
    BY ThoseIs
  <1>3. Len(s) \in Nat /\ p \in Nat /\ p >= 1 /\ p <= Len(s)
    OBVIOUS
  <1> DEFINE P == {i \in 0 .. Len(s) :
                     /\ i < p => g[i] = f[i]
                     /\ i >= p => g[i] = Append(f[i], s[p])}
  <1>4. 0 \in P
    BY <1>1, <1>2, <1>3 DEF Steps
  <1>5. ASSUME NEW i \in 1 .. Len(s), i - 1 \in P
        PROVE  i \in P
    <2>1. /\ f[i] = Longer(f[i - 1], s, S, i) /\ g[i] = Longer(g[i - 1], s, R, i)
          /\ i - 1 \in 0 .. Len(s) /\ i \in 0 .. Len(s)
      BY <1>1, <1>2, <1>3 DEF Steps
    <2>2. CASE i < p
      <3>1. i - 1 < p /\ ~(i >= p) /\ s[i] # s[p] /\ (s[i] \in R <=> s[i] \in S)
        BY <1>0, <1>3, <2>2
      <3>2. g[i - 1] = f[i - 1]
        BY <1>5, <3>1
      <3>3. QED
        BY <2>1, <3>1, <3>2 DEF Longer
    <2>3. CASE i = p
      <3>1. i - 1 < p /\ ~(i < p) /\ s[i] \in R /\ s[i] \notin S
        BY <1>0, <1>3, <2>3
      <3>2. g[i - 1] = f[i - 1]
        BY <1>5, <3>1
      <3>3. f[i] = f[i - 1] /\ g[i] = Append(f[i - 1], s[p])
        BY <2>1, <2>3, <3>1, <3>2 DEF Longer
      <3>4. QED
        BY <2>1, <3>1, <3>3
    <2>4. CASE i > p
      <3>1. i - 1 >= p /\ ~(i < p) /\ s[i] # s[p] /\ s[i] \notin S /\ s[i] \notin R
        BY <1>0, <1>3, <2>4
      <3>2. g[i - 1] = Append(f[i - 1], s[p])
        BY <1>5, <3>1
      <3>3. f[i] = f[i - 1] /\ g[i] = g[i - 1]
        BY <2>1, <3>1 DEF Longer
      <3>4. QED
        BY <2>1, <3>1, <3>2, <3>3
    <2>5. QED
      BY <1>3, <2>2, <2>3, <2>4
  <1> HIDE DEF P
  <1>6. Len(s) \in P
    <2>1. Len(s) \in 0 .. Len(s)
      BY <1>3
    <2>2. QED
      BY <1>3, <1>4, <1>5, <2>1, UpTo
  <1>7. QED
    BY <1>0, <1>1, <1>2, <1>3, <1>6 DEF P

\* A suffix, position by position.
LEMMA SuffixIs ==
  ASSUME NEW T, NEW s \in Seq(T), NEW t \in Seq(T)
  PROVE  IsSuffix(s, t) <=>
           /\ Len(s) <= Len(t)
           /\ \A i \in 1 .. Len(s) : s[i] = t[Len(t) - Len(s) + i]
PROOF
  <1>1. PICK r, q : r = Reverse(s) /\ q = Reverse(t)
    OBVIOUS
  <1>2. PICK m, n : m = Len(s) /\ n = Len(t)
    OBVIOUS
  <1>3. /\ m \in Nat /\ n \in Nat /\ Len(r) = m /\ Len(q) = n
        /\ \A i \in 1 .. m : r[i] = s[m - i + 1]
        /\ \A i \in 1 .. n : q[i] = t[n - i + 1]
        /\ r \in Seq(T) /\ q \in Seq(T)
    BY <1>1, <1>2 DEF Reverse
  <1>4. IsSuffix(s, t) <=> m <= n /\ \A i \in 1 .. m : r[i] = q[i]
    <2>1. IsSuffix(s, t) <=> IsPrefix(r, q)
      BY <1>1 DEF IsSuffix
    <2>2. IsPrefix(r, q) <=> m <= n /\ \A i \in 1 .. m : r[i] = q[i]
      <3>1. IsPrefix(r, q) <=> m <= n /\ SubSeq(r, 1, m) = SubSeq(q, 1, m)
        BY <1>3 DEF IsPrefix
      <3>2. ASSUME m <= n
            PROVE  /\ SubSeq(r, 1, m) = [i \in 1 .. m |-> r[i]]
                   /\ SubSeq(q, 1, m) = [i \in 1 .. m |-> q[i]]
        BY <1>3, <3>2
      <3>3. QED
        BY <3>1, <3>2
    <2>3. QED
      BY <2>1, <2>2
  <1>5. ASSUME m <= n
        PROVE  (\A i \in 1 .. m : r[i] = q[i])
                 <=> \A i \in 1 .. m : s[i] = t[n - m + i]
    <2>1. ASSUME NEW i \in 1 .. m
          PROVE  /\ m - i + 1 \in 1 .. m
                 /\ r[m - i + 1] = s[i]
                 /\ q[m - i + 1] = t[n - m + i]
      <3>1. /\ m - i + 1 \in 1 .. m /\ m - i + 1 \in 1 .. n
            /\ m - (m - i + 1) + 1 = i /\ n - (m - i + 1) + 1 = n - m + i
        BY <1>3, <1>5
      <3>2. QED
        BY <1>3, <3>1
    <2>2. \A i \in 1 .. m : \E j \in 1 .. m : i = m - j + 1
      <3>1. ASSUME NEW i \in 1 .. m
            PROVE  \E j \in 1 .. m : i = m - j + 1
        <4>1. m - i + 1 \in 1 .. m /\ i = m - (m - i + 1) + 1
          BY <1>3
        <4>2. QED
          BY <4>1
      <3>2. QED
        BY <3>1
    <2>3. ASSUME \A i \in 1 .. m : r[i] = q[i], NEW i \in 1 .. m
          PROVE  s[i] = t[n - m + i]
      BY <2>1, <2>3
    <2>4. ASSUME \A i \in 1 .. m : s[i] = t[n - m + i], NEW j \in 1 .. m
          PROVE  r[j] = q[j]
      <3>1. PICK i \in 1 .. m : j = m - i + 1
        BY <2>2
      <3>2. QED
        BY <2>1, <2>4, <3>1
    <2>5. QED
      BY <2>3, <2>4
  <1>6. QED
    BY <1>2, <1>4, <1>5

----------------------------------------------------------------------------
(* The queue is the queued records.                                         *)

\* The tasks that are queued.
Queued == {t \in Tasks : status[t] = "queued"}

\* A step that changes no list, and no status but that of the record that is held.
LEMMA HeldMatches ==
  ASSUME ServiceInv, QueueMatchesRecords, pc \notin {"off", "get"},
         records' = records, queue' = queue,
         NEW v \in Statuses \ {"queued"}, status' = [status EXCEPT ![cur] = v],
         v \in Active => status[cur] \in Active
  PROVE  QueueMatchesRecords'
PROOF
  <1>1. cur \in Tasks /\ status[cur] # "queued" /\ status \in [Tasks -> Statuses]
    BY HeldRecord DEF ServiceInv, TypeOK
  <1>2. \A t \in Tasks : status'[t] = IF t = cur THEN v ELSE status[t]
    BY <1>1
  <1>3. {t \in Tasks : status'[t] = "queued"} = {t \in Tasks : status[t] = "queued"}
    BY <1>1, <1>2
  <1>4. \A t \in Tasks : status'[t] \in Active => status[t] \in Active
    BY <1>2
  <1>5. queue' = Those(records', {t \in Tasks : status'[t] = "queued"})
    BY <1>3 DEF QueueMatchesRecords
  <1>6. \A t \in Tasks : status'[t] \in Active => t \in Range(records')
    BY <1>4 DEF QueueMatchesRecords
  <1>7. QED
    BY <1>5, <1>6 DEF QueueMatchesRecords

\* The submitted task comes last in both, and the record that is evicted was not queued.
LEMMA SubmitMatches ==
  ASSUME AdmissionInv, QueueMatchesRecords, NEW t \in Tasks, Submit(t)
  PROVE  QueueMatchesRecords'
PROOF
  <1>1. /\ TypeOK /\ records \in Seq(Tasks) /\ queue \in Seq(Tasks)
        /\ status \in [Tasks -> Statuses] /\ Len(records) \in Nat
    BY DEF AdmissionInv, ServiceInv, TypeOK
  <1>2. /\ status[t] = "new" /\ queue' = Append(queue, t)
        /\ status' = [status EXCEPT ![t] = "queued"]
    BY DEF Submit
  <1>3. PICK kept \in Kept : records' = Append(kept, t)
    BY DEF Submit
  <1>4. kept \in Seq(Tasks)
    BY <1>1, KeptType
  <1>5. \/ kept = records
        \/ \E i \in 1 .. Len(records) :
             /\ status[records[i]] \in Terminal
             /\ Len(kept) = Len(records) - 1
             /\ \A k \in 1 .. Len(kept) : kept[k] = records[IF k < i THEN k ELSE k + 1]
    BY <1>1, KeptElements
  <1>6. PICK S : S = {u \in Tasks : status[u] = "queued"}
    OBVIOUS
  <1>7. queue = Those(records, S)
    BY <1>6 DEF QueueMatchesRecords
  <1>8. Those(kept, S) = queue
    <2>1. CASE kept = records
      BY <1>7, <2>1
    <2>2. CASE \E i \in 1 .. Len(records) :
                 /\ status[records[i]] \in Terminal
                 /\ Len(kept) = Len(records) - 1
                 /\ \A k \in 1 .. Len(kept) : kept[k] = records[IF k < i THEN k ELSE k + 1]
      <3>1. PICK i \in 1 .. Len(records) :
              /\ status[records[i]] \in Terminal
              /\ Len(kept) = Len(records) - 1
              /\ \A k \in 1 .. Len(kept) : kept[k] = records[IF k < i THEN k ELSE k + 1]
        BY <2>2
      <3>2. records[i] \notin S
        BY <1>6, <3>1 DEF Terminal
      <3>3. Those(kept, S) = Those(records, S)
        <4>1. Without(records, i, kept)
          BY <3>1 DEF Without
        <4>2. QED
          BY <1>1, <1>4, <3>2, <4>1, ThoseRemoved
      <3>4. QED
        BY <1>7, <3>3
    <2>3. QED
      BY <1>5, <2>1, <2>2
  <1>9. {u \in Tasks : status'[u] = "queued"} = S \cup {t}
    BY <1>1, <1>2, <1>6
  <1>10. \A k \in 1 .. Len(kept) : kept[k] # t
    <2>1. \A i \in 1 .. Len(records) : records[i] # t
      BY <1>2 DEF AdmissionInv, RecordsCounted
    <2>2. CASE kept = records
      BY <2>1, <2>2
    <2>3. CASE \E i \in 1 .. Len(records) :
                 /\ Len(kept) = Len(records) - 1
                 /\ \A k \in 1 .. Len(kept) : kept[k] = records[IF k < i THEN k ELSE k + 1]
      <3>1. PICK i \in 1 .. Len(records) :
              /\ Len(kept) = Len(records) - 1
              /\ \A k \in 1 .. Len(kept) : kept[k] = records[IF k < i THEN k ELSE k + 1]
        BY <2>3
      <3>2. \A k \in 1 .. Len(kept) : (IF k < i THEN k ELSE k + 1) \in 1 .. Len(records)
        BY <1>1, <3>1
      <3>3. QED
        BY <2>1, <3>1, <3>2
    <2>4. QED
      BY <1>5, <2>2, <2>3
  <1>11. Those(kept, S \cup {t}) = Those(kept, S)
    <2>1. \A k \in 1 .. Len(kept) : kept[k] \in S \cup {t} <=> kept[k] \in S
      BY <1>10
    <2>2. QED
      BY <1>4, <2>1, ThoseAgree
  <1>12. Those(records', S \cup {t}) = Append(Those(kept, S \cup {t}), t)
    <2>1. t \in S \cup {t}
      OBVIOUS
    <2>2. QED
      BY <1>3, <1>4, <2>1, ThoseAppend
  <1>13. queue' = Those(records', {u \in Tasks : status'[u] = "queued"})
    BY <1>2, <1>8, <1>9, <1>11, <1>12
  <1>14. ASSUME NEW u \in Tasks, status'[u] \in Active
         PROVE  \E k \in 1 .. Len(records') : records'[k] = u
    <2>1. /\ Len(records') = Len(kept) + 1 /\ records'[Len(kept) + 1] = t
          /\ \A k \in 1 .. Len(kept) : records'[k] = kept[k]
          /\ Len(kept) \in Nat
      BY <1>3, <1>4, AppendProperties
    <2>2. CASE u = t
      BY <2>1, <2>2
    <2>3. CASE u # t
      <3>1. status[u] \in Active
        BY <1>1, <1>2, <1>14, <2>3
      <3>2. PICK j \in 1 .. Len(records) : records[j] = u
        BY <1>1, <3>1 DEF QueueMatchesRecords, Range
      <3>3. \E k \in 1 .. Len(kept) : kept[k] = u
        <4>1. CASE kept = records
          BY <3>2, <4>1
        <4>2. CASE \E i \in 1 .. Len(records) :
                     /\ status[records[i]] \in Terminal
                     /\ Len(kept) = Len(records) - 1
                     /\ \A k \in 1 .. Len(kept) : kept[k] = records[IF k < i THEN k ELSE k + 1]
          <5>1. PICK i \in 1 .. Len(records) :
                  /\ status[records[i]] \in Terminal
                  /\ Len(kept) = Len(records) - 1
                  /\ \A k \in 1 .. Len(kept) : kept[k] = records[IF k < i THEN k ELSE k + 1]
            BY <4>2
          <5>2. i # j
            BY <3>1, <3>2, <5>1 DEF Active, Terminal
          <5>3. CASE j < i
            <6>1. j \in 1 .. Len(kept) /\ kept[j] = records[j]
              BY <1>1, <5>1, <5>3
            <6>2. QED
              BY <3>2, <6>1
          <5>4. CASE j > i
            <6>1. j - 1 \in 1 .. Len(kept) /\ ~(j - 1 < i) /\ (j - 1) + 1 = j
              BY <1>1, <5>1, <5>4
            <6>2. kept[j - 1] = records[j]
              BY <5>1, <6>1
            <6>3. QED
              BY <3>2, <6>1, <6>2
          <5>5. QED
            BY <5>2, <5>3, <5>4
        <4>3. QED
          BY <1>5, <4>1, <4>2
      <3>4. QED
        BY <2>1, <3>3
    <2>4. QED
      BY <2>2, <2>3
  <1>15. records' \in Seq(Tasks)
    BY <1>3, <1>4, AppendProperties
  <1>16. \A u \in Tasks : status'[u] \in Active => u \in Range(records')
    BY <1>14, <1>15 DEF Range
  <1>17. QED
    BY <1>13, <1>16 DEF QueueMatchesRecords

\* What is taken is the first of the queued records, and stays one of the records.
LEMMA TakeMatches ==
  ASSUME AdmissionInv, QueueMatchesRecords, Take
  PROVE  QueueMatchesRecords'
PROOF
  <1>1. /\ records \in Seq(Tasks) /\ queue \in Seq(Tasks) /\ queue # <<>>
        /\ status \in [Tasks -> Statuses] /\ records' = records
    BY DEF AdmissionInv, ServiceInv, TypeOK, Take
  <1>2. PICK t : t = Head(queue)
    OBVIOUS
  <1>3. /\ t \in Tasks /\ status[t] = "queued"
        /\ status' = [status EXCEPT ![t] = "running"] /\ queue' = Tail(queue)
    <2>1. t \in Tasks /\ t = queue[1] /\ 1 \in 1 .. Len(queue)
      BY <1>1, <1>2, HeadTailProperties
    <2>2. QED
      BY <1>2, <2>1 DEF AdmissionInv, ServiceInv, QueueHoldsQueued, Take
  <1>4. PICK S : S = {u \in Tasks : status[u] = "queued"}
    OBVIOUS
  <1>5. queue = Those(records, S)
    BY <1>4 DEF QueueMatchesRecords
  <1>6. PICK p \in 1 .. Len(records) :
          records[p] \in S /\ \A i \in 1 .. p - 1 : records[i] \notin S
    <2> DEFINE P == {i \in 1 .. Len(records) : records[i] \in S}
    <2>1. P # {}
      <3>1. SUFFICES ASSUME \A i \in 1 .. Len(records) : records[i] \notin S PROVE FALSE
        OBVIOUS
      <3>2. QED
        BY <1>1, <1>5, <3>1, ThoseNone
    <2>2. P \in SUBSET Nat
      OBVIOUS
    <2>3. PICK p \in P : \A i \in P : p <= i
      BY <2>1, <2>2, SmallestOf
    <2>4. p \in 1 .. Len(records) /\ records[p] \in S
      BY <2>3
    <2>5. ASSUME NEW i \in 1 .. p - 1 PROVE records[i] \notin S
      <3>1. i \in 1 .. Len(records) /\ ~(p <= i)
        BY <1>1, <2>4
      <3>2. QED
        BY <2>3, <3>1
    <2>6. QED
      BY <2>4, <2>5
  <1>7. \A i \in 1 .. Len(records) : records[i] = records[p] => i = p
    BY DEF AdmissionInv, RecordsCounted
  <1>8. Head(queue) = records[p] /\ Those(records, S \ {records[p]}) = Tail(queue)
    BY <1>1, <1>5, <1>6, <1>7, ThoseTail
  <1>9. {u \in Tasks : status'[u] = "queued"} = S \ {t}
    BY <1>1, <1>3, <1>4
  <1>10. queue' = Those(records', {u \in Tasks : status'[u] = "queued"})
    BY <1>1, <1>2, <1>3, <1>8, <1>9
  <1>11. \A u \in Tasks : status'[u] \in Active => status[u] \in Active
    BY <1>1, <1>3 DEF Active
  <1>12. \A u \in Tasks : status'[u] \in Active => u \in Range(records')
    BY <1>1, <1>11 DEF QueueMatchesRecords
  <1>13. QED
    BY <1>10, <1>12 DEF QueueMatchesRecords

\* Closing leaves what is queued and what is worked on, the end of the process neither.
LEMMA EndMatches ==
  ASSUME ServiceInv, QueueMatchesRecords, Close \/ Exit \/ Crash
  PROVE  QueueMatchesRecords'
PROOF
  <1>1. status \in [Tasks -> Statuses] /\ records \in Seq(Tasks)
    BY DEF ServiceInv, TypeOK
  <1>2. CASE Close
    <2>1. records' = records /\ queue' = queue
      BY <1>2 DEF Close
    <2>2. \A t \in Tasks : /\ status'[t] = "queued" <=> status[t] = "queued"
                           /\ status'[t] \in Active => status[t] \in Active
      BY <1>1, <1>2 DEF Close, ServiceInv, WorkerConsistent, StatusAt, Active
    <2>3. {t \in Tasks : status'[t] = "queued"} = {t \in Tasks : status[t] = "queued"}
      BY <2>2
    <2>4. queue' = Those(records', {t \in Tasks : status'[t] = "queued"})
      BY <2>1, <2>3 DEF QueueMatchesRecords
    <2>5. \A t \in Tasks : status'[t] \in Active => t \in Range(records')
      BY <2>1, <2>2 DEF QueueMatchesRecords
    <2>6. QED
      BY <2>4, <2>5 DEF QueueMatchesRecords
  <1>3. CASE Exit \/ Crash
    <2>1. /\ records' = <<>> /\ queue' = <<>>
          /\ \A t \in Tasks : status'[t] \notin Active
      BY <1>1, <1>3 DEF Exit, Crash, MemoryLost, Active
    <2>2. Those(<<>>, {t \in Tasks : status'[t] = "queued"}) = <<>>
      BY ThoseEmpty
    <2>3. QED
      BY <2>1, <2>2 DEF QueueMatchesRecords
  <1>4. QED
    BY <1>2, <1>3

LEMMA MatchesPreserved ==
  ASSUME AdmissionInv, QueueMatchesRecords, [Next]_vars
  PROVE  QueueMatchesRecords'
PROOF
  <1>1. ServiceInv
    BY DEF AdmissionInv
  <1>2. CASE \E t \in Tasks : Submit(t)
    BY <1>2, SubmitMatches
  <1>3. CASE Take
    BY <1>3, TakeMatches
  <1>4. CASE Close \/ Exit \/ Crash
    BY <1>1, <1>4, EndMatches
  <1>5. CASE \/ HistoryListFails
             \/ \E b \in BOOLEAN : RunnerFails(b) \/ RunnerCompletes(b)
             \/ RequestApproval
             \/ ApprovalReturns
             \/ \E t \in Tasks : StoreFailsOnce(t)
    <2>1. pc \in {"list", "run", "approval", "store"}
      BY <1>5 DEF HistoryListFails, RunnerFails, RunnerCompletes, RequestApproval,
         ApprovalReturns, StoreFailsOnce
    <2>2. pc \in {"run", "approval"} => status[cur] \in Active
      BY <1>1, HeldRecord DEF StatusAt, Active
    <2>3. /\ records' = records /\ queue' = queue
          /\ \E v \in Statuses \ {"queued"} :
               /\ status' = [status EXCEPT ![cur] = v]
               /\ v \in Active => pc \in {"run", "approval"}
      BY <1>5 DEF HistoryListFails, RunnerFails, RunnerCompletes, RequestApproval,
         ApprovalReturns, StoreFailsOnce, FailWith, Statuses, Active, Terminal
    <2>4. QED
      BY <1>1, <2>1, <2>2, <2>3, HeldMatches
  <1>6. CASE \/ Start
             \/ \E t \in Tasks, approved \in BOOLEAN : Decide(t, approved)
             \/ \E c \in Conversations : RequestDelete(c) \/ DeleteEnds(c)
             \/ HistoryListed
             \/ \E t \in Tasks : StoreCommits(t) \/ StoreFailsTwice(t) \/ OrphanFails(t)
             \/ UNCHANGED vars
    <2>1. UNCHANGED <<records, queue, status>>
      BY <1>6 DEF Start, Decide, RequestDelete, DeleteEnds, DeleteCommits, DeleteFails,
         HistoryListed, StoreCommits, StoreFailsTwice, OrphanFails, vars, memory
    <2>2. QED
      BY <2>1 DEF QueueMatchesRecords
  <1>7. QED
    BY <1>2, <1>3, <1>4, <1>5, <1>6 DEF Next, Client, Consumer, Store, StoreEnds, Process

\* First in, first out: the queue is the queued records in the order of submission, and no
\* task that is not over loses its record.
THEOREM QueueIsInOrder == Spec => []QueueMatchesRecords
PROOF
  <1>1. Init => QueueMatchesRecords
    <2>1. Those(<<>>, {}) = <<>>
      BY ThoseEmpty
    <2>2. Init => {t \in Tasks : status[t] = "queued"} = {}
      BY DEF Init
    <2>3. QED
      BY <2>1, <2>2 DEF Init, QueueMatchesRecords, Active
  <1>2. AdmissionInv /\ QueueMatchesRecords /\ [Next]_vars => QueueMatchesRecords'
    BY MatchesPreserved
  <1>3. QED
    BY <1>1, <1>2, AdmissionInvariant, PTL DEF Spec

----------------------------------------------------------------------------
(* Exchanges are stored in the order of submission.                         *)

LEMMA OrderFacts ==
  ASSUME ServiceInv, OrderConsistent
  PROVE  /\ order \in Seq(Tasks) /\ queue \in Seq(Tasks) /\ status \in [Tasks -> Statuses]
         /\ Len(order) \in Nat /\ Len(queue) \in Nat
         /\ Begun \in Nat /\ Begun <= Len(order) /\ Begun + Len(queue) = Len(order)
         /\ \A i \in 1 .. Len(order) : order[i] \in Tasks
PROOF
  <1>1. order \in Seq(Tasks) /\ queue \in Seq(Tasks) /\ status \in [Tasks -> Statuses]
    BY DEF ServiceInv, TypeOK
  <1>2. Len(queue) <= Len(order)
    BY DEF OrderConsistent
  <1>3. QED
    BY <1>1, <1>2 DEF Begun

\* A step that adds nothing to what is in the making or stored.
LEMMA OrderStays ==
  ASSUME OrderConsistent, UNCHANGED <<order, queue>>,
         writing' \cup {cur'} \subseteq writing \cup {cur, NoTask},
         stored' \subseteq stored,
         \A i \in 1 .. Len(order) : status'[order[i]] # "new"
  PROVE  OrderConsistent'
PROOF
  <1>1. Begun' = Begun
    BY DEF Begun
  <1>2. \A t \in writing' \cup {cur'} :
          t # NoTask => Begun' > 0 /\ order'[Begun'] = t /\ t \notin stored'
    BY <1>1 DEF OrderConsistent
  <1>3. \A t \in stored' : \E i \in 1 .. Begun' : order'[i] = t
    BY <1>1 DEF OrderConsistent
  <1>4. QED
    BY <1>1, <1>2, <1>3 DEF OrderConsistent

\* The submitted task is the last of both.
LEMMA SubmitOrdered ==
  ASSUME ServiceInv, OrderConsistent, NEW t \in Tasks, Submit(t)
  PROVE  OrderConsistent'
PROOF
  <1>1. /\ order \in Seq(Tasks) /\ queue \in Seq(Tasks) /\ status \in [Tasks -> Statuses]
        /\ Len(order) \in Nat /\ Len(queue) \in Nat
        /\ Begun \in Nat /\ Begun <= Len(order) /\ Begun + Len(queue) = Len(order)
        /\ \A i \in 1 .. Len(order) : order[i] \in Tasks
    BY OrderFacts
  <1>2. /\ status[t] = "new" /\ status' = [status EXCEPT ![t] = "queued"]
        /\ order' = Append(order, t) /\ queue' = Append(queue, t)
        /\ writing' = writing /\ cur' = cur /\ stored' = stored
    BY DEF Submit
  <1>3. /\ Len(order') = Len(order) + 1 /\ order'[Len(order) + 1] = t
        /\ \A i \in 1 .. Len(order) : order'[i] = order[i]
    BY <1>1, <1>2, AppendProperties
  <1>4. /\ Len(queue') = Len(queue) + 1 /\ queue'[Len(queue) + 1] = t
        /\ \A i \in 1 .. Len(queue) : queue'[i] = queue[i]
    BY <1>1, <1>2, AppendProperties
  <1>5. /\ \A i, j \in 1 .. Len(order) : order[i] = order[j] => i = j
        /\ \A i \in 1 .. Len(order) : status[order[i]] # "new"
        /\ \A i \in 1 .. Len(queue) : queue[i] = order[Begun + i]
        /\ \A u \in writing \cup {cur} :
             u # NoTask => Begun > 0 /\ order[Begun] = u /\ u \notin stored
        /\ \A u \in stored : \E i \in 1 .. Begun : order[i] = u
    BY DEF OrderConsistent
  <1>6. Begun' = Begun
    BY <1>1, <1>3, <1>4 DEF Begun
  <1>7. ASSUME NEW i \in 1 .. Len(order'), NEW j \in 1 .. Len(order'), order'[i] = order'[j]
        PROVE  i = j
    <2>1. \A k \in 1 .. Len(order) : order[k] # t
      BY <1>2, <1>5
    <2>2. \A k \in 1 .. Len(order') : k \in 1 .. Len(order) \/ k = Len(order) + 1
      BY <1>1, <1>3
    <2>3. QED
      BY <1>3, <1>5, <1>7, <2>1, <2>2
  <1>8. ASSUME NEW i \in 1 .. Len(order')
        PROVE  status'[order'[i]] # "new"
    <2>1. i \in 1 .. Len(order) \/ i = Len(order) + 1
      BY <1>1, <1>3
    <2>2. \A u \in Tasks : status'[u] = IF u = t THEN "queued" ELSE status[u]
      BY <1>1, <1>2
    <2>3. QED
      BY <1>1, <1>3, <1>5, <2>1, <2>2
  <1>9. ASSUME NEW i \in 1 .. Len(queue')
        PROVE  queue'[i] = order'[Begun + i]
    <2>1. CASE i \in 1 .. Len(queue)
      <3>1. Begun + i \in 1 .. Len(order)
        BY <1>1, <2>1
      <3>2. QED
        BY <1>3, <1>4, <1>5, <2>1, <3>1
    <2>2. CASE i = Len(queue) + 1
      <3>1. Begun + i = Len(order) + 1
        BY <1>1, <2>2
      <3>2. QED
        BY <1>3, <1>4, <2>2, <3>1
    <2>3. QED
      BY <1>1, <1>4, <2>1, <2>2
  <1>10. \A i \in 1 .. Begun : order'[i] = order[i]
    BY <1>1, <1>3
  <1>11. ASSUME NEW u \in writing' \cup {cur'}, u # NoTask
         PROVE  Begun > 0 /\ order'[Begun] = u /\ u \notin stored'
    <2>1. Begun > 0 /\ order[Begun] = u /\ u \notin stored
      BY <1>2, <1>5, <1>11
    <2>2. Begun \in 1 .. Begun
      BY <1>1, <2>1
    <2>3. QED
      BY <1>2, <1>10, <2>1, <2>2
  <1>12. ASSUME NEW u \in stored'
         PROVE  \E i \in 1 .. Begun : order'[i] = u
    <2>1. PICK i \in 1 .. Begun : order[i] = u
      BY <1>2, <1>5, <1>12
    <2>2. order'[i] = u
      BY <1>10, <2>1
    <2>3. QED
      BY <2>2
  <1>13. Len(queue') <= Len(order')
    BY <1>1, <1>3, <1>4
  <1>14. QED
    BY <1>6, <1>7, <1>8, <1>9, <1>11, <1>12, <1>13 DEF OrderConsistent

\* What is taken is the next in order, and new to the database.
LEMMA TakeOrdered ==
  ASSUME ServiceInv, OrderConsistent, Take
  PROVE  OrderConsistent'
PROOF
  <1>1. /\ order \in Seq(Tasks) /\ queue \in Seq(Tasks) /\ status \in [Tasks -> Statuses]
        /\ Len(order) \in Nat /\ Len(queue) \in Nat
        /\ Begun \in Nat /\ Begun <= Len(order) /\ Begun + Len(queue) = Len(order)
        /\ \A i \in 1 .. Len(order) : order[i] \in Tasks
    BY OrderFacts
  <1>2. queue # <<>> /\ pc = "get" /\ phase = "up" /\ writing = {}
    BY DEF Take, ServiceInv, WorkerConsistent
  <1>3. /\ order' = order /\ writing' = writing /\ stored' = stored
        /\ cur' = Head(queue) /\ queue' = Tail(queue)
        /\ status' = [status EXCEPT ![Head(queue)] = "running"]
    BY DEF Take, ghosts
  <1>4. /\ Len(queue) >= 1 /\ cur' = queue[1] /\ cur' \in Tasks
        /\ Len(queue') = Len(queue) - 1
        /\ \A i \in 1 .. Len(queue') : queue'[i] = queue[i + 1]
    BY <1>1, <1>2, <1>3, HeadTailProperties
  <1>5. /\ \A i, j \in 1 .. Len(order) : order[i] = order[j] => i = j
        /\ \A i \in 1 .. Len(order) : status[order[i]] # "new"
        /\ \A i \in 1 .. Len(queue) : queue[i] = order[Begun + i]
        /\ \A u \in stored : \E i \in 1 .. Begun : order[i] = u
    BY DEF OrderConsistent
  <1>6. Begun' = Begun + 1
    <2>1. Len(order') = Len(order) /\ Len(queue') = Len(queue) - 1
      BY <1>3, <1>4
    <2>2. QED
      BY <1>1, <2>1 DEF Begun
  <1>7. \A i \in 1 .. Len(order) : status'[order[i]] # "new"
    BY <1>1, <1>3, <1>5
  <1>8. ASSUME NEW i \in 1 .. Len(queue')
        PROVE  queue'[i] = order[Begun + 1 + i]
    <2>1. i + 1 \in 1 .. Len(queue) /\ Begun + (i + 1) = Begun + 1 + i
      BY <1>1, <1>4
    <2>2. queue'[i] = queue[i + 1]
      BY <1>4
    <2>3. queue[i + 1] = order[Begun + (i + 1)]
      BY <1>5, <2>1
    <2>4. QED
      BY <2>1, <2>2, <2>3
  <1>9. order[Begun + 1] = cur' /\ Begun + 1 \in 1 .. Len(order)
    BY <1>1, <1>4, <1>5
  <1>10. cur' \notin stored
    <2>1. \A i \in 1 .. Begun : i \in 1 .. Len(order) /\ i # Begun + 1
      BY <1>1
    <2>2. QED
      BY <1>5, <1>9, <2>1
  <1>11. \A i \in 1 .. Begun : i \in 1 .. Begun + 1
    BY <1>1
  <1>12. Len(queue') <= Len(order) /\ Begun + 1 > 0
    BY <1>1, <1>4
  <1>13. \A u \in writing' \cup {cur'} :
           u # NoTask => Begun' > 0 /\ order'[Begun'] = u /\ u \notin stored'
    BY <1>2, <1>3, <1>6, <1>9, <1>10, <1>12
  <1>14. \A u \in stored' : \E i \in 1 .. Begun' : order'[i] = u
    BY <1>3, <1>5, <1>6, <1>11
  <1>15. QED
    BY <1>3, <1>5, <1>6, <1>7, <1>8, <1>12, <1>13, <1>14 DEF OrderConsistent

\* What is stored had left the queue last, and nothing else is in the making.
LEMMA StoredOrdered ==
  ASSUME ServiceInv, OrderConsistent, NEW t \in Tasks, StoreCommits(t)
  PROVE  /\ OrderConsistent'
         /\ Begun \in 1 .. Len(order) /\ order[Begun] = t /\ t \notin stored
PROOF
  <1>1. Begun \in Nat /\ Begun <= Len(order) /\ Len(order) \in Nat
    BY OrderFacts
  <1>2. /\ t \in writing /\ writing' = writing \ {t} /\ stored' = stored \cup {t}
        /\ cur' = (IF t = cur THEN NoTask ELSE cur)
        /\ order' = order /\ queue' = queue /\ status' = status
    BY DEF StoreCommits
  <1>3. \A u \in writing \cup {cur} :
          u # NoTask => Begun > 0 /\ order[Begun] = u /\ u \notin stored
    BY DEF OrderConsistent
  <1>4. t # NoTask /\ NoTask \notin writing
    BY <1>2, NoTaskAssumption DEF ServiceInv, TypeOK
  <1>5. Begun > 0 /\ order[Begun] = t /\ t \notin stored
    BY <1>2, <1>3, <1>4
  <1>6. writing' = {} /\ cur' = NoTask
    BY <1>2, <1>3, <1>4, <1>5
  <1>7. Begun' = Begun
    BY <1>2 DEF Begun
  <1>8. \A u \in stored' : \E i \in 1 .. Begun' : order'[i] = u
    <2>1. Begun \in 1 .. Begun
      BY <1>1, <1>5
    <2>2. QED
      BY <1>2, <1>5, <1>7, <2>1 DEF OrderConsistent
  <1>9. OrderConsistent'
    BY <1>2, <1>6, <1>7, <1>8 DEF OrderConsistent
  <1>10. QED
    BY <1>1, <1>5, <1>9

\* The end of a process leaves the order to what was submitted.
LEMMA EndOrdered ==
  ASSUME ServiceInv, OrderConsistent, Exit \/ Crash
  PROVE  OrderConsistent'
PROOF
  <1>1. /\ order \in Seq(Tasks) /\ status \in [Tasks -> Statuses]
        /\ Len(order) \in Nat /\ Begun \in Nat /\ Begun <= Len(order)
        /\ \A i \in 1 .. Len(order) : order[i] \in Tasks
    BY OrderFacts
  <1>2. /\ queue' = <<>> /\ cur' = NoTask /\ writing' = {}
        /\ order' = order /\ stored' = stored
        /\ \A t \in Tasks : status'[t] = IF status[t] \in Active THEN "lost" ELSE status[t]
    BY DEF Exit, Crash, MemoryLost, ghosts
  <1>3. Len(queue') = 0 /\ Begun' = Len(order)
    BY <1>1, <1>2 DEF Begun
  <1>4. \A i \in 1 .. Len(order') : status'[order'[i]] # "new"
    BY <1>1, <1>2 DEF OrderConsistent
  <1>5. \A t \in stored' : \E i \in 1 .. Begun' : order'[i] = t
    <2>1. \A i \in 1 .. Begun : i \in 1 .. Len(order)
      BY <1>1
    <2>2. QED
      BY <1>2, <1>3, <2>1 DEF OrderConsistent
  <1>6. QED
    BY <1>1, <1>2, <1>3, <1>4, <1>5 DEF OrderConsistent

LEMMA OrderPreserved ==
  ASSUME ServiceInv, OrderConsistent, [Next]_vars
  PROVE  OrderConsistent'
PROOF
  <1>1. /\ status \in [Tasks -> Statuses] /\ Len(order) \in Nat
        /\ \A i \in 1 .. Len(order) : order[i] \in Tasks /\ status[order[i]] # "new"
    BY OrderFacts DEF OrderConsistent
  <1>2. CASE \E t \in Tasks : Submit(t)
    BY <1>2, SubmitOrdered
  <1>3. CASE Take
    BY <1>3, TakeOrdered
  <1>4. CASE \E t \in Tasks : StoreCommits(t)
    BY <1>4, StoredOrdered
  <1>5. CASE Exit \/ Crash
    BY <1>5, EndOrdered
  <1>6. CASE \/ HistoryListFails
             \/ \E b \in BOOLEAN : RunnerFails(b) \/ RunnerCompletes(b)
             \/ RequestApproval
             \/ ApprovalReturns
             \/ \E t \in Tasks : StoreFailsOnce(t)
    <2>1. /\ UNCHANGED <<order, queue>> /\ stored' \subseteq stored
          /\ writing' \cup {cur'} \subseteq writing \cup {cur, NoTask}
          /\ \E v \in Statuses \ {"new"} : status' = [status EXCEPT ![cur] = v]
      BY <1>6 DEF HistoryListFails, RunnerFails, RunnerCompletes, RequestApproval,
         ApprovalReturns, StoreFailsOnce, FailWith, ghosts, Statuses, Active, Terminal
    <2>2. \A i \in 1 .. Len(order) : status'[order[i]] # "new"
      BY <1>1, <2>1
    <2>3. QED
      BY <2>1, <2>2, OrderStays
  <1>7. CASE \/ Start
             \/ \E t \in Tasks, approved \in BOOLEAN : Decide(t, approved)
             \/ \E c \in Conversations : RequestDelete(c) \/ DeleteEnds(c)
             \/ HistoryListed
             \/ \E t \in Tasks : StoreFailsTwice(t) \/ OrphanFails(t)
             \/ UNCHANGED vars
    <2>1. /\ UNCHANGED <<order, queue, status>> /\ stored' \subseteq stored
          /\ writing' \cup {cur'} \subseteq writing \cup {cur, NoTask}
      BY <1>7 DEF Start, Decide, RequestDelete, DeleteEnds, DeleteCommits, DeleteFails,
         HistoryListed, StoreFailsTwice, OrphanFails, vars, memory, ghosts
    <2>2. \A i \in 1 .. Len(order) : status'[order[i]] # "new"
      BY <1>1, <2>1
    <2>3. QED
      BY <2>1, <2>2, OrderStays
  <1>8. CASE Close
    <2>1. /\ UNCHANGED <<order, queue>> /\ stored' \subseteq stored
          /\ writing' \cup {cur'} \subseteq writing \cup {cur, NoTask}
          /\ \A t \in Tasks : status'[t] \in {status[t], "running"}
      BY <1>8 DEF Close, ghosts
    <2>2. \A i \in 1 .. Len(order) : status'[order[i]] # "new"
      BY <1>1, <2>1
    <2>3. QED
      BY <2>1, <2>2, OrderStays
  <1>9. QED
    BY <1>2, <1>3, <1>4, <1>5, <1>6, <1>7, <1>8
    DEF Next, Client, Consumer, Store, StoreEnds, Process

----------------------------------------------------------------------------
(* The database is the recent history.                                      *)

\* h is the end of `all', as much of it as is kept.
Recent(h, all) ==
  /\ IsSuffix(h, all)
  /\ Len(h) = IF Len(all) < MaxPairs THEN Len(all) ELSE MaxPairs

\* One exchange more, and the oldest one less when there are too many.
LEMMA TrimIsRecent ==
  ASSUME NEW h \in Seq(Tasks), NEW all \in Seq(Tasks), NEW x \in Tasks, Recent(h, all)
  PROVE  Recent(Trim(Append(h, x)), Append(all, x))
PROOF
  <1>1. PICK m, n : m = Len(h) /\ n = Len(all)
    OBVIOUS
  <1>2. PICK a, b : a = Append(h, x) /\ b = Append(all, x)
    OBVIOUS
  <1>3. /\ m \in Nat /\ n \in Nat /\ MaxPairs \in Nat /\ MaxPairs > 0
        /\ m <= n /\ m <= MaxPairs /\ (n < MaxPairs => m = n) /\ (~(n < MaxPairs) => m = MaxPairs)
        /\ \A i \in 1 .. m : h[i] = all[n - m + i]
    <2>1. IsSuffix(h, all) /\ Len(h) = IF Len(all) < MaxPairs THEN Len(all) ELSE MaxPairs
      BY DEF Recent
    <2>2. Len(h) <= Len(all) /\ \A i \in 1 .. Len(h) : h[i] = all[Len(all) - Len(h) + i]
      BY <2>1, SuffixIs
    <2>3. m \in Nat /\ n \in Nat /\ MaxPairs \in Nat /\ MaxPairs > 0
      BY <1>1, SizesAssumption
    <2>4. m = IF n < MaxPairs THEN n ELSE MaxPairs
      BY <1>1, <2>1
    <2>5. m <= n /\ \A i \in 1 .. m : h[i] = all[n - m + i]
      BY <1>1, <2>2
    <2>6. m <= MaxPairs /\ (n < MaxPairs => m = n) /\ (~(n < MaxPairs) => m = MaxPairs)
      BY <2>3, <2>4
    <2>7. QED
      BY <2>3, <2>5, <2>6
  <1>4. /\ a \in Seq(Tasks) /\ Len(a) = m + 1 /\ a[m + 1] = x
        /\ \A i \in 1 .. m : a[i] = h[i]
    BY <1>1, <1>2, AppendProperties
  <1>5. /\ b \in Seq(Tasks) /\ Len(b) = n + 1 /\ b[n + 1] = x
        /\ \A i \in 1 .. n : b[i] = all[i]
    BY <1>1, <1>2, AppendProperties
  <1>6. ASSUME NEW i \in 1 .. m + 1
        PROVE  a[i] = b[n - m + i]
    <2>1. CASE i \in 1 .. m
      <3>1. n - m + i \in 1 .. n
        BY <1>3, <2>1
      <3>2. QED
        BY <1>3, <1>4, <1>5, <2>1, <3>1
    <2>2. CASE i = m + 1
      <3>1. n - m + i = n + 1
        BY <1>3, <2>2
      <3>2. QED
        BY <1>4, <1>5, <2>2, <3>1
    <2>3. QED
      BY <1>3, <2>1, <2>2
  <1>7. CASE m + 1 <= MaxPairs
    <2>1. Trim(a) = a
      BY <1>3, <1>4, <1>7 DEF Trim
    <2>2. \A i \in 1 .. m + 1 : (n + 1) - (m + 1) + i = n - m + i
      BY <1>3
    <2>3. Len(a) <= Len(b) /\ \A i \in 1 .. Len(a) : a[i] = b[Len(b) - Len(a) + i]
      BY <1>3, <1>4, <1>5, <1>6, <2>2
    <2>4. IsSuffix(a, b)
      BY <1>4, <1>5, <2>3, SuffixIs
    <2>5. Len(a) = IF Len(b) < MaxPairs THEN Len(b) ELSE MaxPairs
      BY <1>3, <1>4, <1>5, <1>7
    <2>6. QED
      BY <1>2, <2>1, <2>4, <2>5 DEF Recent
  <1>8. CASE ~(m + 1 <= MaxPairs)
    <2>1. m = MaxPairs /\ MaxPairs <= n
      BY <1>3, <1>8
    <2>2. PICK c : c = SubSeq(a, 2, m + 1)
      OBVIOUS
    <2>3. Trim(a) = c
      <3>1. Len(a) > MaxPairs /\ Len(a) - MaxPairs + 1 = 2
        BY <1>3, <1>4, <2>1
      <3>2. QED
        BY <1>4, <2>2, <3>1 DEF Trim
    <2>4. /\ c \in Seq(Tasks) /\ Len(c) = m
          /\ \A i \in 1 .. m : c[i] = a[i + 1]
      <3>1. /\ 2 \in Int /\ m + 1 \in Int /\ 2 <= m + 1 /\ (m + 1) - 2 + 1 = m
            /\ \A i \in 2 .. m + 1 : a[i] \in Tasks
        BY <1>3, <1>4, <2>1
      <3>2. /\ c \in Seq(Tasks)
            /\ Len(c) = IF 2 <= m + 1 THEN (m + 1) - 2 + 1 ELSE 0
            /\ \A i \in 1 .. (m + 1) - 2 + 1 : c[i] = a[2 + i - 1]
        BY <2>2, <3>1, SubSeqProperties
      <3>3. \A i \in 1 .. m : 2 + i - 1 = i + 1
        BY <1>3
      <3>4. QED
        BY <3>1, <3>2, <3>3
    <2>5. ASSUME NEW i \in 1 .. m
          PROVE  c[i] = b[(n + 1) - m + i]
      <3>0. m \in Nat /\ n \in Nat /\ i \in Nat
        BY <1>3
      <3>1. i + 1 \in 1 .. m + 1 /\ n - m + (i + 1) = (n + 1) - m + i
        BY <3>0
      <3>2. a[i + 1] = b[n - m + (i + 1)]
        BY <1>6, <3>1
      <3>3. QED
        BY <2>4, <3>1, <3>2
    <2>6. Len(c) <= Len(b) /\ \A i \in 1 .. Len(c) : c[i] = b[Len(b) - Len(c) + i]
      BY <1>3, <1>5, <2>4, <2>5
    <2>7. IsSuffix(c, b)
      BY <1>5, <2>4, <2>6, SuffixIs
    <2>8. Len(c) = IF Len(b) < MaxPairs THEN Len(b) ELSE MaxPairs
      BY <1>3, <1>5, <2>1, <2>4
    <2>9. QED
      BY <1>2, <2>3, <2>7, <2>8 DEF Recent
  <1>9. QED
    BY <1>7, <1>8

\* The exchanges of a conversation that were stored, in order.
Stored(c) == Those(order, InConversation(c) \cap stored)

LEMMA HistoryIs ==
  HistoryExact <=> \A c \in Conversations : Recent(history[c], Stored(c))
  BY DEF HistoryExact, Recent, Stored

\* A submission stores nothing.
LEMMA SubmitStoresNothing ==
  ASSUME ServiceInv, OrderConsistent, NEW t \in Tasks, Submit(t), NEW c \in Conversations
  PROVE  Stored(c)' = Stored(c)
PROOF
  <1>1. /\ order \in Seq(Tasks) /\ order' = Append(order, t)
        /\ conv' = conv /\ stored' = stored /\ status[t] = "new"
    BY DEF Submit, ServiceInv, TypeOK
  <1>2. t \notin stored
    <2>1. \A i \in 1 .. Begun : i \in 1 .. Len(order)
      BY OrderFacts
    <2>2. QED
      BY <1>1, <2>1 DEF OrderConsistent
  <1>3. PICK S : S = InConversation(c) \cap stored
    OBVIOUS
  <1>4. InConversation(c)' = InConversation(c)
    BY <1>1 DEF InConversation
  <1>5. Those(Append(order, t), S) = Those(order, S)
    BY <1>1, <1>2, <1>3, ThoseAppend
  <1>6. QED
    BY <1>1, <1>3, <1>4, <1>5 DEF Stored

\* What commits comes last in its conversation, and in no other.
LEMMA CommitStores ==
  ASSUME ServiceInv, OrderConsistent, NEW t \in Tasks, StoreCommits(t), NEW c \in Conversations
  PROVE  Stored(c)' = IF conv[t] = c THEN Append(Stored(c), t) ELSE Stored(c)
PROOF
  <1>1. /\ order \in Seq(Tasks) /\ order' = order /\ conv' = conv /\ stored' = stored \cup {t}
    BY DEF StoreCommits, ServiceInv, TypeOK
  <1>2. Begun \in 1 .. Len(order) /\ order[Begun] = t /\ t \notin stored
    BY StoredOrdered
  <1>3. PICK p : p = Begun
    OBVIOUS
  <1>4. PICK S : S = InConversation(c) \cap stored
    OBVIOUS
  <1>5. InConversation(c)' = InConversation(c)
    BY <1>1 DEF InConversation
  <1>6. CASE conv[t] = c
    <2>1. InConversation(c) \cap (stored \cup {t}) = S \cup {order[p]}
      BY <1>2, <1>3, <1>4, <1>6 DEF InConversation
    <2>2. p \in 1 .. Len(order) /\ order[p] \notin S
      BY <1>2, <1>3, <1>4
    <2>3. \A i \in 1 .. Len(order) : order[i] = order[p] => i = p
      BY <2>2 DEF OrderConsistent
    <2>4. ASSUME NEW i \in p + 1 .. Len(order)
          PROVE  order[i] \notin S
      <3>1. i \in 1 .. Len(order) /\ \A j \in 1 .. p : j \in 1 .. Len(order) /\ j # i
        BY <2>2
      <3>2. \A j \in 1 .. p : order[j] # order[i]
        BY <3>1 DEF OrderConsistent
      <3>3. order[i] \notin stored
        BY <1>3, <3>2 DEF OrderConsistent
      <3>4. QED
        BY <1>4, <3>3
    <2>5. Those(order, S \cup {order[p]}) = Append(Those(order, S), order[p])
      BY <1>1, <2>2, <2>3, <2>4, ThoseLast
    <2>6. Stored(c)' = Those(order, S \cup {order[p]}) /\ Stored(c) = Those(order, S)
      BY <1>1, <1>4, <1>5, <2>1 DEF Stored
    <2>7. QED
      BY <1>2, <1>3, <1>6, <2>5, <2>6
  <1>7. CASE conv[t] # c
    <2>1. InConversation(c) \cap (stored \cup {t}) = S
      BY <1>4, <1>7 DEF InConversation
    <2>2. QED
      BY <1>1, <1>4, <1>5, <1>7, <2>1 DEF Stored
  <1>8. QED
    BY <1>6, <1>7

\* A delete leaves nothing of its conversation, and all of the others.
LEMMA DeleteClears ==
  ASSUME ServiceInv, NEW d \in Conversations, DeleteCommits(d), NEW c \in Conversations
  PROVE  Stored(c)' = IF c = d THEN <<>> ELSE Stored(c)
PROOF
  <1>1. /\ order \in Seq(Tasks) /\ order' = order /\ conv' = conv
        /\ stored' = stored \ InConversation(d)
    BY DEF DeleteCommits, ServiceInv, TypeOK, memory
  <1>2. InConversation(c)' = InConversation(c)
    BY <1>1 DEF InConversation
  <1>3. CASE c = d
    <2>1. InConversation(c) \cap (stored \ InConversation(d)) = {}
      BY <1>3
    <2>2. Those(order, {}) = <<>>
      BY <1>1, ThoseNone
    <2>3. QED
      BY <1>1, <1>2, <1>3, <2>1, <2>2 DEF Stored
  <1>4. CASE c # d
    <2>1. InConversation(c) \cap (stored \ InConversation(d)) = InConversation(c) \cap stored
      BY <1>4 DEF InConversation
    <2>2. QED
      BY <1>1, <1>2, <1>4, <2>1 DEF Stored
  <1>5. QED
    BY <1>3, <1>4

LEMMA EmptyIsRecent == Recent(<<>>, <<>>)
PROOF
  <1>1. <<>> \in Seq(Tasks) /\ Len(<<>>) = 0
    BY EmptySeq
  <1>2. Len(<<>>) <= Len(<<>>)
        /\ \A i \in 1 .. Len(<<>>) : <<>>[i] = <<>>[Len(<<>>) - Len(<<>>) + i]
    BY <1>1
  <1>3. IsSuffix(<<>>, <<>>)
    BY <1>1, <1>2, SuffixIs
  <1>4. QED
    BY <1>1, <1>3, SizesAssumption DEF Recent

LEMMA HistoryPreserved ==
  ASSUME ServiceInv, OrderConsistent, HistoryExact, [Next]_vars
  PROVE  HistoryExact'
PROOF
  <1>1. /\ order \in Seq(Tasks) /\ history \in [Conversations -> Seq(Tasks)]
        /\ conv \in [Tasks -> Conversations]
    BY DEF ServiceInv, TypeOK
  <1>2. \A c \in Conversations : Recent(history[c], Stored(c)) /\ Stored(c) \in Seq(Tasks)
    BY <1>1, HistoryIs, ThoseType DEF Stored
  <1>3. SUFFICES ASSUME NEW c \in Conversations
                 PROVE  Recent(history'[c], Stored(c)')
    BY DEF HistoryExact, Recent, Stored
  <1>4. CASE \E t \in Tasks : Submit(t)
    <2>1. Stored(c)' = Stored(c) /\ history' = history
      BY <1>4, SubmitStoresNothing DEF Submit
    <2>2. QED
      BY <1>2, <2>1
  <1>5. ASSUME NEW t \in Tasks, StoreCommits(t)
        PROVE  Recent(history'[c], Stored(c)')
    <2>1. /\ Stored(c)' = (IF conv[t] = c THEN Append(Stored(c), t) ELSE Stored(c))
          /\ history' = [history EXCEPT ![conv[t]] = Trim(Append(@, t))]
      BY <1>5, CommitStores DEF StoreCommits
    <2>2. history'[c] = IF conv[t] = c THEN Trim(Append(history[c], t)) ELSE history[c]
      BY <1>1, <2>1
    <2>3. Recent(Trim(Append(history[c], t)), Append(Stored(c), t))
      <3>1. history[c] \in Seq(Tasks)
        BY <1>1
      <3>2. QED
        BY <1>2, <3>1, TrimIsRecent
    <2>4. QED
      BY <1>2, <2>1, <2>2, <2>3
  <1>6. ASSUME NEW d \in Conversations, DeleteCommits(d)
        PROVE  Recent(history'[c], Stored(c)')
    <2>1. /\ Stored(c)' = (IF c = d THEN <<>> ELSE Stored(c))
          /\ history' = [history EXCEPT ![d] = <<>>]
      BY <1>6, DeleteClears DEF DeleteCommits
    <2>2. history'[c] = IF c = d THEN <<>> ELSE history[c]
      BY <1>1, <2>1
    <2>3. QED
      BY <1>2, <2>1, <2>2, EmptyIsRecent
  <1>7. CASE \/ Process \/ Consumer
             \/ \E t \in Tasks, approved \in BOOLEAN : Decide(t, approved)
             \/ \E d \in Conversations : RequestDelete(d) \/ DeleteFails(d)
             \/ \E t \in Tasks : StoreFailsOnce(t) \/ StoreFailsTwice(t) \/ OrphanFails(t)
             \/ UNCHANGED vars
    <2>1. UNCHANGED <<order, stored, conv, history>>
      BY <1>7 DEF Process, Start, Close, Exit, Crash, MemoryLost, Consumer, Take,
         HistoryListed, HistoryListFails, RunnerFails, RunnerCompletes, FailWith,
         RequestApproval, ApprovalReturns, Decide, RequestDelete, DeleteFails,
         StoreFailsOnce, StoreFailsTwice, OrphanFails, vars, memory, ghosts
    <2>2. Stored(c)' = Stored(c)
      BY <2>1 DEF Stored, InConversation
    <2>3. QED
      BY <1>2, <2>1, <2>2
  <1>8. QED
    BY <1>4, <1>5, <1>6, <1>7 DEF Next, Client, Store, StoreEnds, DeleteEnds

----------------------------------------------------------------------------
(* A task sees what its predecessors left.                                  *)

\* A step that touches no record, no answer and no error of a task that is settled.
LEMMA SettledStays ==
  ASSUME NEW t \in Tasks, Settled(t),
         status'[t] = status[t], error'[t] = error[t], answer'[t] = answer[t],
         t \notin writing', stored \subseteq stored', erased \subseteq erased'
  PROVE  Settled(t)'
  BY DEF Settled

\* A step that leaves the lists and concerns the held record, or none.
LEMMA BegunStays ==
  ASSUME ServiceInv, OrderConsistent, BegunSettled,
         UNCHANGED <<order, queue, records, stored, erased, cur>>,
         phase' = "up" => phase = "up",
         \A t \in Tasks \ {cur} :
           /\ status'[t] = status[t] /\ error'[t] = error[t] /\ answer'[t] = answer[t]
           /\ t \in writing' => t \in writing
  PROVE  BegunSettled'
PROOF
  <1>1. SUFFICES ASSUME phase' = "up", NEW i \in 1 .. Begun,
                        order[i] \in Range(records), order[i] # cur
                 PROVE  Settled(order[i])'
    BY DEF BegunSettled, Begun
  <1>2. Settled(order[i])
    BY <1>1 DEF BegunSettled
  <1>3. order[i] \in Tasks
    BY OrderFacts
  <1>4. order[i] \notin writing
    BY <1>2 DEF Settled
  <1>5. QED
    BY <1>1, <1>2, <1>3, <1>4, SettledStays

\* The consumer lets a record go when it is settled.
LEMMA LetGo ==
  ASSUME ServiceInv, OrderConsistent, BegunSettled, phase = "up",
         UNCHANGED <<order, queue, records>>,
         NEW held \in Tasks, held = cur, Settled(held)',
         stored \subseteq stored', erased \subseteq erased',
         \A t \in Tasks \ {held} :
           /\ status'[t] = status[t] /\ error'[t] = error[t] /\ answer'[t] = answer[t]
           /\ t \in writing' => t \in writing
  PROVE  BegunSettled'
PROOF
  <1>1. SUFFICES ASSUME NEW i \in 1 .. Begun, order[i] \in Range(records)
                 PROVE  Settled(order[i])'
    BY DEF BegunSettled, Begun
  <1>2. PICK u \in Tasks : u = order[i]
    BY <1>1, OrderFacts
  <1>3. Settled(u)'
    <2>1. CASE u = held
      BY <2>1
    <2>2. CASE u # held
      <3>1. Settled(u)
        BY <1>1, <1>2, <2>2 DEF BegunSettled
      <3>2. u \notin writing
        BY <3>1 DEF Settled
      <3>3. QED
        BY <2>2, <3>1, <3>2, SettledStays
    <2>3. QED
      BY <2>1, <2>2
  <1>4. order'[i] = u
    BY <1>2
  <1>5. QED
    BY <1>3, <1>4

LEMMA BegunPreserved ==
  ASSUME AdmissionInv, OrderConsistent, BegunSettled, [Next]_vars
  PROVE  BegunSettled'
PROOF
  <1>1. /\ ServiceInv /\ status \in [Tasks -> Statuses] /\ answer \in [Tasks -> BOOLEAN]
        /\ error \in [Tasks -> {"none", "runner", "storage"}]
        /\ order \in Seq(Tasks) /\ records \in Seq(Tasks) /\ NoTask \notin Tasks
        /\ Begun \in Nat /\ Begun <= Len(order) /\ Begun + Len(queue) = Len(order)
        /\ Len(order) \in Nat /\ Len(queue) \in Nat
    BY OrderFacts, NoTaskAssumption DEF AdmissionInv, ServiceInv, TypeOK
  <1>2. ASSUME NEW t \in Tasks, Submit(t)
        PROVE  BegunSettled'
    <2>1. /\ status[t] = "new" /\ status' = [status EXCEPT ![t] = "queued"]
          /\ order' = Append(order, t) /\ queue' = Append(queue, t)
          /\ UNCHANGED <<phase, cur, error, answer, writing, stored, erased>>
      BY <1>2 DEF Submit
    <2>2. PICK kept \in Kept : records' = Append(kept, t)
      BY <1>2 DEF Submit
    <2>3. Begun' = Begun
      <3>1. queue \in Seq(Tasks)
        BY <1>1 DEF ServiceInv, TypeOK
      <3>2. Len(order') = Len(order) + 1 /\ Len(queue') = Len(queue) + 1
        BY <1>1, <2>1, <3>1, AppendProperties
      <3>3. QED
        BY <1>1, <3>2 DEF Begun
    <2>4. ASSUME NEW u \in Range(records'), u # t
          PROVE  u \in Range(records)
      <3>1. kept \in Seq(Tasks)
        BY <1>1, <2>2, KeptType DEF ServiceInv
      <3>2. PICK k \in 1 .. Len(kept) : kept[k] = u
        BY <2>2, <2>4, <3>1, AppendProperties DEF Range
      <3>3. \E j \in 1 .. Len(records) : kept[k] = records[j]
        <4>1. CASE kept = records
          BY <4>1
        <4>2. CASE \E i \in 1 .. Len(records) :
                     /\ Len(kept) = Len(records) - 1
                     /\ \A j \in 1 .. Len(kept) : kept[j] = records[IF j < i THEN j ELSE j + 1]
          <5>1. PICK i \in 1 .. Len(records) :
                  /\ Len(kept) = Len(records) - 1
                  /\ \A j \in 1 .. Len(kept) : kept[j] = records[IF j < i THEN j ELSE j + 1]
            BY <4>2
          <5>2. (IF k < i THEN k ELSE k + 1) \in 1 .. Len(records)
            BY <1>1, <5>1
          <5>3. QED
            BY <5>1, <5>2
        <4>3. QED
          BY <1>1, <2>2, <4>1, <4>2, KeptElements DEF ServiceInv
      <3>4. QED
        BY <1>1, <3>2, <3>3 DEF Range
    <2>5. ASSUME phase' = "up", NEW i \in 1 .. Begun, order'[i] \in Range(records'),
                 order'[i] # cur'
          PROVE  \E u \in Tasks : u = order'[i] /\ Settled(u)'
      <3>1. /\ i \in 1 .. Len(order) /\ order'[i] = order[i] /\ order[i] \in Tasks
        BY <1>1, <2>1, AppendProperties
      <3>2. PICK u \in Tasks : u = order[i]
        BY <3>1
      <3>3. u # t
        BY <2>1, <3>1, <3>2 DEF OrderConsistent
      <3>4. u \in Range(records) /\ u # cur
        BY <2>1, <2>4, <2>5, <3>1, <3>2, <3>3
      <3>5. Settled(u)
        BY <2>1, <2>5, <3>2, <3>4 DEF BegunSettled
      <3>6. status'[u] = status[u] /\ u \notin writing
        BY <1>1, <2>1, <3>3, <3>5 DEF Settled
      <3>7. Settled(u)'
        BY <2>1, <3>5, <3>6, SettledStays
      <3>8. QED
        BY <3>1, <3>2, <3>7
    <2>6. ASSUME phase' = "up", NEW i \in 1 .. Begun', order'[i] \in Range(records'),
                 order'[i] # cur'
          PROVE  Settled(order[i])'
      <3>1. PICK u \in Tasks : u = order'[i] /\ Settled(u)'
        BY <2>3, <2>5, <2>6
      <3>2. QED
        BY <3>1
    <2>7. QED
      BY <2>6 DEF BegunSettled
  <1>3. CASE Take
    <2>1. /\ order' = order /\ records' = records /\ phase' = phase /\ phase = "up"
          /\ cur = NoTask /\ cur' = Head(queue) /\ queue' = Tail(queue) /\ queue # <<>>
          /\ status' = [status EXCEPT ![Head(queue)] = "running"]
          /\ UNCHANGED <<error, answer, writing, stored, erased>>
      BY <1>1, <1>3 DEF Take, ghosts, ServiceInv, WorkerConsistent
    <2>2. /\ Len(queue) >= 1 /\ cur' = queue[1] /\ cur' \in Tasks
          /\ Len(queue') = Len(queue) - 1
      BY <1>1, <2>1, HeadTailProperties DEF ServiceInv, TypeOK
    <2>3. Begun' = Begun + 1 /\ order[Begun + 1] = cur'
      <3>1. Begun' = Begun + 1
        <4>1. Len(order') = Len(order) /\ Len(queue') = Len(queue) - 1
          BY <2>1, <2>2
        <4>2. QED
          BY <1>1, <4>1 DEF Begun
      <3>2. 1 \in 1 .. Len(queue)
        BY <1>1, <2>2
      <3>3. QED
        BY <2>2, <3>1, <3>2 DEF OrderConsistent
    <2>4. ASSUME NEW i \in 1 .. Begun + 1, order[i] \in Range(records), order[i] # cur'
          PROVE  Settled(order[i])'
      <3>1. i \in 1 .. Begun /\ order[i] \in Tasks
        <4>1. i # Begun + 1
          BY <2>3, <2>4
        <4>2. i \in 1 .. Begun /\ i \in 1 .. Len(order)
          BY <1>1, <4>1
        <4>3. QED
          BY <1>1, <4>2
      <3>2. Settled(order[i])
        BY <1>1, <2>1, <2>4, <3>1 DEF BegunSettled
      <3>3. status'[order[i]] = status[order[i]] /\ order[i] \notin writing
        BY <1>1, <2>1, <2>2, <2>4, <3>1, <3>2 DEF Settled
      <3>4. QED
        BY <2>1, <3>1, <3>2, <3>3, SettledStays
    <2>5. QED
      BY <2>1, <2>3, <2>4 DEF BegunSettled
  <1>4. CASE \/ HistoryListFails
             \/ \E b \in BOOLEAN : RunnerFails(b)
             \/ RequestApproval
             \/ ApprovalReturns
             \/ \E t \in Tasks : StoreFailsOnce(t)
    <2>1. /\ UNCHANGED <<phase, order, queue, records, stored, erased, cur>>
          /\ writing' \subseteq writing \cup {cur}
          /\ \E v : status' = [status EXCEPT ![cur] = v]
          /\ error' = error \/ \E v : error' = [error EXCEPT ![cur] = v]
          /\ answer' = answer \/ \E v : answer' = [answer EXCEPT ![cur] = v]
      BY <1>4 DEF HistoryListFails, RunnerFails, RequestApproval, ApprovalReturns,
         StoreFailsOnce, FailWith, ghosts
    <2>2. \A t \in Tasks \ {cur} :
            /\ status'[t] = status[t] /\ error'[t] = error[t] /\ answer'[t] = answer[t]
            /\ t \in writing' => t \in writing
      BY <1>1, <2>1
    <2>3. QED
      BY <1>1, <2>1, <2>2, BegunStays
  <1>5. ASSUME NEW b \in BOOLEAN, RunnerCompletes(b)
        PROVE  BegunSettled'
    <2>1. /\ UNCHANGED <<phase, order, queue, records, stored, erased, error>>
          /\ status' = [status EXCEPT ![cur] = "completed"]
          /\ answer' = [answer EXCEPT ![cur] = b]
          /\ pc = "run"
      BY <1>5 DEF RunnerCompletes, ghosts
    <2>2. phase = "up" /\ cur \in Tasks /\ writing = {}
      BY <1>1, <2>1, HeldRecord DEF ServiceInv, WorkerConsistent
    <2>3. CASE b
      <3>1. cur' = cur /\ writing' = writing \cup {cur}
        BY <1>5, <2>3 DEF RunnerCompletes
      <3>2. \A t \in Tasks \ {cur} :
              /\ status'[t] = status[t] /\ error'[t] = error[t] /\ answer'[t] = answer[t]
              /\ t \in writing' => t \in writing
        BY <1>1, <2>1, <3>1
      <3>3. QED
        BY <1>1, <2>1, <3>1, <3>2, BegunStays
    <2>4. CASE ~b
      <3>1. writing' = writing
        BY <1>5, <2>4 DEF RunnerCompletes
      <3>2. PICK held \in Tasks : held = cur
        BY <2>2
      <3>3. \A t \in Tasks \ {held} :
              /\ status'[t] = status[t] /\ error'[t] = error[t] /\ answer'[t] = answer[t]
              /\ t \in writing' => t \in writing
        BY <1>1, <2>1, <3>1, <3>2
      <3>4. status'[held] = "completed" /\ ~answer'[held] /\ held \notin writing'
        BY <1>1, <2>1, <2>2, <2>4, <3>1, <3>2
      <3>5. Settled(held)'
        BY <3>4 DEF Settled, Terminal
      <3>6. QED
        BY <1>1, <2>1, <2>2, <3>2, <3>3, <3>5, LetGo
    <2>5. QED
      BY <2>3, <2>4
  <1>6. ASSUME NEW t \in Tasks, StoreCommits(t)
        PROVE  BegunSettled'
    <2>1. /\ UNCHANGED <<phase, order, queue, records, erased, error, answer, status>>
          /\ writing' = writing \ {t} /\ stored' = stored \cup {t} /\ t \in writing
          /\ cur' = IF t = cur THEN NoTask ELSE cur
      BY <1>6 DEF StoreCommits
    <2>2. CASE t = cur
      <3>1. phase = "up" /\ status[cur] \in Terminal
        <4>1. pc \in {"store", "fail"}
          BY <1>1, <2>1, <2>2 DEF ServiceInv, WorkerConsistent, TypeOK
        <4>2. QED
          BY <1>1, <4>1, HeldRecord DEF StatusAt, Terminal
      <3>2. Settled(t)'
        BY <2>1, <2>2, <3>1 DEF Settled
      <3>3. \A u \in Tasks \ {t} :
              /\ status'[u] = status[u] /\ error'[u] = error[u] /\ answer'[u] = answer[u]
              /\ u \in writing' => u \in writing
        BY <2>1
      <3>4. stored \subseteq stored' /\ erased \subseteq erased'
        BY <2>1
      <3>5. QED
        BY <1>1, <2>1, <2>2, <3>1, <3>2, <3>3, <3>4, LetGo
    <2>3. CASE t # cur
      <3>1. phase' # "up"
        BY <1>1, <2>1, <2>3 DEF ServiceInv, WorkerConsistent
      <3>2. QED
        BY <3>1 DEF BegunSettled
    <2>4. QED
      BY <2>2, <2>3
  <1>7. ASSUME NEW t \in Tasks, StoreFailsTwice(t)
        PROVE  BegunSettled'
    <2>1. /\ UNCHANGED <<phase, order, queue, records, stored, erased, answer, status>>
          /\ t = cur /\ pc = "fail" /\ writing' = writing \ {t}
          /\ error' = [error EXCEPT ![t] = "storage"] /\ cur' = NoTask
      BY <1>7 DEF StoreFailsTwice, ghosts
    <2>2. phase = "up" /\ status[cur] \in Terminal
      BY <1>1, <2>1, HeldRecord DEF StatusAt, Terminal
    <2>3. Settled(t)'
      BY <1>1, <2>1, <2>2 DEF Settled
    <2>4. \A u \in Tasks \ {t} :
            /\ status'[u] = status[u] /\ error'[u] = error[u] /\ answer'[u] = answer[u]
            /\ u \in writing' => u \in writing
      BY <1>1, <2>1
    <2>5. QED
      BY <1>1, <2>1, <2>2, <2>3, <2>4, LetGo
  <1>8. ASSUME NEW c \in Conversations, DeleteCommits(c)
        PROVE  BegunSettled'
    <2>1. /\ UNCHANGED <<phase, cur, order, queue, records, status, error, answer, writing>>
          /\ stored' = stored \ InConversation(c)
          /\ erased' = erased \cup {t \in InConversation(c) : status[t] \in Terminal}
      BY <1>8 DEF DeleteCommits, memory
    <2>2. ASSUME NEW t \in Tasks, Settled(t)
          PROVE  Settled(t)'
      BY <2>1, <2>2 DEF Settled, InConversation
    <2>3. ASSUME phase' = "up", NEW i \in 1 .. Begun, order[i] \in Range(records),
                 order[i] # cur
          PROVE  Settled(order[i])'
      BY <1>1, <2>1, <2>2, <2>3, OrderFacts DEF BegunSettled
    <2>4. QED
      BY <2>1, <2>3 DEF BegunSettled, Begun
  <1>9. CASE Close \/ Exit \/ Crash \/ \E t \in Tasks : OrphanFails(t)
    <2>1. phase' # "up"
      BY <1>1, <1>9 DEF Close, Exit, Crash, MemoryLost, OrphanFails, ServiceInv, WorkerConsistent
    <2>2. QED
      BY <2>1 DEF BegunSettled
  <1>10. CASE Start
    <2>1. records' = <<>>
      BY <1>1, <1>10 DEF Start, memory, ServiceInv, DownIsEmpty
    <2>2. Range(records') = {}
      BY <2>1 DEF Range
    <2>3. QED
      BY <2>2 DEF BegunSettled
  <1>11. CASE \/ \E t \in Tasks, approved \in BOOLEAN : Decide(t, approved)
              \/ \E c \in Conversations : RequestDelete(c) \/ DeleteFails(c)
              \/ HistoryListed
              \/ UNCHANGED vars
    <2>1. UNCHANGED <<phase, cur, order, queue, records, status, error, answer, writing,
                      stored, erased>>
      BY <1>11 DEF Decide, RequestDelete, DeleteFails, HistoryListed, vars, memory, ghosts
    <2>2. QED
      BY <1>1, <2>1, BegunStays
  <1>12. QED
    BY <1>2, <1>3, <1>4, <1>5, <1>6, <1>7, <1>8, <1>9, <1>10, <1>11
    DEF Next, Client, Consumer, Store, StoreEnds, DeleteEnds, Process

----------------------------------------------------------------------------

\* Everything together.
HistoryInv ==
  AdmissionInv /\ OrderConsistent /\ HistoryExact /\ BegunSettled

LEMMA InitHistory == Init => OrderConsistent /\ HistoryExact /\ BegunSettled
PROOF
  <1>1. ASSUME Init PROVE OrderConsistent /\ HistoryExact /\ BegunSettled
    <2>1. /\ order = <<>> /\ queue = <<>> /\ writing = {} /\ cur = NoTask /\ stored = {}
          /\ phase = "down" /\ history = [c \in Conversations |-> <<>>]
      BY <1>1 DEF Init
    <2>2. Len(order) = 0 /\ Len(queue) = 0
      BY <2>1
    <2>3. OrderConsistent
      BY <2>1, <2>2 DEF OrderConsistent, Begun
    <2>4. ASSUME NEW c \in Conversations PROVE Recent(history[c], Stored(c))
      <3>1. Stored(c) = <<>>
        BY <2>1, ThoseEmpty DEF Stored
      <3>2. QED
        BY <2>1, <3>1, EmptyIsRecent
    <2>5. QED
      BY <2>1, <2>3, <2>4, HistoryIs DEF BegunSettled
  <1>2. QED
    BY <1>1

\* The inductive invariant of order and history holds in every reachable state.
THEOREM HistoryInvariant == Spec => []HistoryInv
PROOF
  <1>1. HistoryInv /\ AdmissionInv' /\ [Next]_vars => HistoryInv'
    BY OrderPreserved, HistoryPreserved, BegunPreserved DEF HistoryInv, AdmissionInv
  <1>2. Init => (AdmissionInv => HistoryInv)
    BY InitHistory DEF HistoryInv
  <1>3. QED
    BY <1>1, <1>2, AdmissionInvariant, PTL DEF Spec

\* The database holds exactly the last exchanges that were stored since the last delete, in
\* the order of submission, whatever was cancelled, retried, failed or killed.
THEOREM DatabaseIsExact == Spec => []HistoryExact
PROOF
  <1>1. HistoryInv => HistoryExact
    BY DEF HistoryInv
  <1>2. QED
    BY <1>1, HistoryInvariant, PTL

\* A task that reads the history sees the exchange of each task before it that still has a
\* record, or that record says why there is none.
THEOREM PredecessorsAreSettled == Spec => []PredecessorsSettled
PROOF
  <1>1. ASSUME HistoryInv, pc \in {"list", "run", "approval"},
               NEW i \in DOMAIN order, NEW j \in DOMAIN order,
               i < j, order[j] = cur, order[i] \in Range(records)
        PROVE  Settled(order[i])
    <2>1. /\ ServiceInv /\ OrderConsistent /\ BegunSettled
          /\ Begun \in Nat /\ Begun <= Len(order) /\ Len(order) \in Nat
          /\ DOMAIN order = 1 .. Len(order)
      BY <1>1, OrderFacts DEF HistoryInv, AdmissionInv
    <2>2. phase = "up" /\ cur \in Tasks /\ cur # NoTask
      BY <1>1, <2>1, HeldRecord, NoTaskAssumption
    <2>3. Begun > 0 /\ order[Begun] = cur
      BY <2>1, <2>2 DEF OrderConsistent
    <2>4. Begun \in 1 .. Len(order)
      BY <2>1, <2>3
    <2>5. j = Begun
      BY <1>1, <2>1, <2>3, <2>4 DEF OrderConsistent
    <2>6. i \in 1 .. Begun /\ order[i] # cur
      BY <1>1, <2>1, <2>3, <2>4, <2>5 DEF OrderConsistent
    <2>7. QED
      BY <1>1, <2>1, <2>2, <2>6 DEF BegunSettled
  <1>2. HistoryInv => PredecessorsSettled
    BY <1>1 DEF PredecessorsSettled
  <1>3. QED
    BY <1>2, HistoryInvariant, PTL

----------------------------------------------------------------------------
(* The page: what it keeps to.                                             *)

Nobody == Tasks \cup {NoTask}

\* Every variable stays in its type.
PageTypes ==
  /\ {active, loaded, stream, post, decided} \subseteq Nobody
  /\ shown \in Statuses \cup {"none"}
  /\ busy \in BOOLEAN
  /\ chat \in [after : Nobody, has : Seq(Tasks)]
  /\ loads \subseteq Nobody

\* The server has nothing more to say about task t, or nothing new.
OverOrGone(t) == t \notin Range(records) \/ status[t] \in Terminal

\* The page follows task t and knows that it is not over.
Follows(t) == stream = t /\ busy /\ post = NoTask

\* What the page speaks of has been submitted.
Known == \A t \in {active, stream, post, decided} \ {NoTask} : status[t] # "new"

\* Why a disabled button has a cause: the page waits for one answer at a time; a decision is
\* for a task that is followed, or that is over by now; and so is a task that is shown while
\* another is followed.
FollowConsistent ==
  /\ post # NoTask => busy /\ stream = NoTask
  /\ decided # NoTask => Follows(decided) \/ OverOrGone(decided)
  /\ shown = "waiting_approval" => active # NoTask /\ (Follows(active) \/ OverOrGone(active))
  /\ stream # NoTask /\ active # stream => Forgotten \/ Outrun

\* Why a conversation that is loaded after a task has what was stored before: the task has
\* left the queue, so nothing of an earlier one can be stored any more.
LoadConsistent ==
  /\ \A t \in Tasks : status[t] # "new" => \E i \in 1 .. Len(order) : order[i] = t
  /\ \A t \in (loads \cup {chat.after}) \ {NoTask} : \E i \in 1 .. Begun : order[i] = t

\* The inductive invariant of the page, on top of the service's.
PageInv ==
  PageTypes /\ Known /\ FollowConsistent /\ BusyHasCause /\ LoadConsistent /\ LoadsCatchUp

----------------------------------------------------------------------------
(* What the page needs of the service: what was submitted stays submitted, in its place; what *)
(* is over stays over; nothing is stored for a task that has left the queue before another;  *)
(* and the history holds whatever is stored, unless it is full.                              *)

\* What is chosen of a sequence has its chosen elements.
LEMMA ThoseHas ==
  ASSUME NEW T, NEW s \in Seq(T), NEW S, NEW k \in 1 .. Len(s), s[k] \in S
  PROVE  \E m \in 1 .. Len(Those(s, S)) : Those(s, S)[m] = s[k]
PROOF
  <1>1. PICK f : Steps(f, s, S) /\ Those(s, S) = f[Len(s)]
    BY ThoseIs
  <1>2. \A i \in 0 .. Len(s) : f[i] \in Seq(T)
    BY <1>1, StepsType
  <1> DEFINE Has(i) == \E m \in 1 .. Len(f[i]) : f[i][m] = s[k]
             P == {i \in Nat : i >= k => Has(i)}
  <1>3. Len(s) \in Nat
    OBVIOUS
  <1>4. 0 \in P
    OBVIOUS
  <1>5. ASSUME NEW i \in 1 .. Len(s), i - 1 \in P
        PROVE  i \in P
    <2>1. SUFFICES ASSUME i >= k PROVE Has(i)
      BY <1>3
    <2>2. PICK q, x : q = f[i - 1] /\ x = s[i]
      OBVIOUS
    <2>3. /\ q \in Seq(T) /\ x \in T /\ Len(q) \in Nat
          /\ f[i] = IF x \in S THEN Append(q, x) ELSE q
      <3>1. i - 1 \in 0 .. Len(s)
        BY <1>3
      <3>2. q \in Seq(T) /\ x \in T
        BY <1>2, <2>2, <3>1
      <3>3. f[i] = IF x \in S THEN Append(q, x) ELSE q
        BY <1>1, <2>2 DEF Steps, Longer
      <3>4. QED
        BY <3>2, <3>3
    <2>4. /\ Len(Append(q, x)) = Len(q) + 1 /\ Append(q, x)[Len(q) + 1] = x
          /\ \A m \in 1 .. Len(q) : Append(q, x)[m] = q[m]
      BY <2>3, AppendProperties
    <2>5. CASE i = k
      <3>1. f[i] = Append(q, x) /\ x = s[k]
        BY <2>2, <2>3, <2>5
      <3>2. Len(q) + 1 \in 1 .. Len(f[i]) /\ f[i][Len(q) + 1] = s[k]
        BY <2>3, <2>4, <3>1
      <3>3. QED
        BY <3>2
    <2>6. CASE i # k
      <3>1. i - 1 >= k
        BY <2>1, <2>6
      <3>2. PICK m \in 1 .. Len(q) : q[m] = s[k]
        BY <1>5, <2>2, <3>1
      <3>3. m \in 1 .. Len(f[i]) /\ f[i][m] = s[k]
        BY <2>3, <2>4, <3>2
      <3>4. QED
        BY <3>3
    <2>7. QED
      BY <2>5, <2>6
  <1>6. \A i \in 0 .. Len(s) : i \in P
    <2> HIDE DEF P
    <2>1. QED
      BY <1>3, <1>4, <1>5, UpTo
  <1>7. Has(Len(s))
    <2>1. Len(s) \in 0 .. Len(s) /\ Len(s) >= k
      BY <1>3
    <2>2. QED
      BY <1>6, <2>1
  <1>8. QED
    BY <1>1, <1>7

\* What is stored of a conversation is in its history, unless that is full.
LEMMA HistoryHas ==
  ASSUME HistoryInv, NEW i \in 1 .. Len(order), order[i] \in stored
  PROVE  LET c == conv[order[i]]
         IN  order[i] \in Range(history[c]) \/ Len(history[c]) = MaxPairs
PROOF
  <1>1. /\ order \in Seq(Tasks) /\ conv \in [Tasks -> Conversations]
        /\ history \in [Conversations -> Seq(Tasks)]
    BY DEF HistoryInv, AdmissionInv, ServiceInv, TypeOK
  <1>2. PICK t \in Tasks, c \in Conversations : t = order[i] /\ c = conv[t]
    BY <1>1
  <1>3. PICK h, all, S : /\ h = history[c] /\ all = Those(order, S)
                         /\ S = InConversation(c) \cap stored
    OBVIOUS
  <1>4. h \in Seq(Tasks) /\ all \in Seq(Tasks)
    BY <1>1, <1>3, ThoseType
  <1>5. PICK m \in 1 .. Len(all) : all[m] = t
    <2>1. order[i] \in S
      BY <1>2, <1>3 DEF InConversation
    <2>2. \E m \in 1 .. Len(Those(order, S)) : Those(order, S)[m] = order[i]
      BY <1>1, <2>1, ThoseHas
    <2>3. QED
      BY <1>2, <1>3, <2>2
  <1>6. IsSuffix(h, all) /\ Len(h) = IF Len(all) < MaxPairs THEN Len(all) ELSE MaxPairs
    BY <1>3 DEF HistoryInv, HistoryExact
  <1>7. CASE Len(h) = Len(all)
    <2>1. \A j \in 1 .. Len(h) : h[j] = all[Len(all) - Len(h) + j]
      BY <1>4, <1>6, SuffixIs
    <2>2. m \in 1 .. Len(h) /\ Len(all) - Len(h) + m = m
      BY <1>4, <1>5, <1>7
    <2>3. h[m] = t
      BY <1>5, <2>1, <2>2
    <2>4. m \in DOMAIN h
      BY <1>4, <2>2
    <2>5. QED
      BY <1>2, <1>3, <2>3, <2>4 DEF Range
  <1>8. QED
    BY <1>2, <1>3, <1>6, <1>7

\* Submissions stay where they are, and what has left the queue does not return.
LEMMA OrderGrows ==
  ASSUME ServiceInv, OrderConsistent, [Next]_vars
  PROVE  /\ Len(order) \in Nat /\ Begun \in Nat /\ Begun <= Len(order)
         /\ Len(order') \in Nat /\ Begun' \in Nat /\ Begun <= Begun'
         /\ Len(order) <= Len(order')
         /\ \A i \in 1 .. Len(order) : order'[i] = order[i]
PROOF
  <1>1. /\ order \in Seq(Tasks) /\ queue \in Seq(Tasks)
        /\ Len(order) \in Nat /\ Len(queue) \in Nat
        /\ Begun \in Nat /\ Begun <= Len(order) /\ Begun + Len(queue) = Len(order)
    BY OrderFacts
  <1>2. ASSUME NEW t \in Tasks, Submit(t)
        PROVE  /\ Len(order') = Len(order) + 1 /\ Begun' = Begun
               /\ \A i \in 1 .. Len(order) : order'[i] = order[i]
    <2>1. order' = Append(order, t) /\ queue' = Append(queue, t)
      BY <1>2 DEF Submit
    <2>2. /\ Len(order') = Len(order) + 1 /\ Len(queue') = Len(queue) + 1
          /\ \A i \in 1 .. Len(order) : order'[i] = order[i]
      BY <1>1, <2>1, AppendProperties
    <2>3. QED
      BY <1>1, <2>2 DEF Begun
  <1>3. CASE Take
    <2>1. order' = order /\ queue # <<>> /\ queue' = Tail(queue)
      BY <1>3 DEF Take, ghosts
    <2>2. Len(queue') = Len(queue) - 1
      BY <1>1, <2>1, HeadTailProperties
    <2>3. Begun' = Begun + 1 /\ Len(queue) > 0
      BY <1>1, <2>1, <2>2, EmptySeq DEF Begun
    <2>4. QED
      BY <1>1, <2>1, <2>3
  <1>4. CASE Exit \/ Crash
    <2>1. order' = order /\ queue' = <<>>
      BY <1>4 DEF Exit, Crash, MemoryLost, ghosts
    <2>2. Begun' = Len(order)
      BY <1>1, <2>1 DEF Begun
    <2>3. QED
      BY <1>1, <2>1, <2>2
  <1>5. CASE UNCHANGED <<order, queue>>
    BY <1>1, <1>5 DEF Begun
  <1>6. QED
    <2>1. \/ \E t \in Tasks : Submit(t)
          \/ Take \/ Exit \/ Crash
          \/ UNCHANGED <<order, queue>>
      BY DEF Next, Client, Consumer, Store, StoreEnds, DeleteEnds, Process, Decide,
         RequestDelete, HistoryListed, HistoryListFails, RunnerFails, RunnerCompletes,
         FailWith, RequestApproval, ApprovalReturns, StoreCommits, StoreFailsOnce,
         StoreFailsTwice, OrphanFails, DeleteCommits, DeleteFails, Start, Close, vars,
         memory, ghosts
    <2>2. QED
      BY <1>1, <1>2, <1>3, <1>4, <1>5, <2>1

\* What is stored is the exchange of the last task that has left the queue.
LEMMA StoredIsLast ==
  ASSUME ServiceInv, OrderConsistent, [Next]_vars, NEW t \in stored' \ stored
  PROVE  Begun \in 1 .. Len(order) /\ order[Begun] = t
PROOF
  <1>1. \/ \E u \in Tasks : StoreCommits(u)
        \/ stored' \subseteq stored
    BY DEF Next, Client, Consumer, Store, StoreEnds, DeleteEnds, Process, Submit, Take, Exit,
       Crash, MemoryLost, Decide, RequestDelete, HistoryListed, HistoryListFails, RunnerFails,
       RunnerCompletes, FailWith, RequestApproval, ApprovalReturns, StoreFailsOnce,
       StoreFailsTwice, OrphanFails, DeleteCommits, DeleteFails, Start, Close, vars, ghosts
  <1>2. PICK u \in Tasks : StoreCommits(u)
    BY <1>1
  <1>3. stored' = stored \cup {u}
    BY <1>2 DEF StoreCommits
  <1>4. QED
    BY <1>2, <1>3, StoredOrdered

\* Evicting adds no record.
LEMMA KeptRange ==
  ASSUME TypeOK, NEW kept \in Kept
  PROVE  Range(kept) \subseteq Range(records)
PROOF
  <1>1. kept \in Seq(Tasks) /\ records \in Seq(Tasks) /\ Len(records) \in Nat
    BY KeptType DEF TypeOK
  <1>2. ASSUME NEW k \in 1 .. Len(kept)
        PROVE  \E j \in 1 .. Len(records) : kept[k] = records[j]
    <2>1. CASE kept = records
      BY <2>1
    <2>2. CASE \E i \in 1 .. Len(records) :
                 /\ Len(kept) = Len(records) - 1
                 /\ \A j \in 1 .. Len(kept) : kept[j] = records[IF j < i THEN j ELSE j + 1]
      <3>1. PICK i \in 1 .. Len(records) :
              /\ Len(kept) = Len(records) - 1
              /\ \A j \in 1 .. Len(kept) : kept[j] = records[IF j < i THEN j ELSE j + 1]
        BY <2>2
      <3>2. (IF k < i THEN k ELSE k + 1) \in 1 .. Len(records)
        BY <1>1, <3>1
      <3>3. QED
        BY <3>1, <3>2
    <2>3. QED
      BY <2>1, <2>2, KeptElements
  <1>3. ASSUME NEW x \in Range(kept) PROVE x \in Range(records)
    <2>1. PICK k \in 1 .. Len(kept) : x = kept[k]
      BY <1>1, <1>3 DEF Range
    <2>2. PICK j \in 1 .. Len(records) : x = records[j]
      BY <1>2, <2>1
    <2>3. QED
      BY <1>1, <2>2 DEF Range
  <1>4. QED
    BY <1>3

\* A status changes for the record that is held, to an end or between the awaits, or with
\* the process, and a record is new only when its task is.
LEMMA OverStays ==
  ASSUME ServiceInv, [Next]_vars, NEW t \in Tasks, status[t] # "new"
  PROVE  /\ status'[t] # "new"
         /\ OverOrGone(t) => OverOrGone(t)'
         /\ status[t] \in Terminal => status'[t] \in Terminal
         /\ t \notin Range(records) => t \notin Range(records')
PROOF
  <1>0. /\ status \in [Tasks -> Statuses] /\ records \in Seq(Tasks) /\ TypeOK
        /\ Len(records) \in Nat
    BY DEF ServiceInv, TypeOK
  <1>1. /\ status'[t] # "new"
        /\ status[t] \in Terminal => status'[t] \in Terminal
    <2>1. ASSUME NEW u \in Tasks, Submit(u)
          PROVE  status'[t] = status[t]
      BY <1>0, <2>1 DEF Submit
    <2>2. CASE Take
      <3>1. queue \in Seq(Tasks) /\ queue # <<>>
        BY <2>2 DEF Take, ServiceInv, TypeOK
      <3>2. Head(queue) = queue[1] /\ 1 \in 1 .. Len(queue)
        BY <3>1, HeadTailProperties, EmptySeq
      <3>3. status[Head(queue)] = "queued"
        BY <3>2 DEF ServiceInv, QueueHoldsQueued
      <3>4. status' = [status EXCEPT ![Head(queue)] = "running"]
        BY <2>2 DEF Take
      <3>5. QED
        BY <1>0, <3>3, <3>4 DEF Terminal
    <2>3. CASE \/ HistoryListFails \/ \E b \in BOOLEAN : RunnerFails(b) \/ RunnerCompletes(b)
               \/ \E u \in Tasks : StoreFailsOnce(u)
      <3>1. status' = [status EXCEPT ![cur] = "failed"] \/
            status' = [status EXCEPT ![cur] = "completed"]
        BY <2>3 DEF HistoryListFails, RunnerFails, RunnerCompletes, StoreFailsOnce, FailWith
      <3>2. QED
        BY <1>0, <3>1 DEF Terminal
    <2>4. CASE RequestApproval \/ ApprovalReturns
      <3>1. /\ \/ status' = [status EXCEPT ![cur] = "waiting_approval"]
               \/ status' = [status EXCEPT ![cur] = "running"]
            /\ pc \in {"run", "approval"}
        BY <2>4 DEF RequestApproval, ApprovalReturns
      <3>2. cur \in Tasks /\ status[cur] \notin Terminal
        BY <3>1, HeldRecord DEF StatusAt, Terminal
      <3>3. QED
        BY <1>0, <3>1, <3>2
    <2>5. CASE Close
      <3>1. status' = [u \in Tasks |->
                         IF u = cur /\ pc = "approval" THEN "running" ELSE status[u]]
        BY <2>5 DEF Close
      <3>2. pc = "approval" => status[cur] \notin Terminal
        BY HeldRecord DEF StatusAt, Terminal
      <3>3. QED
        BY <3>1, <3>2
    <2>6. CASE Exit \/ Crash
      <3>1. status' = [u \in Tasks |-> IF status[u] \in Active THEN "lost" ELSE status[u]]
        BY <2>6 DEF Exit, Crash, MemoryLost
      <3>2. QED
        BY <3>1 DEF Active, Terminal
    <2>7. CASE status' = status
      BY <2>7
    <2>8. QED
      <3>1. \/ \E u \in Tasks : Submit(u)
            \/ Take
            \/ HistoryListFails \/ \E b \in BOOLEAN : RunnerFails(b) \/ RunnerCompletes(b)
            \/ \E u \in Tasks : StoreFailsOnce(u)
            \/ RequestApproval \/ ApprovalReturns \/ Close \/ Exit \/ Crash
            \/ status' = status
        BY DEF Next, Client, Consumer, Store, StoreEnds, DeleteEnds, Process, Decide,
           RequestDelete, HistoryListed, StoreCommits, StoreFailsTwice, OrphanFails,
           DeleteCommits, DeleteFails, Start, vars, memory
      <3>2. QED
        BY <2>1, <2>2, <2>3, <2>4, <2>5, <2>6, <2>7, <3>1
  <1>2. ASSUME t \notin Range(records) PROVE t \notin Range(records')
    <2>1. ASSUME NEW u \in Tasks, Submit(u)
          PROVE  t \notin Range(records')
      <3>1. PICK kept \in Kept : records' = Append(kept, u)
        BY <2>1 DEF Submit
      <3>2. t # u
        BY <2>1 DEF Submit
      <3>3. kept \in Seq(Tasks) /\ Range(kept) \subseteq Range(records)
        BY <1>0, <3>1, KeptType, KeptRange
      <3>4. QED
        BY <1>2, <3>1, <3>2, <3>3, AppendProperties DEF Range
    <2>2. CASE Exit \/ Crash
      <3>1. records' = <<>>
        BY <2>2 DEF Exit, Crash, MemoryLost
      <3>2. QED
        BY <3>1, EmptySeq DEF Range
    <2>3. QED
      <3>1. \/ \E u \in Tasks : Submit(u)
            \/ Exit \/ Crash
            \/ records' = records
        BY DEF Next, Client, Consumer, Store, StoreEnds, DeleteEnds, Process, Take, Decide,
           RequestDelete, HistoryListed, HistoryListFails, RunnerFails, RunnerCompletes,
           FailWith, RequestApproval, ApprovalReturns, StoreCommits, StoreFailsOnce,
           StoreFailsTwice, OrphanFails, DeleteCommits, DeleteFails, Start, Close, vars,
           memory
      <3>2. QED
        BY <1>2, <2>1, <2>2, <3>1
  <1>3. QED
    BY <1>1, <1>2 DEF OverOrGone

\* A task is new until it is submitted, and its conversation is its own.
LEMMA NewStays ==
  ASSUME ServiceInv, [Next]_vars
  PROVE  /\ conv' = conv
         /\ \A t \in Tasks : status[t] = "new" /\ status'[t] # "new" => Submit(t)
PROOF
  <1>0. status \in [Tasks -> Statuses]
    BY DEF ServiceInv, TypeOK
  <1>1. conv' = conv
    BY DEF Next, Client, Consumer, Store, StoreEnds, DeleteEnds, Process, Submit, Take, Exit,
       Crash, MemoryLost, Decide, RequestDelete, HistoryListed, HistoryListFails, RunnerFails,
       RunnerCompletes, FailWith, RequestApproval, ApprovalReturns, StoreCommits,
       StoreFailsOnce, StoreFailsTwice, OrphanFails, DeleteCommits, DeleteFails, Start, Close,
       vars, memory
  <1>2. ASSUME NEW t \in Tasks, status[t] = "new", status'[t] # "new"
        PROVE  Submit(t)
    <2>1. ASSUME NEW u \in Tasks, Submit(u)
          PROVE  Submit(t)
      <3>1. u = t
        BY <1>0, <1>2, <2>1 DEF Submit
      <3>2. QED
        BY <2>1, <3>1
    <2>2. CASE Take
      <3>1. queue \in Seq(Tasks) /\ queue # <<>>
        BY <2>2 DEF Take, ServiceInv, TypeOK
      <3>2. Head(queue) = queue[1] /\ 1 \in 1 .. Len(queue)
        BY <3>1, HeadTailProperties, EmptySeq
      <3>3. status[Head(queue)] = "queued"
        BY <3>2 DEF ServiceInv, QueueHoldsQueued
      <3>4. status' = [status EXCEPT ![Head(queue)] = "running"]
        BY <2>2 DEF Take
      <3>5. QED
        BY <1>0, <1>2, <3>3, <3>4
    <2>3. CASE \/ HistoryListFails \/ \E b \in BOOLEAN : RunnerFails(b) \/ RunnerCompletes(b)
               \/ \E u \in Tasks : StoreFailsOnce(u)
               \/ RequestApproval \/ ApprovalReturns
      <3>1. pc \in {"list", "run", "approval", "store"} /\ \E v : status' = [status EXCEPT ![cur] = v]
        BY <2>3 DEF HistoryListFails, RunnerFails, RunnerCompletes, StoreFailsOnce, FailWith,
           RequestApproval, ApprovalReturns
      <3>2. status[cur] # "new"
        BY <3>1, HeldRecord DEF StatusAt
      <3>3. QED
        BY <1>0, <1>2, <3>1, <3>2
    <2>4. CASE Close
      <3>1. status' = [u \in Tasks |->
                         IF u = cur /\ pc = "approval" THEN "running" ELSE status[u]]
        BY <2>4 DEF Close
      <3>2. pc = "approval" => status[cur] # "new"
        BY HeldRecord DEF StatusAt
      <3>3. QED
        BY <1>2, <3>1, <3>2
    <2>5. CASE Exit \/ Crash
      <3>1. status' = [u \in Tasks |-> IF status[u] \in Active THEN "lost" ELSE status[u]]
        BY <2>5 DEF Exit, Crash, MemoryLost
      <3>2. QED
        BY <1>2, <3>1 DEF Active
    <2>6. CASE status' = status
      BY <1>2, <2>6
    <2>7. QED
      <3>1. \/ \E u \in Tasks : Submit(u)
            \/ Take
            \/ HistoryListFails \/ \E b \in BOOLEAN : RunnerFails(b) \/ RunnerCompletes(b)
            \/ \E u \in Tasks : StoreFailsOnce(u)
            \/ RequestApproval \/ ApprovalReturns \/ Close \/ Exit \/ Crash
            \/ status' = status
        BY DEF Next, Client, Consumer, Store, StoreEnds, DeleteEnds, Process, Decide,
           RequestDelete, HistoryListed, StoreCommits, StoreFailsTwice, OrphanFails,
           DeleteCommits, DeleteFails, Start, vars, memory
      <3>2. QED
        BY <2>1, <2>2, <2>3, <2>4, <2>5, <2>6, <3>1
  <1>3. QED
    BY <1>1, <1>2

\* A task that is over has left the queue.
LEMMA OverHasBegun ==
  ASSUME ServiceInv, OrderConsistent, LoadConsistent,
         NEW t \in Tasks, status[t] \in Terminal
  PROVE  \E i \in 1 .. Begun : order[i] = t
PROOF
  <1>1. /\ Len(order) \in Nat /\ Len(queue) \in Nat /\ Begun \in Nat
        /\ Begun + Len(queue) = Len(order)
    BY OrderFacts
  <1>2. PICK i \in 1 .. Len(order) : order[i] = t
    BY DEF LoadConsistent, Terminal
  <1>3. CASE i <= Begun
    BY <1>1, <1>2, <1>3
  <1>4. CASE ~(i <= Begun)
    <2>1. PICK k \in 1 .. Len(queue) : i = Begun + k
      <3>1. i - Begun \in 1 .. Len(queue) /\ i = Begun + (i - Begun)
        BY <1>1, <1>4
      <3>2. QED
        BY <3>1
    <2>2. queue[k] = t
      BY <1>2, <2>1 DEF OrderConsistent
    <2>3. status[t] = "queued"
      BY <2>2 DEF ServiceInv, QueueHoldsQueued
    <2>4. QED
      BY <2>3 DEF Terminal
  <1>5. QED
    BY <1>3, <1>4

----------------------------------------------------------------------------
(* The page uses the service as it is.                                     *)

LEMMA PageStepsServe ==
  ASSUME ServiceInv, [PageNext]_allVars
  PROVE  [Next]_vars
PROOF
  <1>1. ASSUME NEW t \in Tasks, SendTask(t)
        PROVE  Next
    <2>1. Submit(t)
      BY <1>1 DEF SendTask
    <2>2. QED
      BY <2>1 DEF Next, Client
  <1>2. ASSUME NEW approved \in BOOLEAN, SendDecision(approved)
        PROVE  Next
    <2>1. Decide(active, approved)
      BY <1>2 DEF SendDecision
    <2>2. active \in Range(records) /\ records \in Seq(Tasks)
      BY <2>1 DEF Decide, ServiceInv, TypeOK
    <2>3. active \in Tasks
      BY <2>2 DEF Range
    <2>4. QED
      BY <2>1, <2>3 DEF Next, Client
  <1>3. CASE TaskRefused \/ Reload \/ TaskAnswered \/ TaskNotAnswered \/ Update
             \/ StreamRefused \/ DecisionAnswered
    BY <1>3 DEF TaskRefused, Reload, TaskAnswered, TaskNotAnswered, Update, StreamRefused,
       DecisionAnswered
  <1>4. ASSUME NEW t \in loads, Loads(t) \/ LoadFails(t)
        PROVE  UNCHANGED vars
    BY <1>4 DEF Loads, LoadFails
  <1>5. CASE Service
    <2>1. Others \/ Consumer \/ Process \/ \E t \in Tasks : StoreEnds(t)
      BY <1>5 DEF Service
    <2>2. QED
      BY <2>1 DEF Others, Next, Client, Store
  <1>6. CASE UNCHANGED allVars
    BY <1>6 DEF allVars
  <1>7. QED
    BY <1>1, <1>2, <1>3, <1>4, <1>5, <1>6 DEF PageNext, User, Arrival

\* The task service under the page is the task service: whatever holds of it holds here.
THEOREM PageUsesService == PageSpec => Spec
PROOF
  <1>1. PageInit => Init /\ ServiceInv
    BY InitInv DEF PageInit
  <1>2. ServiceInv /\ [PageNext]_allVars => [Next]_vars
    BY PageStepsServe
  <1>3. ServiceInv /\ [Next]_vars => ServiceInv'
    BY TypePreserved, WorkerPreserved, QueuePreserved, DownPreserved DEF ServiceInv
  <1>4. QED
    BY <1>1, <1>2, <1>3, PTL DEF PageSpec, Spec

----------------------------------------------------------------------------
(* The inductive invariant of the page.                                    *)

LEMMA InitPage ==
  ASSUME PageInit
  PROVE  PageInv
PROOF
  <1>1. /\ order = <<>> /\ status = [t \in Tasks |-> "new"]
        /\ active = NoTask /\ shown = "none" /\ busy = FALSE /\ loaded = NoTask
        /\ chat = [after |-> NoTask, has |-> <<>>] /\ stream = NoTask /\ post = NoTask
        /\ decided = NoTask /\ loads = {NoTask}
    BY DEF PageInit, Init
  <1>2. PageTypes
    <2>1. <<>> \in Seq(Tasks)
      BY EmptySeq
    <2>2. QED
      BY <1>1, <2>1 DEF PageTypes, Nobody
  <1>3. Known /\ FollowConsistent /\ BusyHasCause
    BY <1>1 DEF Known, FollowConsistent, BusyHasCause
  <1>4. LoadConsistent
    BY <1>1 DEF LoadConsistent
  <1>5. LoadsCatchUp
    BY <1>1, EmptySeq DEF LoadsCatchUp
  <1>6. QED
    BY <1>2, <1>3, <1>4, <1>5 DEF PageInv

LEMMA TypesPreserved ==
  ASSUME ServiceInv, PageInv, [PageNext]_allVars
  PROVE  PageTypes' /\ Known'
PROOF
  <1>1. /\ PageTypes /\ Known /\ FollowConsistent /\ status \in [Tasks -> Statuses]
        /\ history[Conversation] \in Seq(Tasks)
    BY ConversationAssumption DEF PageInv, ServiceInv, TypeOK
  <1>2. \A t \in Tasks : status[t] # "new" => status'[t] # "new"
    BY PageStepsServe, OverStays
  <1>3. ASSUME NEW t \in Tasks, SendTask(t)
        PROVE  PageTypes' /\ Known'
    <2>1. status'[t] = "queued"
      BY <1>1, <1>3 DEF SendTask, Submit
    <2>2. QED
      BY <1>1, <1>2, <1>3, <2>1 DEF SendTask, PageTypes, Known, Nobody
  <1>4. CASE TaskRefused \/ TaskNotAnswered \/ StreamRefused \/ Reload
             \/ \E t \in loads : LoadFails(t)
    <2>1. <<>> \in Seq(Tasks)
      BY EmptySeq
    <2>2. PageTypes'
      <3>1. CASE TaskRefused \/ TaskNotAnswered \/ StreamRefused
        BY <1>1, <3>1 DEF TaskRefused, TaskNotAnswered, StreamRefused, PageTypes, Nobody
      <3>2. CASE Reload
        BY <1>1, <2>1, <3>2 DEF Reload, PageTypes, Nobody
      <3>3. CASE \E t \in loads : LoadFails(t)
        BY <1>1, <3>3 DEF LoadFails, view, PageTypes, Nobody
      <3>4. QED
        BY <1>4, <3>1, <3>2, <3>3
    <2>3. /\ {active', stream', post', decided'} \subseteq {active, stream, post, decided, NoTask}
      BY <1>4 DEF TaskRefused, TaskNotAnswered, StreamRefused, Reload, LoadFails, view
    <2>4. QED
      BY <1>1, <1>2, <2>2, <2>3 DEF PageTypes, Known, Nobody
  <1>5. CASE TaskAnswered \/ DecisionAnswered \/ Update
    <2>1. /\ {active', stream', post', decided'} \subseteq {active, stream, post, decided, NoTask}
          /\ chat' = chat /\ busy' \in BOOLEAN /\ loaded' \in {loaded, stream}
          /\ loads' \subseteq loads \cup {stream}
          /\ shown' \in {"queued", "waiting_approval", status[stream]}
          /\ Update => stream \in Range(records)
      BY <1>5 DEF TaskAnswered, DecisionAnswered, Update, Render, RenderEnd
    <2>2. shown' \in Statuses
      <3>1. Range(records) \subseteq Tasks
        BY DEF ServiceInv, TypeOK, Range
      <3>2. Update => shown' = status[stream]
        BY DEF Update, Render
      <3>3. TaskAnswered \/ DecisionAnswered => shown' \in {"queued", "waiting_approval"}
        BY DEF TaskAnswered, DecisionAnswered, Render
      <3>4. QED
        BY <1>1, <1>5, <2>1, <3>1, <3>2, <3>3 DEF Statuses, Active
    <2>3. QED
      BY <1>1, <1>2, <2>1, <2>2 DEF PageTypes, Known, Nobody
  <1>6. ASSUME NEW approved \in BOOLEAN, SendDecision(approved)
        PROVE  PageTypes' /\ Known'
    BY <1>1, <1>2, <1>6 DEF SendDecision, PageTypes, Known, Nobody, view
  <1>7. ASSUME NEW t \in loads, Loads(t)
        PROVE  PageTypes' /\ Known'
    <2>1. chat' \in [after : Nobody, has : Seq(Tasks)]
      BY <1>1, <1>7 DEF Loads, PageTypes
    <2>2. QED
      BY <1>1, <1>2, <1>7, <2>1 DEF Loads, PageTypes, Known, Nobody
  <1>8. CASE Service \/ UNCHANGED allVars
    BY <1>1, <1>2, <1>8 DEF Service, allVars, page, view, PageTypes, Known, Nobody
  <1>9. QED
    BY <1>3, <1>4, <1>5, <1>6, <1>7, <1>8 DEF PageNext, User, Arrival

\* A button that is disabled keeps its cause, and what the page follows or decides stays
\* followed or over.
LEMMA FollowPreserved ==
  ASSUME ServiceInv, PageInv, [PageNext]_allVars
  PROVE  FollowConsistent' /\ BusyHasCause'
PROOF
  <1>1. /\ PageTypes /\ Known /\ FollowConsistent /\ BusyHasCause
        /\ NoTask \notin Tasks /\ records \in Seq(Tasks)
    BY NoTaskAssumption DEF PageInv, ServiceInv, TypeOK
  <1>2. ASSUME NEW t \in {active, stream, post, decided}, t # NoTask
        PROVE  /\ OverOrGone(t) => t \notin Range(records') \/ status'[t] \in Terminal
               /\ status[t] \in Terminal => status'[t] \in Terminal
               /\ t \notin Range(records) => t \notin Range(records')
    <2>1. t \in Tasks /\ status[t] # "new"
      BY <1>1, <1>2 DEF PageTypes, Known, Nobody
    <2>2. QED
      BY <2>1, PageStepsServe, OverStays DEF OverOrGone
  <1>3. ASSUME NEW t \in Tasks, SendTask(t)
        PROVE  FollowConsistent' /\ BusyHasCause'
    BY <1>1, <1>2, <1>3 DEF SendTask, FollowConsistent, BusyHasCause, Follows, OverOrGone
  <1>4. CASE TaskRefused
    BY <1>1, <1>2, <1>4 DEF TaskRefused, FollowConsistent, BusyHasCause, Follows, OverOrGone,
       vars, memory
  <1>5. CASE TaskAnswered
    BY <1>1, <1>2, <1>5 DEF TaskAnswered, Render, FollowConsistent, BusyHasCause, Follows,
       OverOrGone, Terminal
  <1>6. CASE TaskNotAnswered
    BY <1>1, <1>2, <1>6 DEF TaskNotAnswered, FollowConsistent, BusyHasCause, Follows,
       OverOrGone
  <1>7. CASE Update
    <2>1. stream \in Tasks /\ stream # NoTask /\ post = NoTask
      BY <1>1, <1>7 DEF Update, Range, FollowConsistent
    <2>2. /\ active' = stream /\ shown' = status[stream] /\ busy' = (shown' \notin Terminal)
          /\ stream' = IF shown' \in Terminal THEN NoTask ELSE stream
          /\ post' = NoTask /\ decided' = decided /\ status' = status /\ records' = records
      BY <1>7, <2>1 DEF Update, Render, RenderEnd, vars, memory
    <2>3. decided # NoTask => Follows(decided)' \/ OverOrGone(decided)'
      BY <1>1, <1>2, <2>1, <2>2 DEF FollowConsistent, Follows, OverOrGone
    <2>4. "waiting_approval" \notin Terminal
      BY DEF Terminal
    <2>5. QED
      BY <2>1, <2>2, <2>3, <2>4 DEF FollowConsistent, BusyHasCause, Follows
  <1>8. CASE StreamRefused
    BY <1>1, <1>2, <1>8 DEF StreamRefused, FollowConsistent, BusyHasCause, Follows, OverOrGone,
       Forgotten, Outrun
  <1>9. ASSUME NEW approved \in BOOLEAN, SendDecision(approved)
        PROVE  FollowConsistent' /\ BusyHasCause'
    BY <1>1, <1>2, <1>9 DEF SendDecision, view, FollowConsistent, BusyHasCause, Follows,
       OverOrGone, Forgotten, Outrun
  <1>10. CASE DecisionAnswered
    BY <1>1, <1>2, <1>10 DEF DecisionAnswered, Render, FollowConsistent, BusyHasCause, Follows,
       OverOrGone, Forgotten, Outrun, Terminal
  <1>11. CASE Reload
    BY <1>11 DEF Reload, FollowConsistent, BusyHasCause
  <1>12. CASE Service \/ UNCHANGED allVars \/ \E t \in loads : Loads(t) \/ LoadFails(t)
    <2>1. UNCHANGED <<active, shown, busy, stream, post, decided>>
      BY <1>12 DEF Service, allVars, page, view, Loads, LoadFails
    <2>2. QED
      BY <1>1, <1>2, <2>1 DEF FollowConsistent, BusyHasCause, Follows, OverOrGone, Forgotten,
         Outrun
  <1>13. QED
    BY <1>3, <1>4, <1>5, <1>6, <1>7, <1>8, <1>9, <1>10, <1>11, <1>12
    DEF PageNext, User, Arrival

\* Whatever the page still loads after, or has loaded after, has left the queue.
LEMMA LoadPreserved ==
  ASSUME ServiceInv, OrderConsistent, PageInv, [PageNext]_allVars
  PROVE  LoadConsistent'
PROOF
  <1>1. PageTypes /\ LoadConsistent /\ [Next]_vars
    BY PageStepsServe DEF PageInv
  <1>2. /\ Len(order) \in Nat /\ Begun \in Nat /\ Begun <= Len(order)
        /\ Len(order') \in Nat /\ Begun' \in Nat /\ Begun <= Begun'
        /\ Len(order) <= Len(order')
        /\ \A i \in 1 .. Len(order) : order'[i] = order[i]
    BY <1>1, OrderGrows
  <1>3. ASSUME NEW t \in Tasks, status'[t] # "new"
        PROVE  \E i \in 1 .. Len(order') : order'[i] = t
    <2>1. CASE status[t] # "new"
      <3>1. PICK i \in 1 .. Len(order) : order[i] = t
        BY <1>1, <2>1 DEF LoadConsistent
      <3>2. i \in 1 .. Len(order') /\ order'[i] = t
        BY <1>2, <3>1
      <3>3. QED
        BY <3>2
    <2>2. CASE status[t] = "new"
      <3>1. Submit(t)
        BY <1>1, <1>3, <2>2, NewStays
      <3>2. order' = Append(order, t) /\ order \in Seq(Tasks)
        BY <3>1 DEF Submit, ServiceInv, TypeOK
      <3>3. Len(order') = Len(order) + 1 /\ order'[Len(order) + 1] = t
        BY <3>2, AppendProperties
      <3>4. Len(order) + 1 \in 1 .. Len(order')
        BY <1>2, <3>3
      <3>5. QED
        BY <3>3, <3>4
    <2>3. QED
      BY <2>1, <2>2
  <1>4. ASSUME NEW t \in (loads' \cup {chat'.after}) \ {NoTask}
        PROVE  \/ t \in loads \cup {chat.after}
               \/ t \in Tasks /\ status[t] \in Terminal
    <2>1. CASE Update
      <3>1. stream \in Tasks
        BY <2>1 DEF Update, Range, ServiceInv, TypeOK
      <3>2. chat' = chat
        BY <2>1 DEF Update, Render
      <3>3. \/ loads' \subseteq loads
            \/ loads' = loads \cup {stream} /\ status[stream] \in Terminal
        BY <2>1 DEF Update, RenderEnd
      <3>4. QED
        BY <1>4, <3>1, <3>2, <3>3
    <2>2. CASE Reload
      BY <1>4, <2>2 DEF Reload
    <2>3. CASE \E u \in loads : Loads(u) \/ LoadFails(u)
      BY <1>4, <2>3 DEF Loads, LoadFails, view
    <2>4. CASE \/ \E u \in Tasks : SendTask(u)
               \/ \E approved \in BOOLEAN : SendDecision(approved)
               \/ TaskRefused \/ TaskAnswered \/ TaskNotAnswered \/ StreamRefused
               \/ DecisionAnswered \/ Service \/ UNCHANGED allVars
      <3>1. chat' = chat /\ loads' \subseteq loads \cup {NoTask}
        BY <2>4 DEF SendTask, SendDecision, TaskRefused, TaskAnswered, TaskNotAnswered,
           StreamRefused, DecisionAnswered, Render, Service, allVars, page, view
      <3>2. QED
        BY <1>4, <3>1
    <2>5. QED
      BY <2>1, <2>2, <2>3, <2>4 DEF PageNext, User, Arrival
  <1>5. ASSUME NEW t \in (loads' \cup {chat'.after}) \ {NoTask}
        PROVE  \E i \in 1 .. Begun' : order'[i] = t
    <2>1. PICK i \in 1 .. Begun : order[i] = t
      <3>1. CASE t \in loads \cup {chat.after}
        BY <1>1, <1>5, <3>1 DEF LoadConsistent
      <3>2. CASE t \in Tasks /\ status[t] \in Terminal
        BY <1>1, <3>2, OverHasBegun
      <3>3. QED
        BY <1>4, <3>1, <3>2
    <2>2. i \in 1 .. Begun' /\ order'[i] = t
      BY <1>2, <2>1
    <2>3. QED
      BY <2>2
  <1>6. QED
    BY <1>3, <1>5 DEF LoadConsistent

\* Nothing is stored later for a task before the one that a conversation was loaded after.
LEMMA ChatPreserved ==
  ASSUME HistoryInv, HistoryInv', PageInv, [PageNext]_allVars
  PROVE  LoadsCatchUp'
PROOF
  <1>1. /\ ServiceInv /\ OrderConsistent /\ OrderConsistent' /\ order' \in Seq(Tasks)
        /\ order \in Seq(Tasks) /\ LoadConsistent /\ LoadsCatchUp
        /\ NoTask \notin Tasks
    BY NoTaskAssumption DEF HistoryInv, AdmissionInv, ServiceInv, TypeOK, PageInv
  <1>2. [Next]_vars
    BY <1>1, PageStepsServe
  <1>3. SUFFICES ASSUME NEW i \in 1 .. Len(order'), NEW j \in 1 .. Len(order'),
                        i < j, order'[j] = chat'.after, order'[i] \in stored',
                        conv'[order'[i]] = Conversation
                 PROVE  order'[i] \in Range(chat'.has) \/ Len(chat'.has) = MaxPairs
    BY <1>1 DEF LoadsCatchUp
  <1>4. CASE chat' = chat
    <2>1. /\ Len(order) \in Nat /\ Begun \in Nat /\ Begun <= Len(order)
          /\ Len(order) <= Len(order') /\ Len(order') \in Nat
          /\ \A k \in 1 .. Len(order) : order'[k] = order[k]
      BY <1>1, <1>2, OrderGrows
    <2>2. order'[j] \in Tasks
      BY <1>1
    <2>3. chat.after = order'[j] /\ chat.after # NoTask
      BY <1>1, <1>3, <1>4, <2>2
    <2>4. PICK k \in 1 .. Begun : order[k] = chat.after
      BY <1>1, <2>3 DEF LoadConsistent
    <2>5. order'[k] = order'[j] /\ k \in 1 .. Len(order')
      BY <2>1, <2>3, <2>4
    <2>6. k = j
      BY <1>1, <2>5 DEF OrderConsistent
    <2>7. /\ i \in 1 .. Len(order) /\ j \in 1 .. Len(order) /\ i < Begun
          /\ order'[i] = order[i] /\ order[j] = chat.after
      BY <1>3, <2>1, <2>3, <2>4, <2>6
    <2>8. order[i] \in stored
      <3>1. SUFFICES ASSUME order[i] \notin stored PROVE FALSE
        OBVIOUS
      <3>2. order[i] \in stored' \ stored
        BY <1>3, <2>7, <3>1
      <3>3. Begun \in 1 .. Len(order) /\ order[Begun] = order[i]
        BY <1>1, <1>2, <3>2, StoredIsLast
      <3>4. i = Begun
        BY <1>1, <2>7, <3>3 DEF OrderConsistent
      <3>5. QED
        BY <2>1, <2>7, <3>4
    <2>9. conv[order[i]] = Conversation
      BY <1>1, <1>2, <1>3, <2>7, NewStays
    <2>10. order[i] \in Range(chat.has) \/ Len(chat.has) = MaxPairs
      BY <1>1, <1>3, <2>7, <2>8, <2>9 DEF LoadsCatchUp
    <2>11. QED
      BY <1>4, <2>7, <2>10
  <1>5. CASE Reload
    <2>1. chat'.after = NoTask
      BY <1>5 DEF Reload
    <2>2. order'[j] \in Tasks
      BY <1>1
    <2>3. QED
      BY <1>1, <1>3, <2>1, <2>2
  <1>6. ASSUME NEW t \in loads, Loads(t)
        PROVE  order'[i] \in Range(chat'.has) \/ Len(chat'.has) = MaxPairs
    <2>1. /\ order' = order /\ stored' = stored /\ conv' = conv
          /\ chat'.has = history[Conversation]
      BY <1>6 DEF Loads, vars, memory, ghosts
    <2>2. i \in 1 .. Len(order) /\ order[i] \in stored /\ conv[order[i]] = Conversation
      BY <1>3, <2>1
    <2>3. \/ order[i] \in Range(history[conv[order[i]]])
          \/ Len(history[conv[order[i]]]) = MaxPairs
      BY <2>2, HistoryHas
    <2>4. QED
      BY <2>1, <2>2, <2>3
  <1>7. QED
    <2>1. \/ chat' = chat \/ Reload
          \/ \E t \in loads : Loads(t)
      BY DEF PageNext, User, Arrival, SendTask, SendDecision, TaskRefused, TaskAnswered,
         TaskNotAnswered, Update, StreamRefused, DecisionAnswered, LoadFails, Render, Service,
         allVars, page, view
    <2>2. QED
      BY <1>4, <1>5, <1>6, <2>1

----------------------------------------------------------------------------
(* The theorems.                                                           *)

\* The inductive invariant of the page holds in every reachable state.
THEOREM PageInvariant == PageSpec => []PageInv
PROOF
  <1>1. PageInit => PageInv
    BY InitPage
  <1>2. HistoryInv /\ HistoryInv' /\ PageInv /\ [PageNext]_allVars => PageInv'
    <2>1. HistoryInv => ServiceInv /\ OrderConsistent
      BY DEF HistoryInv, AdmissionInv
    <2>2. QED
      BY <2>1, TypesPreserved, FollowPreserved, LoadPreserved, ChatPreserved DEF PageInv
  <1>3. PageSpec => []HistoryInv
    BY PageUsesService, HistoryInvariant, PTL
  <1>4. QED
    BY <1>1, <1>2, <1>3, PTL DEF PageSpec

\* A conversation loaded at the end of a task shows every exchange stored for an earlier
\* task, or as many as are kept.
THEOREM LoadsAreComplete == PageSpec => []LoadsCatchUp
PROOF
  <1>1. PageInv => LoadsCatchUp
    BY DEF PageInv
  <1>2. QED
    BY <1>1, PageInvariant, PTL

\* The button is never disabled for nothing: an answer or an update is still to come, or the
\* page's task is forgotten or was outrun.
THEOREM ButtonHasCause == PageSpec => []BusyHasCause
PROOF
  <1>1. PageInv => BusyHasCause
    BY DEF PageInv
  <1>2. QED
    BY <1>1, PageInvariant, PTL

=============================================================================
