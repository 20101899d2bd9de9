---------------------------- MODULE TaskService ----------------------------
(***************************************************************************)
(* The task queue of the local HTTP service: TaskManager and               *)
(* BrowserApprover (app/service/tasks.py), the conversation store they     *)
(* write to (app/service/conversations.py) and the server lifespan that    *)
(* starts and closes them (app/api.py).                                    *)
(*                                                                         *)
(* One event loop runs the HTTP handlers and one consumer coroutine; a     *)
(* step of this module is the code between two awaits.  The store runs in  *)
(* worker threads (asyncio.to_thread), so an append or a delete takes      *)
(* effect some time after it was requested: `writing' and `deleting' hold  *)
(* the requests whose thread has not committed yet.  The agent work of a   *)
(* task is abstracted to its outcome (RunnerReturns).                      *)
(***************************************************************************)
EXTENDS Naturals, Sequences, FiniteSets, SequencesExt

CONSTANTS
  Tasks,         \* identifiers of the tasks that clients submit
  Conversations, \* conversation identifiers
  NoTask,        \* the consumer holds no record
  MaxQueue,      \* max_queue_size (8 in the service)
  MaxHistory,    \* max_history, the records kept (100 in the service)
  MaxPairs       \* stored exchanges per conversation (24 messages = 12 pairs)

ASSUME NoTaskAssumption == NoTask \notin Tasks

\* TaskManager's defaults: more records are kept than can be waiting.
ASSUME SizesAssumption ==
  /\ MaxQueue \in Nat \ {0}
  /\ MaxHistory \in Nat
  /\ MaxHistory > MaxQueue
  /\ MaxPairs \in Nat \ {0}

VARIABLES
  phase,    \* the server process: "down", "up", or "closed" (draining)
  pc,       \* where the consumer coroutine is suspended
  cur,      \* the record the consumer took from the queue
  records,  \* TaskManager._records, in insertion order
  queue,    \* TaskManager._queue
  status,   \* TaskRecord.status; "new" before submit, "lost" with its process
  conv,     \* TaskRecord.conversation_id
  error,    \* TaskRecord.error: none, the runner's or STORAGE_FAILURE
  answer,   \* whether the view carries an answer (state.final_answer)
  future,   \* TaskRecord.approval_future and the decision it holds
  history,  \* conversation_messages: per conversation, whose exchanges it has
  writing,  \* tasks whose append is in a store thread
  deleting, \* conversations whose delete is in a store thread
  order,    \* history variable: every submission, in order
  stored,   \* history variable: exchanges committed and not deleted since
  erased    \* history variable: tasks over when their conversation was deleted

memory == <<cur, records, queue, status, conv, error, answer, future>>
ghosts == <<order, stored, erased>>
vars == <<phase, pc, memory, history, writing, deleting, ghosts>>

----------------------------------------------------------------------------

Terminal == {"completed", "failed"}
Active == {"queued", "running", "waiting_approval"}
Statuses == {"new", "lost"} \cup Active \cup Terminal

InConversation(c) == {t \in Tasks : conv[t] = c}

\* (Mutated) The transaction inserts without trimming.
TrimNothing(s) == s

\* What the store keeps of a conversation: its last MaxPairs exchanges.
Trim(s) == IF Len(s) > MaxPairs
           THEN SubSeq(s, Len(s) - MaxPairs + 1, Len(s)) ELSE s

\* (Mutated) Failed records are never evicted.
EvictableCompleted == {i \in DOMAIN records : status[records[i]] = "completed"}

\* Positions of the records that submit may evict.
Evictable == {i \in DOMAIN records : status[records[i]] \in Terminal}

\* (Mutated) As dict.popitem would: the newest record goes.
KeptButNewest == {IF Len(records) < MaxHistory THEN records ELSE Front(records)}

\* The records that stay when one more is needed: the oldest terminal one goes
\* once the history is full (no such record, no room).  submit adds one record
\* at a time, so one eviction makes room and its loop needs no second turn.
Kept ==
  IF Len(records) < MaxHistory THEN {records}
  ELSE {RemoveAt(records, i) : i \in {i \in Evictable : \A j \in Evictable : i <= j}}

----------------------------------------------------------------------------

Init ==
  /\ phase = "down"
  /\ pc = "off"
  /\ cur = NoTask
  /\ records = <<>>
  /\ queue = <<>>
  /\ status = [t \in Tasks |-> "new"]
  /\ conv \in [Tasks -> Conversations]
  /\ error = [t \in Tasks |-> "none"]
  /\ answer = [t \in Tasks |-> FALSE]
  /\ future = [t \in Tasks |-> "none"]
  /\ history = [c \in Conversations |-> <<>>]
  /\ writing = {}
  /\ deleting = {}
  /\ order = <<>>
  /\ stored = {}
  /\ erased = {}

\* The lifespan starts a fresh manager and its consumer task.
Start ==
  /\ phase = "down"
  /\ phase' = "up"
  /\ pc' = "get"
  /\ UNCHANGED <<memory, history, writing, deleting, ghosts>>

----------------------------------------------------------------------------
(* HTTP handlers.                                                          *)

\* submit: refused when the queue is full, or when no record can be evicted;
\* otherwise the record is created and queued in one step.
Submit(t) ==
  /\ phase = "up"
  /\ status[t] = "new"
  /\ Len(queue) < MaxQueue
  /\ \E kept \in Kept : records' = Append(kept, t)
  /\ queue' = Append(queue, t)
  /\ status' = [status EXCEPT ![t] = "queued"]
  /\ order' = Append(order, t)
  /\ UNCHANGED <<phase, pc, cur, conv, error, answer, future, history, writing,
                 deleting, stored, erased>>

\* (Mutated) Without the test for future.done().
DecideAgain(t, approved) ==
  /\ phase = "up"
  /\ status[t] = "waiting_approval"
  /\ future' = [future EXCEPT ![t] = IF approved THEN "approved" ELSE "denied"]
  /\ UNCHANGED <<phase, pc, cur, records, queue, status, conv, error, answer,
                 history, writing, deleting, ghosts>>

\* decide: the user approves or denies the write a task is waiting on.
Decide(t, approved) ==
  /\ phase = "up"
  /\ t \in Range(records)
  /\ status[t] = "waiting_approval"
  /\ future[t] = "pending"
  /\ future' = [future EXCEPT ![t] = IF approved THEN "approved" ELSE "denied"]
  /\ UNCHANGED <<phase, pc, cur, records, queue, status, conv, error, answer,
                 history, writing, deleting, ghosts>>

\* delete_conversation up to its await: refused while a task of the
\* conversation is active.  (At most one delete per conversation in flight.)
RequestDelete(c) ==
  /\ phase = "up"
  /\ c \notin deleting
  /\ \A t \in Range(records) : conv[t] = c => status[t] \notin Active
  /\ deleting' = deleting \cup {c}
  /\ UNCHANGED <<phase, pc, memory, history, writing, ghosts>>

----------------------------------------------------------------------------
(* The consumer coroutine (_consume) and the approver it hands the runner. *)

\* _queue.get returns the oldest record and it is marked running at once.
Take ==
  /\ pc = "get"
  /\ queue # <<>>
  /\ cur' = Head(queue)
  /\ queue' = Tail(queue)
  /\ status' = [status EXCEPT ![Head(queue)] = "running"]
  /\ pc' = "list"
  /\ UNCHANGED <<phase, records, conv, error, answer, future, history, writing,
                 deleting, ghosts>>

\* The conversation's history has been read; the runner starts.
HistoryListed ==
  /\ pc = "list"
  /\ pc' = "run"
  /\ UNCHANGED <<phase, memory, history, writing, deleting, ghosts>>

\* The except branch: the record fails with e and its failure text is handed to
\* the store.  At most the answer of a partial state is kept.
FailWith(e, hasAnswer) ==
  /\ status' = [status EXCEPT ![cur] = "failed"]
  /\ error' = [error EXCEPT ![cur] = e]
  /\ answer' = [answer EXCEPT ![cur] = hasAnswer]
  /\ writing' = writing \cup {cur}
  /\ pc' = "fail"
  /\ UNCHANGED <<phase, cur, records, queue, conv, future, history, deleting,
                 ghosts>>

\* (Mutated) The history is read outside the try: the consumer dies.
HistoryListEscapes ==
  /\ pc = "list"
  /\ pc' = "off"
  /\ UNCHANGED <<phase, memory, history, writing, deleting, ghosts>>

HistoryListFails ==
  /\ pc = "list"
  /\ FailWith("storage", FALSE)

\* The runner returned with work pending, or raised.
RunnerFails(hasAnswer) ==
  /\ pc = "run"
  /\ FailWith("runner", hasAnswer)

\* (Mutated) The append is started but not awaited.
RunnerCompletesAsync(hasAnswer) ==
  /\ pc = "run"
  /\ status' = [status EXCEPT ![cur] = "completed"]
  /\ answer' = [answer EXCEPT ![cur] = hasAnswer]
  /\ writing' = IF hasAnswer THEN writing \cup {cur} ELSE writing
  /\ pc' = "get"
  /\ cur' = NoTask
  /\ UNCHANGED <<phase, records, queue, conv, error, future, history, deleting,
                 ghosts>>

\* The runner returned with nothing pending: the record is completed BEFORE the
\* exchange is handed to the store, and a state without an answer stores none.
RunnerCompletes(hasAnswer) ==
  /\ pc = "run"
  /\ status' = [status EXCEPT ![cur] = "completed"]
  /\ answer' = [answer EXCEPT ![cur] = hasAnswer]
  /\ IF hasAnswer
     THEN /\ writing' = writing \cup {cur}
          /\ pc' = "store"
          /\ cur' = cur
     ELSE /\ pc' = "get"
          /\ cur' = NoTask
          /\ writing' = writing
  /\ UNCHANGED <<phase, records, queue, conv, error, future, history, deleting,
                 ghosts>>

\* request_approval: a fresh future, and the record waits.
RequestApproval ==
  /\ pc = "run"
  /\ pc' = "approval"
  /\ status' = [status EXCEPT ![cur] = "waiting_approval"]
  /\ future' = [future EXCEPT ![cur] = "pending"]
  /\ UNCHANGED <<phase, cur, records, queue, conv, error, answer, history,
                 writing, deleting, ghosts>>

\* (Mutated) No finally block: the decided future stays on the record.
ApprovalReturnsDirty ==
  /\ pc = "approval"
  /\ pc' = "run"
  /\ status' = [status EXCEPT ![cur] = "running"]
  /\ UNCHANGED <<phase, cur, records, queue, conv, error, answer, future,
                 history, writing, deleting, ghosts>>

\* request_approval returns: decided, or the 300 seconds are over (whatever the
\* future holds by then).  The finally block clears the request.
ApprovalReturns ==
  /\ pc = "approval"
  /\ pc' = "run"
  /\ status' = [status EXCEPT ![cur] = "running"]
  /\ future' = [future EXCEPT ![cur] = "none"]
  /\ UNCHANGED <<phase, cur, records, queue, conv, error, answer, history,
                 writing, deleting, ghosts>>

----------------------------------------------------------------------------
(* Store threads.                                                          *)

\* An append commits: the pair is inserted and the conversation trimmed in one
\* transaction.  If the consumer still awaits it, it goes back to the queue.
StoreCommits(t) ==
  /\ t \in writing
  /\ writing' = writing \ {t}
  /\ history' = [history EXCEPT ![conv[t]] = Trim(Append(@, t))]
  /\ stored' = stored \cup {t}
  /\ pc' = IF t = cur THEN "get" ELSE pc
  /\ cur' = IF t = cur THEN NoTask ELSE cur
  /\ UNCHANGED <<phase, records, queue, status, conv, error, answer, future,
                 deleting, order, erased>>

\* The append of a completed record raises: the except branch turns the record
\* into a failed one and appends once more.
StoreFailsOnce(t) ==
  /\ t \in writing
  /\ t = cur
  /\ pc = "store"
  /\ FailWith("storage", answer[t])

\* The append of a failed record raises: only the error code changes.
StoreFailsTwice(t) ==
  /\ t \in writing
  /\ t = cur
  /\ pc = "fail"
  /\ writing' = writing \ {t}
  /\ error' = [error EXCEPT ![t] = "storage"]
  /\ pc' = "get"
  /\ cur' = NoTask
  /\ UNCHANGED <<phase, records, queue, status, conv, answer, future, history,
                 deleting, ghosts>>

\* An append nobody awaits any more (the consumer was cancelled) raises.
OrphanFails(t) ==
  /\ t \in writing
  /\ t # cur
  /\ writing' = writing \ {t}
  /\ UNCHANGED <<phase, pc, memory, history, deleting, ghosts>>

\* A delete commits: every row of the conversation goes.
DeleteCommits(c) ==
  /\ c \in deleting
  /\ deleting' = deleting \ {c}
  /\ history' = [history EXCEPT ![c] = <<>>]
  /\ stored' = stored \ InConversation(c)
  /\ erased' = erased \cup {t \in InConversation(c) : status[t] \in Terminal}
  /\ UNCHANGED <<phase, pc, memory, writing, order>>

DeleteFails(c) ==
  /\ c \in deleting
  /\ deleting' = deleting \ {c}
  /\ UNCHANGED <<phase, pc, memory, history, writing, ghosts>>

----------------------------------------------------------------------------
(* Shutdown and crash.                                                     *)

\* (Mutated) close marks the record the consumer holds as failed.
CloseFailing ==
  /\ phase = "up"
  /\ phase' = "closed"
  /\ pc' = "off"
  /\ cur' = NoTask
  /\ status' = [t \in Tasks |-> IF t = cur THEN "failed" ELSE status[t]]
  /\ future' = [t \in Tasks |-> "none"]
  /\ UNCHANGED <<records, queue, conv, error, answer, history, writing,
                 deleting, ghosts>>

\* close: the consumer is cancelled at its await.  A waiting approval is
\* cancelled and its finally block runs, so the record is left "running";
\* nothing else is written to the records.  Threads are not cancelled.
Close ==
  /\ phase = "up"
  /\ phase' = "closed"
  /\ pc' = "off"
  /\ cur' = NoTask
  /\ status' = [t \in Tasks |->
                  IF t = cur /\ pc = "approval" THEN "running" ELSE status[t]]
  /\ future' = [t \in Tasks |-> "none"]
  /\ UNCHANGED <<records, queue, conv, error, answer, history, writing,
                 deleting, ghosts>>

\* The memory of a process that is gone: no records, no queue; the tasks that
\* were not over are lost.  The database stays.
MemoryLost ==
  /\ phase' = "down"
  /\ pc' = "off"
  /\ cur' = NoTask
  /\ records' = <<>>
  /\ queue' = <<>>
  /\ status' = [t \in Tasks |->
                  IF status[t] \in Active THEN "lost" ELSE status[t]]
  /\ future' = [t \in Tasks |-> "none"]
  /\ UNCHANGED <<conv, error, answer, history, ghosts>>

\* The interpreter joins its executor threads, then exits.
Exit ==
  /\ phase = "closed"
  /\ writing = {} /\ deleting = {}
  /\ MemoryLost
  /\ UNCHANGED <<writing, deleting>>

\* The process is killed: transactions that had not committed never do.
Crash ==
  /\ phase # "down"
  /\ MemoryLost
  /\ writing' = {}
  /\ deleting' = {}

----------------------------------------------------------------------------

Client == \/ \E t \in Tasks : Submit(t)
          \/ \E t \in Tasks, approved \in BOOLEAN : Decide(t, approved)
          \/ \E c \in Conversations : RequestDelete(c)

Consumer == \/ Take
            \/ HistoryListed
            \/ HistoryListFails
            \/ \E hasAnswer \in BOOLEAN : RunnerFails(hasAnswer)
            \/ \E hasAnswer \in BOOLEAN : RunnerCompletes(hasAnswer)
            \/ RequestApproval
            \/ ApprovalReturns

StoreEnds(t) == \/ StoreCommits(t)
                \/ StoreFailsOnce(t)
                \/ StoreFailsTwice(t)
                \/ OrphanFails(t)

DeleteEnds(c) == DeleteCommits(c) \/ DeleteFails(c)

Store == \/ \E t \in Tasks : StoreEnds(t)
         \/ \E c \in Conversations : DeleteEnds(c)

Process == Start \/ Close \/ Exit \/ Crash

Next == Client \/ Consumer \/ Store \/ Process

RunnerEnds == \E hasAnswer \in BOOLEAN :
                RunnerFails(hasAnswer) \/ RunnerCompletes(hasAnswer)

\* The loop runs what is ready, threads finish, the approval timer fires, and a
\* runner that keeps asking for approvals still returns (its steps and tool
\* calls are bounded).  Users, shutdown and crashes are under no obligation.
Fairness ==
  /\ WF_vars(Take)
  /\ WF_vars(HistoryListed \/ HistoryListFails)
  /\ SF_vars(RunnerEnds)
  /\ WF_vars(ApprovalReturns)
  /\ \A t \in Tasks : WF_vars(StoreEnds(t))
  /\ \A c \in Conversations : WF_vars(DeleteEnds(c))

Spec == Init /\ [][Next]_vars /\ Fairness
----------------------------------------------------------------------------
(* Properties.                                                             *)

\* Every variable stays in its type.
TypeOK ==
  /\ phase \in {"down", "up", "closed"}
  /\ pc \in {"off", "get", "list", "run", "approval", "store", "fail"}
  /\ cur \in Tasks \cup {NoTask}
  /\ records \in Seq(Tasks)
  /\ queue \in Seq(Tasks)
  /\ status \in [Tasks -> Statuses]
  /\ conv \in [Tasks -> Conversations]
  /\ error \in [Tasks -> {"none", "runner", "storage"}]
  /\ answer \in [Tasks -> BOOLEAN]
  /\ future \in [Tasks -> {"none", "pending", "approved", "denied"}]
  /\ history \in [Conversations -> Seq(Tasks)]
  /\ writing \subseteq Tasks
  /\ deleting \subseteq Conversations
  /\ order \in Seq(Tasks)
  /\ stored \subseteq Tasks
  /\ erased \subseteq Tasks

\* The status a client sees while the consumer is at each of its awaits.
StatusAt == [list |-> "running", run |-> "running",
             approval |-> "waiting_approval",
             store |-> "completed", fail |-> "failed"]

\* A process that is not running keeps nothing in memory.
DownIsEmpty ==
  phase = "down" => /\ records = <<>> /\ queue = <<>>
                    /\ writing = {} /\ deleting = {}
                    /\ \A t \in Tasks : status[t] \notin Active

\* The queue holds queued tasks, each once.
QueueHoldsQueued ==
  /\ \A i \in 1 .. Len(queue) : status[queue[i]] = "queued"
  /\ \A i, j \in 1 .. Len(queue) : queue[i] = queue[j] => i = j

\* Exactly one task is worked on: the consumer's position determines the status
\* of the record it holds, no other record of a live server is running or
\* waiting for approval, and an approval can be decided exactly while the
\* consumer waits for it, so no decision is lost and none outlives its request.
WorkerConsistent ==
  /\ pc \in {"off", "get"} <=> cur = NoTask
  /\ pc = "off" <=> phase # "up"
  /\ cur # NoTask => status[cur] = StatusAt[pc]
  /\ phase = "up" =>
       \A t \in Tasks : status[t] \in {"running", "waiting_approval"} => t = cur
  /\ \A t \in Tasks : future[t] # "none" => t = cur /\ pc = "approval"
  /\ pc = "approval" => future[cur] # "none"
  /\ phase = "up" => writing = IF pc \in {"store", "fail"} THEN {cur} ELSE {}

\* The inductive invariant: WorkerConsistent needs the types, that a process
\* starts from nothing, and that what it takes from the queue is still queued.
ServiceInv ==
  TypeOK /\ DownIsEmpty /\ QueueHoldsQueued /\ WorkerConsistent

\* The elements of s that are in S, in the order of s.
Those(s, S) ==
  LET those[i \in 0 .. Len(s)] ==
        IF i = 0 THEN <<>>
        ELSE IF s[i] \in S THEN Append(those[i - 1], s[i]) ELSE those[i - 1]
  IN  those[Len(s)]

\* First in, first out, and nothing in between: the queue is the queued records
\* in the order of submission, through evictions, crashes and shutdown; and no
\* eviction takes the record of a task that is not over from its client.
QueueMatchesRecords ==
  /\ queue = Those(records, {t \in Tasks : status[t] = "queued"})
  /\ \A t \in Tasks : status[t] \in Active => t \in Range(records)

\* The queue and the history stay within their sizes, and a submission that
\* the queue can take is never refused for want of a record to evict.
AdmissionBounded ==
  /\ Len(queue) <= MaxQueue
  /\ Len(records) <= MaxHistory
  /\ Len(queue) < MaxQueue => Kept # {}

\* Why a full history always has a record to evict: records are submitted tasks, each
\* once; of them, the queued ones are in the queue, and at most one is worked on, or was
\* when the server closed.
RecordsCounted ==
  /\ \A i, j \in 1 .. Len(records) : records[i] = records[j] => i = j
  /\ \A i \in 1 .. Len(records) : status[records[i]] \notin {"new", "lost"}
  /\ \A t \in Tasks : status[t] = "queued" => \E i \in 1 .. Len(queue) : queue[i] = t
  /\ \A t, u \in Tasks :
       {status[t], status[u]} \subseteq {"running", "waiting_approval"} => t = u

\* The database holds, per conversation, the last MaxPairs exchanges that were
\* stored since the last delete, each task once and in submission order,
\* whatever was cancelled, retried, failed or killed on the way.
HistoryExact ==
  \A c \in Conversations :
    LET all == Those(order, InConversation(c) \cap stored)
    IN  /\ IsSuffix(history[c], all)
        /\ Len(history[c]) = IF Len(all) < MaxPairs THEN Len(all) ELSE MaxPairs

\* The exchange of a finished task is in the database (or was deleted), or its
\* record says why not.
Settled(t) ==
  /\ status[t] \in Terminal
  /\ t \notin writing
  /\ \/ t \in stored \cup erased
     \/ error[t] = "storage"
     \/ status[t] = "completed" /\ ~answer[t]

\* A task reads the history only after every task submitted before it is
\* settled: it sees their answers and their failures, and none is lost silently.
PredecessorsSettled ==
  pc \in {"list", "run", "approval"} =>
    \A i, j \in DOMAIN order :
      i < j /\ order[j] = cur /\ order[i] \in Range(records)
        => Settled(order[i])

\* How many submitted tasks have left the queue.
Begun == Len(order) - Len(queue)

\* Why exchanges are stored in the order of submission: tasks are submitted once, the queue
\* is the end of that order, the task that is worked on is the last that has left it, and so
\* is one whose append nobody awaits any more.
OrderConsistent ==
  /\ \A i, j \in 1 .. Len(order) : order[i] = order[j] => i = j
  /\ \A i \in 1 .. Len(order) : status[order[i]] # "new"
  /\ Len(queue) <= Len(order)
  /\ \A i \in 1 .. Len(queue) : queue[i] = order[Begun + i]
  /\ \A t \in writing \cup {cur} : t # NoTask => Begun > 0 /\ order[Begun] = t /\ t \notin stored
  /\ \A t \in stored : \E i \in 1 .. Begun : order[i] = t

\* Why predecessors are settled: whatever has left the queue is, but for the task that is
\* worked on.
BegunSettled ==
  phase = "up" =>
    \A i \in 1 .. Begun :
      order[i] \in Range(records) /\ order[i] # cur => Settled(order[i])

\* What a client was told at the end stays: a failed task stays failed, and a
\* completed one turns to failed only to report that its exchange was not
\* stored.
TerminalIsFinal ==
  [][\A t \in Tasks :
       status[t] \in Terminal /\ status'[t] # status[t] =>
         /\ status[t] = "completed"
         /\ status'[t] = "failed"
         /\ error'[t] = "storage"]_<<status, error>>

\* The first decision on a request counts: it is never overwritten by a later
\* one, and no request is left over for the next.
DecisionIsFinal ==
  [][\A t \in Tasks :
       /\ future[t] \in {"approved", "denied"} => future'[t] \in {future[t], "none"}
       /\ future[t] = "none" => future'[t] \in {"none", "pending"}]_future

\* README: deleting the conversation deletes its history.  A task that was over
\* when its conversation was deleted does not come back into it.
DeletedStaysDeleted ==
  \A c \in Conversations : Range(history[c]) \cap erased = {}

----------------------------------------------------------------------------
(* The service implements TaskLifecycle.                                   *)

\* A client is told that a task is worked on while it runs or waits for an
\* approval, and loses whatever is not over when the server closes.
LifeOf(t) ==
  CASE status[t] = "new" -> "absent"
    [] status[t] \in Active /\ phase # "up" -> "lost"
    [] status[t] \in {"running", "waiting_approval"} /\ phase = "up" -> "working"
    [] OTHER -> status[t]

Lifecycle == INSTANCE TaskLifecycle WITH
  serving <- phase = "up",
  line <- IF phase = "up" THEN queue ELSE <<>>,
  active <- cur,
  life <- [t \in Tasks |-> LifeOf(t)]

\* Order, capacity, one task at a time, and every accepted task ending: what
\* TaskLifecycle promises, kept by the queue, the consumer and the store
\* through approvals, failing appends, shutdown and crashes.
ImplementsLifecycle == Lifecycle!Spec
=============================================================================
