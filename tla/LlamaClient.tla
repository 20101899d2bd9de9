----------------------------- MODULE LlamaClient -----------------------------
(***************************************************************************)
(* The client of the local model, LlamaCppClient (app/llm/client.py): the  *)
(* model is loaded at the first call and shared by all of them, calls take *)
(* turns under one asyncio.Lock, and a caller that gives up leaves its     *)
(* generation running, shielded, with the lock held.                       *)
(*                                                                         *)
(* Each call has three actors: the caller awaiting chat(), the shielded    *)
(* task running _chat_serial, and the worker thread (asyncio.to_thread)    *)
(* that loads the model or generates.  A caller can be gone while its task *)
(* goes on, and at the end of the event loop a task can be gone while its  *)
(* thread goes on.                                                         *)
(***************************************************************************)
EXTENDS Naturals, Sequences, FiniteSets, SequencesExt

CONSTANT Calls \* identifiers of the calls of chat(); each is made at most once

VARIABLES
  caller,  \* the coroutine awaiting chat()
  task,    \* the coroutine of _chat_serial: where it is suspended
  thread,  \* its thread: in _load_model, entering _generate, generating
  line,    \* the lock: its holder first, then those waiting for it
  pending, \* _pending
  model,   \* whether _model is set
  closing, \* _closing
  loads    \* history variable: how often a model was put in _model

calls == <<caller, task, thread>>
vars == <<calls, line, pending, model, closing, loads>>

----------------------------------------------------------------------------

\* A client is created without a model, or with one that was loaded before.
Init ==
  /\ caller = [c \in Calls |-> "new"]
  /\ task = [c \in Calls |-> "new"]
  /\ thread = [c \in Calls |-> "idle"]
  /\ line = <<>>
  /\ pending = {}
  /\ model \in BOOLEAN
  /\ closing = FALSE
  /\ loads = IF model THEN 1 ELSE 0

----------------------------------------------------------------------------
(* The caller.                                                             *)

\* chat: the task is created, registered in _pending and queues for the lock.
\* Nobody calls a client whose context has been left.
Chat(c) ==
  /\ ~closing
  /\ caller[c] = "new"
  /\ caller' = [caller EXCEPT ![c] = "waiting"]
  /\ task' = [task EXCEPT ![c] = "lock"]
  /\ line' = Append(line, c)
  /\ pending' = pending \cup {c}
  /\ UNCHANGED <<thread, model, closing, loads>>

\* chat returns or raises what the task ended with; _on_done, the task's first
\* callback, has run by then.
Return(c) ==
  /\ caller[c] = "waiting"
  /\ task[c] = "done"
  /\ c \notin pending
  /\ caller' = [caller EXCEPT ![c] = "returned"]
  /\ UNCHANGED <<task, thread, line, pending, model, closing, loads>>

\* (Mutated) wait_for without the shield cancels the task: it leaves the lock
\* while its thread goes on.
TimesOutUnshielded(c) ==
  /\ caller[c] = "waiting"
  /\ caller' = [caller EXCEPT ![c] = "timed_out"]
  /\ task' = [task EXCEPT ![c] = "done"]
  /\ line' = SelectSeq(line, LAMBDA d : d # c)
  /\ UNCHANGED <<thread, pending, model, closing, loads>>

\* (Mutated) The timer runs only once the call holds the lock.
TimesOutHolding(c) ==
  /\ caller[c] = "waiting"
  /\ task[c] # "lock"
  /\ caller' = [caller EXCEPT ![c] = "timed_out"]
  /\ UNCHANGED <<task, thread, line, pending, model, closing, loads>>

\* wait_for's timer fires, at whatever point the task has reached: only the
\* caller is told.
TimesOut(c) ==
  /\ caller[c] = "waiting"
  /\ caller' = [caller EXCEPT ![c] = "timed_out"]
  /\ UNCHANGED <<task, thread, line, pending, model, closing, loads>>

\* The caller's own task is cancelled (the service is closing).
Cancelled(c) ==
  /\ caller[c] = "waiting"
  /\ caller' = [caller EXCEPT ![c] = "cancelled"]
  /\ UNCHANGED <<task, thread, line, pending, model, closing, loads>>

----------------------------------------------------------------------------
(* The task, _chat_serial.                                                 *)

\* The call has the lock: it generates, or loads the model first.
Begin(c) ==
  /\ task[c] = "lock"
  /\ c = Head(line)
  /\ task' = [task EXCEPT ![c] = IF model THEN "generate" ELSE "load"]
  /\ thread' = [thread EXCEPT ![c] = IF model THEN "enter" ELSE "load"]
  /\ UNCHANGED <<caller, line, pending, model, closing, loads>>

\* The model is loaded and _generate handed to a thread.
LoadEnds(c) ==
  /\ task[c] = "load"
  /\ thread[c] = "load"
  /\ model' = TRUE
  /\ loads' = loads + 1
  /\ task' = [task EXCEPT ![c] = "generate"]
  /\ thread' = [thread EXCEPT ![c] = "enter"]
  /\ UNCHANGED <<caller, line, pending, closing>>

\* _generate takes the model (its assertion holds) and runs.
Enter(c) ==
  /\ thread[c] = "enter"
  /\ model
  /\ thread' = [thread EXCEPT ![c] = "generate"]
  /\ UNCHANGED <<caller, task, line, pending, model, closing, loads>>

\* (Mutated) The lock is released by hand, and not when the call raises.
EndsHolding(c) ==
  /\ task[c] = thread[c]
  /\ task[c] \in {"load", "generate"}
  /\ task' = [task EXCEPT ![c] = "done"]
  /\ thread' = [thread EXCEPT ![c] = "idle"]
  /\ line' = IF task[c] = "load" THEN line ELSE Tail(line)
  /\ UNCHANGED <<caller, pending, model, closing, loads>>

\* The load fails, or the generation ends with an answer or an error: the task
\* is done and leaves the lock to the next.
Ends(c) ==
  /\ task[c] = thread[c]
  /\ task[c] \in {"load", "generate"}
  /\ task' = [task EXCEPT ![c] = "done"]
  /\ thread' = [thread EXCEPT ![c] = "idle"]
  /\ line' = Tail(line)
  /\ UNCHANGED <<caller, pending, model, closing, loads>>

\* (Mutated) A late callback leaves the model where it is.
OnDoneKeeping(c) ==
  /\ task[c] = "done"
  /\ c \in pending
  /\ pending' = pending \ {c}
  /\ UNCHANGED <<calls, line, model, closing, loads>>

\* (Mutated) The model is dropped whenever nothing is pending.
OnDoneIdle(c) ==
  /\ task[c] = "done"
  /\ c \in pending
  /\ pending' = pending \ {c}
  /\ model' = (model /\ pending' # {})
  /\ UNCHANGED <<calls, line, closing, loads>>

\* _on_done: the last task after the end drops the model.
OnDone(c) ==
  /\ task[c] = "done"
  /\ c \in pending
  /\ pending' = pending \ {c}
  /\ model' = (model /\ ~(closing /\ pending' = {}))
  /\ UNCHANGED <<calls, line, closing, loads>>

----------------------------------------------------------------------------
(* The end of the client and of its event loop.                            *)

\* (Mutated) The model is dropped under a background generation.
CloseDropping ==
  /\ ~closing
  /\ \A c \in Calls : caller[c] # "waiting"
  /\ closing' = TRUE
  /\ model' = FALSE
  /\ UNCHANGED <<calls, line, pending, loads>>

\* __aexit__: the callers inside the context are gone, their tasks may not be.
Close ==
  /\ ~closing
  /\ \A c \in Calls : caller[c] # "waiting"
  /\ closing' = TRUE
  /\ model' = (model /\ pending # {})
  /\ UNCHANGED <<calls, line, pending, loads>>

\* asyncio.run cancels the tasks that are left, all before any of them runs
\* again, so none of them takes the lock over.  A thread that has started goes
\* on, one that has not is dropped with its future.
LoopEnds ==
  /\ closing
  /\ line # <<>>
  /\ task' = [c \in Calls |-> IF c \in pending THEN "done" ELSE task[c]]
  /\ line' = <<>>
  /\ \E started \in BOOLEAN :
       thread' = [c \in Calls |-> IF thread[c] = "enter" /\ ~started
                                  THEN "idle" ELSE thread[c]]
  /\ UNCHANGED <<caller, pending, model, closing, loads>>

\* A thread whose task is gone ends; an answer, a model or an assertion that
\* finds no model is dropped with the future.
OrphanEnds(c) ==
  /\ task[c] = "done"
  /\ \/ thread[c] \in {"load", "generate"}
     \/ thread[c] = "enter" /\ ~model
  /\ thread' = [thread EXCEPT ![c] = "idle"]
  /\ UNCHANGED <<caller, task, line, pending, model, closing, loads>>

----------------------------------------------------------------------------

Next ==
  \/ \E c \in Calls : \/ Chat(c) \/ Return(c) \/ TimesOut(c) \/ Cancelled(c)
                      \/ Begin(c) \/ LoadEnds(c) \/ Enter(c) \/ Ends(c)
                      \/ OnDone(c) \/ OrphanEnds(c)
  \/ Close
  \/ LoopEnds

\* The loop runs its timers, callbacks and ready tasks, and ends after the
\* client.  Threads are under no obligation: a generation may never end.
Fairness ==
  /\ \A c \in Calls : /\ WF_vars(TimesOut(c))
                      /\ WF_vars(Begin(c))
                      /\ WF_vars(OnDone(c))
  /\ WF_vars(LoopEnds)

Spec == Init /\ [][Next]_vars /\ Fairness

----------------------------------------------------------------------------
(* Properties.                                                             *)

\* Every variable stays in its type.
TypeOK ==
  /\ caller \in [Calls -> {"new", "waiting", "returned", "timed_out", "cancelled"}]
  /\ task \in [Calls -> {"new", "lock", "load", "generate", "done"}]
  /\ thread \in [Calls -> {"idle", "load", "enter", "generate"}]
  /\ line \in Seq(Calls)
  /\ pending \subseteq Calls
  /\ model \in BOOLEAN
  /\ closing \in BOOLEAN
  /\ loads \in Nat

\* The lock's line holds each unfinished task once, and only its head works.
LineConsistent ==
  /\ \A i, j \in 1 .. Len(line) : line[i] = line[j] => i = j
  /\ \A i \in 1 .. Len(line) : task[line[i]] \in {"lock", "load", "generate"}
  /\ \A i \in 2 .. Len(line) : task[line[i]] = "lock"
  /\ \A c \in Calls : task[c] \in {"lock", "load", "generate"} =>
                        \E i \in 1 .. Len(line) : c = line[i]

\* A task and its thread agree, and only the end of the loop separates them.
ThreadConsistent ==
  \A c \in Calls :
    /\ task[c] = "load" => thread[c] = "load"
    /\ task[c] = "generate" => thread[c] \in {"enter", "generate"}
    /\ thread[c] # "idle" =>
         \/ task[c] \in {"load", "generate"}
         \/ task[c] = "done" /\ closing /\ line = <<>>

\* _pending holds at least every unfinished task; a caller waits only on a task
\* that exists, inside the context.
PendingConsistent ==
  \A c \in Calls :
    /\ c \notin pending => task[c] \in {"new", "done"}
    /\ c \in pending => task[c] # "new"
    /\ caller[c] = "new" <=> task[c] = "new"
    /\ closing => caller[c] # "waiting"

\* README: a timeout tells the caller, and the lock is kept until the
\* background generation is over.  So no two threads are ever inside the model,
\* the loader included, through timeouts, errors, cancellation and shutdown.
OneAtATime ==
  \A c, d \in Calls : thread[c] # "idle" /\ thread[d] # "idle" => c = d

\* The assertion of _generate (model is not None): a call that is still wanted
\* finds the model, even one that its caller left and the client is closing.
ModelInUse ==
  \A c \in Calls : task[c] = "generate" => model

\* The model is loaded at most once in the life of a client, however many calls
\* meet at the first load, fail, or come after an idle time; and once the
\* client is closed and its last task over it is gone.
LoadedOnce ==
  /\ loads <= 1
  /\ loads = 1 /\ ~model => closing /\ pending = {}
  /\ closing /\ pending = {} => ~model

\* Where the model stands while a call loads it.
LoadConsistent ==
  /\ model => loads = 1
  /\ \A c \in Calls : task[c] = "load" => ~model /\ loads = 0

\* The inductive invariant.
ClientInv ==
  /\ TypeOK /\ LineConsistent /\ ThreadConsistent /\ PendingConsistent
  /\ OneAtATime /\ ModelInUse /\ LoadedOnce /\ LoadConsistent

\* Every caller gets an answer or an error, even behind a generation that never
\* ends: the time spent waiting for the lock counts.
CallersReturn ==
  \A c \in Calls : caller[c] = "waiting" ~> caller[c] # "waiting"

\* Closing the client gives the model up, whatever is still running.
ModelGivenUp == closing ~> ~model

\* As long as threads end, every call gets its turn, whoever gave up, failed or
\* was refused a model before it.
TurnsCome ==
  (\A c \in Calls : []<>(thread[c] = "idle"))
    => \A c \in Calls : task[c] = "lock" ~> task[c] # "lock"
=============================================================================
