-------------------------- MODULE LlamaClientProofs --------------------------
(***************************************************************************)
(* Proofs about LlamaClient, for any set of calls.                         *)
(***************************************************************************)
EXTENDS LlamaClient, SequenceTheorems, TLAPS

LEMMA InitInv == Init => ClientInv
<1> SUFFICES ASSUME Init PROVE ClientInv
  OBVIOUS
<1>1. TypeOK
  BY EmptySeq DEF Init, TypeOK
<1>2. LineConsistent
  BY DEF Init, LineConsistent
<1>3. QED
  BY <1>1, <1>2 DEF Init, ClientInv, TypeOK, ThreadConsistent, PendingConsistent,
     OneAtATime, ModelInUse, LoadedOnce, LoadConsistent

----------------------------------------------------------------------------
(* The lock.                                                               *)

\* A task that loads or generates is at the head of the line, the one call that
\* is.
LEMMA Holder ==
  ASSUME TypeOK, LineConsistent, NEW c \in Calls, task[c] \in {"load", "generate"}
  PROVE  /\ line # <<>>
         /\ c = line[1]
         /\ c = Head(line)
<1>1. PICK i \in 1 .. Len(line) : c = line[i]
  BY DEF LineConsistent
<1>2. Len(line) \in Nat
  BY DEF TypeOK
<1>3. i = 1
  BY <1>1, <1>2 DEF LineConsistent
<1>4. QED
  BY <1>1, <1>2, <1>3, HeadTailProperties DEF TypeOK

\* The call that begins was the first in the line.
LEMMA Beginner ==
  ASSUME TypeOK, LineConsistent, NEW c \in Calls, Begin(c)
  PROVE  /\ line # <<>>
         /\ c = line[1]
<1>1. line # <<>>
  <2>1. PICK i \in 1 .. Len(line) : c = line[i]
    BY DEF Begin, LineConsistent
  <2>2. QED
    BY <2>1 DEF TypeOK
<1>2. QED
  BY <1>1, HeadTailProperties DEF TypeOK, Begin

\* A step keeps the types.
LEMMA TypePreserved ==
  ASSUME ClientInv, [Next]_vars
  PROVE  TypeOK'
<1> USE DEF ClientInv, TypeOK
<1>1. ASSUME NEW c \in Calls, Chat(c)
      PROVE  TypeOK'
  <2>1. line' \in Seq(Calls)
    BY <1>1, AppendProperties DEF Chat
  <2>2. QED
    BY <1>1, <2>1 DEF Chat
<1>2. ASSUME NEW c \in Calls, Ends(c)
      PROVE  TypeOK'
  <2>1. line # <<>>
    BY <1>2, Holder DEF Ends
  <2>2. line' \in Seq(Calls)
    BY <1>2, <2>1, HeadTailProperties DEF Ends
  <2>3. QED
    BY <1>2, <2>2 DEF Ends
<1>3. ASSUME NEW c \in Calls,
             Return(c) \/ TimesOut(c) \/ Cancelled(c) \/ OnDone(c) \/ OrphanEnds(c)
      PROVE  TypeOK'
  BY <1>3 DEF Return, TimesOut, Cancelled, OnDone, OrphanEnds, calls
<1>4. ASSUME NEW c \in Calls, Begin(c) \/ LoadEnds(c) \/ Enter(c)
      PROVE  TypeOK'
  <2>1. CASE Begin(c)
    BY <2>1 DEF Begin
  <2>2. CASE LoadEnds(c)
    BY <2>2 DEF LoadEnds
  <2>3. CASE Enter(c)
    BY <2>3 DEF Enter
  <2>4. QED
    BY <1>4, <2>1, <2>2, <2>3
<1>5. CASE Close
  BY <1>5 DEF Close, calls
<1>6. CASE LoopEnds
  BY <1>6, EmptySeq DEF LoopEnds
<1>7. CASE UNCHANGED vars
  BY <1>7 DEF vars, calls
<1>8. QED
  BY <1>1, <1>2, <1>3, <1>4, <1>5, <1>6, <1>7 DEF Next

\* A step keeps the line: a new task goes to its end, and only its head leaves
\* it, when it is done.
LEMMA LinePreserved ==
  ASSUME ClientInv, [Next]_vars
  PROVE  LineConsistent'
<1>1. TypeOK /\ LineConsistent /\ PendingConsistent
  BY DEF ClientInv
<1>2. /\ Len(line) \in Nat
      /\ line \in Seq(Calls)
      /\ task \in [Calls -> {"new", "lock", "load", "generate", "done"}]
  BY <1>1 DEF TypeOK
<1>3. ASSUME NEW c \in Calls, Chat(c)
      PROVE  LineConsistent'
  <2>1. /\ Len(line') = Len(line) + 1
        /\ \A i \in 1 .. Len(line) : line'[i] = line[i]
        /\ line'[Len(line) + 1] = c
    BY <1>2, <1>3, AppendProperties DEF Chat
  <2>2. task' = [task EXCEPT ![c] = "lock"] /\ task[c] = "new"
    BY <1>1, <1>3 DEF Chat, PendingConsistent
  <2>3. \A i \in 1 .. Len(line) : line[i] \in Calls /\ line[i] # c
    BY <1>1, <1>2, <2>2 DEF LineConsistent
  <2>4. \A d \in Calls : task'[d] \in {"lock", "load", "generate"} =>
                           \E i \in 1 .. Len(line') : d = line'[i]
    <3> SUFFICES ASSUME NEW d \in Calls, task'[d] \in {"lock", "load", "generate"}
                 PROVE  \E i \in 1 .. Len(line') : d = line'[i]
      OBVIOUS
    <3>1. CASE d = c
      BY <1>2, <2>1, <3>1
    <3>2. CASE d # c
      <4>1. PICK i \in 1 .. Len(line) : d = line[i]
        BY <1>1, <1>2, <2>2, <3>2 DEF LineConsistent
      <4>2. QED
        BY <1>2, <2>1, <4>1
    <3>3. QED
      BY <3>1, <3>2
  <2>5. \A i, j \in 1 .. Len(line') : line'[i] = line'[j] => i = j
    BY <1>1, <1>2, <2>1, <2>3 DEF LineConsistent
  <2>6. /\ \A i \in 1 .. Len(line') : task'[line'[i]] \in {"lock", "load", "generate"}
        /\ \A i \in 2 .. Len(line') : task'[line'[i]] = "lock"
    BY <1>1, <1>2, <2>1, <2>2, <2>3 DEF LineConsistent
  <2>7. QED
    BY <2>4, <2>5, <2>6 DEF LineConsistent
<1>4. ASSUME NEW c \in Calls, Ends(c)
      PROVE  LineConsistent'
  <2>1. line # <<>> /\ c = line[1]
    BY <1>1, <1>4, Holder DEF Ends
  <2>2. /\ Len(line') = Len(line) - 1
        /\ \A i \in 1 .. Len(line') : line'[i] = line[i + 1]
    BY <1>2, <1>4, <2>1, HeadTailProperties DEF Ends
  <2>3. task' = [task EXCEPT ![c] = "done"]
    BY <1>4 DEF Ends
  <2>4. \A i \in 2 .. Len(line) : line[i] \in Calls /\ line[i] # c
    BY <1>1, <1>2, <2>1 DEF LineConsistent
  <2>5. \A d \in Calls : task'[d] \in {"lock", "load", "generate"} =>
                           \E i \in 1 .. Len(line') : d = line'[i]
    <3> SUFFICES ASSUME NEW d \in Calls, task'[d] \in {"lock", "load", "generate"}
                 PROVE  \E i \in 1 .. Len(line') : d = line'[i]
      OBVIOUS
    <3>1. d # c
      BY <1>2, <2>3
    <3>2. PICK i \in 1 .. Len(line) : d = line[i]
      BY <1>1, <1>2, <2>3, <3>1 DEF LineConsistent
    <3>3. i - 1 \in 1 .. Len(line') /\ line'[i - 1] = d
      BY <1>2, <2>1, <2>2, <3>1, <3>2
    <3>4. QED
      BY <3>3
  <2>6. \A i, j \in 1 .. Len(line') : line'[i] = line'[j] => i = j
    BY <1>1, <1>2, <2>2 DEF LineConsistent
  <2>7. \A i \in 1 .. Len(line') : task'[line'[i]] = "lock"
    BY <1>1, <1>2, <2>2, <2>3, <2>4 DEF LineConsistent
  <2>8. QED
    BY <1>2, <2>2, <2>5, <2>6, <2>7 DEF LineConsistent
<1>5. ASSUME NEW c \in Calls, Begin(c)
      PROVE  LineConsistent'
  <2>1. line' = line /\ c = line[1] /\ line # <<>>
    BY <1>1, <1>5, Beginner DEF Begin
  <2>2. \E s \in {"load", "generate"} : task' = [task EXCEPT ![c] = s]
    BY <1>5 DEF Begin
  <2>3. \A i \in 2 .. Len(line) : line[i] \in Calls /\ line[i] # c
    BY <1>1, <1>2, <2>1 DEF LineConsistent
  <2>4. QED
    BY <1>1, <1>2, <1>5, <2>1, <2>2, <2>3 DEF LineConsistent, Begin
<1>6. ASSUME NEW c \in Calls, LoadEnds(c)
      PROVE  LineConsistent'
  BY <1>1, <1>2, <1>6, Holder DEF LineConsistent, LoadEnds
<1>7. CASE UNCHANGED <<task, line>>
  BY <1>1, <1>7 DEF LineConsistent
<1>8. CASE LoopEnds
  <2>1. \A c \in Calls : task'[c] \notin {"lock", "load", "generate"}
    BY <1>1, <1>2, <1>8 DEF LoopEnds, PendingConsistent
  <2>2. QED
    BY <1>8, <2>1 DEF LineConsistent, LoopEnds
<1>9. QED
  BY <1>3, <1>4, <1>5, <1>6, <1>7, <1>8
     DEF Next, Return, TimesOut, Cancelled, Enter, OnDone, OrphanEnds, Close,
         vars, calls

----------------------------------------------------------------------------
(* Tasks, threads and callers.                                             *)

\* A step keeps each task with its thread: a thread is left behind only when
\* the loop ends, and nothing starts after that.
LEMMA ThreadPreserved ==
  ASSUME ClientInv, [Next]_vars
  PROVE  ThreadConsistent'
<1> USE DEF ThreadConsistent
<1>1. TypeOK /\ LineConsistent /\ ThreadConsistent /\ PendingConsistent
  BY DEF ClientInv
<1>2. /\ task \in [Calls -> {"new", "lock", "load", "generate", "done"}]
      /\ thread \in [Calls -> {"idle", "load", "enter", "generate"}]
  BY <1>1 DEF TypeOK
<1>3. ASSUME NEW c \in Calls, Chat(c)
      PROVE  ThreadConsistent'
  BY <1>1, <1>2, <1>3 DEF Chat, PendingConsistent
<1>4. ASSUME NEW c \in Calls, Ends(c)
      PROVE  ThreadConsistent'
  <2>1. line # <<>>
    BY <1>1, <1>4, Holder DEF Ends
  <2>2. QED
    BY <1>1, <1>2, <1>4, <2>1 DEF Ends
<1>5. ASSUME NEW c \in Calls, Begin(c) \/ LoadEnds(c) \/ Enter(c) \/ OrphanEnds(c)
      PROVE  ThreadConsistent'
  BY <1>1, <1>2, <1>5 DEF Begin, LoadEnds, Enter, OrphanEnds
<1>6. CASE UNCHANGED <<task, thread, line, closing>>
  BY <1>1, <1>6
<1>7. CASE Close
  BY <1>1, <1>7 DEF Close, calls
<1>8. CASE LoopEnds
  BY <1>1, <1>2, <1>8 DEF LoopEnds, PendingConsistent
<1>9. QED
  BY <1>3, <1>4, <1>5, <1>6, <1>7, <1>8
     DEF Next, Return, TimesOut, Cancelled, OnDone, vars, calls

\* A step keeps _pending up to date, and nobody waits once the client is closed.
LEMMA PendingPreserved ==
  ASSUME ClientInv, [Next]_vars
  PROVE  PendingConsistent'
<1> USE DEF ClientInv, PendingConsistent
<1>1. /\ caller \in [Calls -> {"new", "waiting", "returned", "timed_out", "cancelled"}]
      /\ task \in [Calls -> {"new", "lock", "load", "generate", "done"}]
  BY DEF TypeOK
<1>2. ASSUME NEW c \in Calls,
             \/ Chat(c) \/ Return(c) \/ TimesOut(c) \/ Cancelled(c)
             \/ Begin(c) \/ LoadEnds(c) \/ Enter(c) \/ Ends(c)
             \/ OnDone(c) \/ OrphanEnds(c)
      PROVE  PendingConsistent'
  BY <1>1, <1>2 DEF Chat, Return, TimesOut, Cancelled, Begin, LoadEnds, Enter,
     Ends, OnDone, OrphanEnds, calls
<1>3. CASE Close
  BY <1>3 DEF Close, calls
<1>4. CASE LoopEnds
  BY <1>1, <1>4 DEF LoopEnds
<1>5. CASE UNCHANGED vars
  BY <1>5 DEF vars, calls
<1>6. QED
  BY <1>2, <1>3, <1>4, <1>5 DEF Next

----------------------------------------------------------------------------
(* The model.                                                              *)

\* One thread at a time follows from one task at a time, and from there being
\* no task once a thread is left behind.
LEMMA OneThread ==
  ASSUME ClientInv, [Next]_vars
  PROVE  OneAtATime'
<1>1. TypeOK' /\ LineConsistent' /\ ThreadConsistent'
  BY TypePreserved, LinePreserved, ThreadPreserved
<1>2. TypeOK /\ LineConsistent /\ ThreadConsistent /\ OneAtATime /\ PendingConsistent
  BY DEF ClientInv
<1>3. SUFFICES ASSUME NEW c \in Calls, NEW d \in Calls,
                      thread'[c] # "idle", thread'[d] # "idle"
               PROVE  c = d
  BY DEF OneAtATime
<1>4. CASE /\ task'[c] \in {"load", "generate"}
           /\ task'[d] \in {"load", "generate"}
  <2>1. \A e \in Calls : task'[e] \in {"load", "generate"} => e = line'[1]
    <3> SUFFICES ASSUME NEW e \in Calls, task'[e] \in {"load", "generate"}
                 PROVE  e = line'[1]
      OBVIOUS
    <3>1. PICK i \in 1 .. Len(line') : e = line'[i]
      BY <1>1 DEF LineConsistent
    <3>2. QED
      BY <1>1, <3>1 DEF LineConsistent, TypeOK
  <2>2. QED
    BY <1>4, <2>1
<1>5. CASE task'[c] = "done" \/ task'[d] = "done"
  <2>1. line' = <<>> /\ closing'
    BY <1>1, <1>3, <1>5 DEF ThreadConsistent
  <2>2. thread[c] # "idle" /\ thread[d] # "idle"
    <3>1. ASSUME NEW e \in Calls, Chat(e)
          PROVE  thread' = thread
      BY <3>1 DEF Chat
    <3>2. ASSUME NEW e \in Calls, Begin(e)
          PROVE  FALSE
      BY <1>2, <2>1, <3>2, Beginner DEF Begin
    <3>3. ASSUME NEW e \in Calls, LoadEnds(e)
          PROVE  FALSE
      BY <1>2, <2>1, <3>3, Holder DEF LoadEnds
    <3>4. ASSUME NEW e \in Calls, Enter(e) \/ Ends(e) \/ OrphanEnds(e)
          PROVE  \A a \in Calls : thread'[a] # "idle" => thread[a] # "idle"
      BY <1>2, <3>4 DEF Enter, Ends, OrphanEnds, TypeOK
    <3>5. CASE LoopEnds
      BY <1>2, <1>3, <3>5 DEF LoopEnds, TypeOK
    <3>6. CASE UNCHANGED thread
      BY <1>3, <3>6
    <3>7. QED
      BY <1>3, <3>1, <3>2, <3>3, <3>4, <3>5, <3>6
         DEF Next, Return, TimesOut, Cancelled, OnDone, Close, vars, calls
  <2>3. QED
    BY <1>2, <2>2 DEF OneAtATime
<1>6. QED
  BY <1>1, <1>3, <1>4, <1>5 DEF ThreadConsistent

\* The model is there while it is used, and is loaded once: what drops it is
\* the last task of a closed client, and what loads it holds the lock and found
\* none.
LEMMA ModelPreserved ==
  ASSUME ClientInv, [Next]_vars
  PROVE  ModelInUse' /\ LoadedOnce' /\ LoadConsistent'
<1> USE DEF ModelInUse, LoadedOnce, LoadConsistent
<1>1. /\ TypeOK /\ LineConsistent /\ PendingConsistent
      /\ ModelInUse /\ LoadedOnce /\ LoadConsistent
  BY DEF ClientInv
<1>2. /\ task \in [Calls -> {"new", "lock", "load", "generate", "done"}]
      /\ loads \in Nat
      /\ model \in BOOLEAN
      /\ closing \in BOOLEAN
  BY <1>1 DEF TypeOK
<1>3. \A c \in Calls : c \notin pending => task[c] \in {"new", "done"}
  BY <1>1 DEF PendingConsistent
<1>4. ASSUME NEW c \in Calls, Chat(c)
      PROVE  ModelInUse' /\ LoadedOnce' /\ LoadConsistent'
  BY <1>1, <1>2, <1>4 DEF Chat
<1>5. ASSUME NEW c \in Calls, Return(c) \/ TimesOut(c) \/ Cancelled(c)
      PROVE  ModelInUse' /\ LoadedOnce' /\ LoadConsistent'
  BY <1>1, <1>2, <1>5 DEF Return, TimesOut, Cancelled
<1>6. ASSUME NEW c \in Calls, Begin(c)
      PROVE  ModelInUse' /\ LoadedOnce' /\ LoadConsistent'
  <2>1. ~model => loads = 0
    BY <1>1, <1>2, <1>3, <1>6 DEF Begin
  <2>2. QED
    BY <1>1, <1>2, <1>6, <2>1 DEF Begin
<1>7. ASSUME NEW c \in Calls, LoadEnds(c)
      PROVE  ModelInUse' /\ LoadedOnce' /\ LoadConsistent'
  <2>1. \A d \in Calls : task[d] = "load" => d = c
    BY <1>1, <1>7, Holder DEF LoadEnds
  <2>2. c \in pending
    BY <1>3, <1>7 DEF LoadEnds
  <2>3. loads = 0
    BY <1>1, <1>7 DEF LoadEnds
  <2>4. QED
    BY <1>1, <1>2, <1>7, <2>1, <2>2, <2>3 DEF LoadEnds
<1>8. ASSUME NEW c \in Calls, Enter(c) \/ Ends(c) \/ OrphanEnds(c)
      PROVE  ModelInUse' /\ LoadedOnce' /\ LoadConsistent'
  BY <1>1, <1>2, <1>8 DEF Enter, Ends, OrphanEnds
<1>9. ASSUME NEW c \in Calls, OnDone(c)
      PROVE  ModelInUse' /\ LoadedOnce' /\ LoadConsistent'
  <2>1. /\ task' = task /\ loads' = loads /\ closing' = closing
        /\ pending' = pending \ {c} /\ task[c] = "done"
        /\ model' = (model /\ ~(closing /\ pending' = {}))
    BY <1>9 DEF OnDone, calls
  <2>2. CASE closing /\ pending' = {}
    <3>1. \A d \in Calls : task[d] \in {"new", "done"}
      BY <1>3, <2>1, <2>2
    <3>2. QED
      BY <1>1, <1>2, <2>1, <2>2, <3>1
  <2>3. CASE ~(closing /\ pending' = {})
    <3>1. model' = model
      BY <1>2, <2>1, <2>3
    <3>2. ~(closing /\ pending = {})
      BY <2>1, <2>3
    <3>3. QED
      BY <1>1, <1>2, <2>1, <2>3, <3>1, <3>2
  <2>4. QED
    BY <2>2, <2>3
<1>10. CASE Close
  <2>1. /\ task' = task /\ loads' = loads /\ pending' = pending
        /\ closing' /\ ~closing /\ model' = (model /\ pending # {})
    BY <1>10 DEF Close, calls
  <2>2. QED
    BY <1>1, <1>2, <1>3, <2>1
<1>11. CASE LoopEnds
  BY <1>1, <1>2, <1>11 DEF LoopEnds
<1>12. CASE UNCHANGED vars
  BY <1>1, <1>12 DEF vars, calls
<1>13. QED
  BY <1>4, <1>5, <1>6, <1>7, <1>8, <1>9, <1>10, <1>11, <1>12 DEF Next

----------------------------------------------------------------------------

\* ClientInv holds in every state: the types, the lock's line, the agreement of
\* callers, tasks and threads, and what follows for the model.
THEOREM ClientInvariant == Spec => []ClientInv
<1>1. ClientInv /\ [Next]_vars => ClientInv'
  BY TypePreserved, LinePreserved, ThreadPreserved, PendingPreserved, OneThread,
     ModelPreserved DEF ClientInv
<1>2. QED
  BY InitInv, <1>1, PTL DEF Spec

\* No two threads are ever inside the model: a timeout keeps the lock until the
\* background generation is over.
THEOREM MutualExclusion == Spec => []OneAtATime
<1>1. ClientInv => OneAtATime
  BY DEF ClientInv
<1>2. QED
  BY <1>1, ClientInvariant, PTL

\* The assertion of _generate holds for every call that is still wanted.
THEOREM AssertionHolds == Spec => []ModelInUse
<1>1. ClientInv => ModelInUse
  BY DEF ClientInv
<1>2. QED
  BY <1>1, ClientInvariant, PTL

\* The model is loaded at most once, and is gone when a closed client is idle.
THEOREM OneLoad == Spec => []LoadedOnce
<1>1. ClientInv => LoadedOnce
  BY DEF ClientInv
<1>2. QED
  BY <1>1, ClientInvariant, PTL
=============================================================================
