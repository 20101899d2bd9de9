----------------------- MODULE GraphOrchestratorProofs -----------------------
(***************************************************************************)
(* Proofs about GraphOrchestrator: its budget of supersteps is used up only*)
(* by failed reviews, its nodes do what Supervisor!run does, and it keeps  *)
(* what is proved of that.                                                 *)
(***************************************************************************)
EXTENDS GraphOrchestrator, FiniteSetTheorems, SequenceTheorems, TLAPS

USE GraphLimitsAssumption

Verdicts == [nr : Nat, attempt : Nat, status : {"pass", "fail"}, seen : {"none", "claims"}]

\* An AgentState, whatever its fields hold.
IsState(s) ==
  /\ DOMAIN s = {"steps", "pending", "completed", "outputs", "reviews", "sources", "final"}
  /\ s = [field \in DOMAIN s |-> s[field]]

\* Every variable stays in its type.
GraphTypes ==
  /\ kind \in {"research", "other"}
  /\ reviewer \in BOOLEAN
  /\ node \in {"supervisor", "worker", "reviewer", "end"}
  /\ accepted \in Seq([agent : Rounds!Agents, text : Rounds!Texts, deps : {{}}])
  /\ attempt \in Nat
  /\ result \in {"none", "claims"}
  /\ IsState(state)
  /\ state.reviews \in Seq(Verdicts)
  /\ supersteps \in Nat
  /\ outcome \in {"none", "returned", "state", "lost", "budget"}

\* Where the graph stands: a node is left as long as it runs, a worker has a task, only
\* reviewed work has attempts, and no more than the retries allow.
NodeConsistent ==
  /\ outcome = "none" => node # "end" /\ state.steps = Len(accepted)
  /\ outcome = "budget" => supersteps = Limit
  /\ Len(accepted) <= MaxRounds
  /\ node \in {"worker", "reviewer"} => accepted # <<>> /\ attempt <= MaxReviewRetries
  /\ node = "reviewer" => Reviewed
  /\ node = "worker" /\ attempt # 0 => Reviewed

\* The supersteps still to come in this round, were its review to pass.
Left == [supervisor |-> 0, worker |-> 2, reviewer |-> 1, end |-> 0][node]

\* Each delegation takes three supersteps, and each failed review two more.
BudgetSpent ==
  supersteps + Left <= 3 * Len(accepted) + 2 * Cardinality(FailedReviews)

\* The inductive invariant.
GraphInv == GraphTypes /\ NodeConsistent /\ (outcome \in {"none", "budget"} => BudgetSpent)

----------------------------------------------------------------------------
(* The failed reviews are counted.                                         *)

LEMMA FailedAreFinite ==
  ASSUME GraphTypes
  PROVE  IsFiniteSet(FailedReviews) /\ Cardinality(FailedReviews) \in Nat
PROOF
  <1>1. DOMAIN state.reviews = 1 .. Len(state.reviews) /\ Len(state.reviews) \in Nat
    BY DEF GraphTypes
  <1>2. IsFiniteSet(1 .. Len(state.reviews))
    BY <1>1, FS_Interval
  <1>3. FailedReviews \subseteq 1 .. Len(state.reviews)
    BY <1>1 DEF FailedReviews
  <1>4. QED
    BY <1>2, <1>3, FS_Subset, FS_CardinalityType

\* A review that fails counts, one that passes does not.
LEMMA FailedCount ==
  ASSUME GraphTypes, NEW v \in Verdicts,
         state'.reviews = Append(state.reviews, v)
  PROVE  Cardinality(FailedReviews')
           = Cardinality(FailedReviews) + (IF v.status = "fail" THEN 1 ELSE 0)
PROOF
  <1>1. PICK n : n = Len(state.reviews)
    OBVIOUS
  <1>2. n \in Nat /\ DOMAIN state.reviews = 1 .. n
    BY <1>1 DEF GraphTypes
  <1>3. /\ DOMAIN state'.reviews = 1 .. n + 1
        /\ state'.reviews[n + 1] = v
        /\ \A i \in 1 .. n : state'.reviews[i] = state.reviews[i]
    <2>1. state.reviews \in Seq(Verdicts)
      BY DEF GraphTypes
    <2>2. QED
      BY <1>1, <2>1, AppendProperties
  <1>4. \A i \in 1 .. n + 1 : i \in 1 .. n \/ i = n + 1
    BY <1>2
  <1>5. n + 1 \notin 1 .. n /\ 1 .. n \subseteq 1 .. n + 1 /\ n + 1 \in 1 .. n + 1
    BY <1>2
  <1>6. CASE v.status = "fail"
    <2>1. FailedReviews' = FailedReviews \cup {n + 1} /\ n + 1 \notin FailedReviews
      BY <1>2, <1>3, <1>4, <1>5, <1>6 DEF FailedReviews
    <2>2. QED
      BY <1>6, <2>1, FailedAreFinite, FS_AddElement
  <1>7. CASE v.status # "fail"
    <2>1. FailedReviews' = FailedReviews
      BY <1>2, <1>3, <1>4, <1>5, <1>7 DEF FailedReviews
    <2>2. QED
      BY <1>7, <2>1, FailedAreFinite
  <1>8. QED
    BY <1>6, <1>7

\* Steps that review nothing count nothing.
LEMMA SameCount ==
  ASSUME state'.reviews = state.reviews
  PROVE  FailedReviews' = FailedReviews
  BY DEF FailedReviews

----------------------------------------------------------------------------
(* What the supervisor's operations leave of a state.                      *)

\* t has the steps and the reviews of s.
SameBooks(s, t) == IsState(t) /\ t.steps = s.steps /\ t.reviews = s.reviews

LEMMA BooksKept ==
  ASSUME NEW s, IsState(s), NEW i, NEW x
  PROVE  /\ SameBooks(s, s)
         /\ SameBooks(s, Rounds!WithOutput(s, i, x))
         /\ SameBooks(s, Rounds!WithTools(s, x))
         /\ SameBooks(s, Rounds!Completed(s, i))
         /\ SameBooks(s, Rounds!Failed(s))
         /\ SameBooks(s, Rounds!Finished(s, x))
PROOF
  <1>1. SameBooks(s, s)
    BY DEF SameBooks
  <1>2. SameBooks(s, Rounds!WithOutput(s, i, x))
    BY DEF SameBooks, IsState, Rounds!WithOutput
  <1>3. SameBooks(s, Rounds!WithTools(s, x))
    BY DEF SameBooks, IsState, Rounds!WithTools
  <1>4. SameBooks(s, Rounds!Completed(s, i))
    BY DEF SameBooks, IsState, Rounds!Completed
  <1>5. SameBooks(s, Rounds!Failed(s))
    BY DEF SameBooks, IsState, Rounds!Failed
  <1>6. SameBooks(s, Rounds!Finished(s, x))
    BY DEF SameBooks, IsState, Rounds!Finished
  <1>7. QED
    BY <1>1, <1>2, <1>3, <1>4, <1>5, <1>6

\* A round counts a step.
LEMMA RoundCounts ==
  ASSUME IsState(state), NEW q
  PROVE  LET t == [Rounds!Round EXCEPT !.pending = q]
         IN  /\ IsState(t) /\ t.steps = state.steps + 1 /\ t.reviews = state.reviews
             /\ IsState(Rounds!Round) /\ Rounds!Round.reviews = state.reviews
  BY DEF IsState, Rounds!Round

\* A review is recorded last.
LEMMA ReviewRecorded ==
  ASSUME IsState(state), NEW i, NEW n, NEW status
  PROVE  LET t == Rounds!WithReview(state, i, n, status)
         IN  /\ IsState(t) /\ t.steps = state.steps
             /\ t.reviews = Append(state.reviews, [nr |-> i, attempt |-> n,
                                                  status |-> status, seen |-> result])
  BY DEF IsState, Rounds!WithReview

----------------------------------------------------------------------------
(* The inductive invariant.                                                *)

LEMMA InitGraph == Init => GraphInv
PROOF
  <1>1. ASSUME Init PROVE GraphInv
    <2>1. /\ state = Rounds!NewState /\ accepted = <<>> /\ supersteps = 0
          /\ node = "supervisor" /\ attempt = 0 /\ outcome = "none" /\ result = "none"
      BY <1>1 DEF Init
    <2>2. GraphTypes
      <3>1. IsState(state) /\ state.reviews = <<>>
        BY <2>1 DEF IsState, Rounds!NewState
      <3>2. QED
        BY <1>1, <2>1, <3>1 DEF Init, GraphTypes, Rounds!Kinds
    <2>3. NodeConsistent
      BY <2>1 DEF NodeConsistent, Rounds!NewState
    <2>4. Cardinality(FailedReviews) \in Nat
      BY <2>2, FailedAreFinite
    <2>5. Left = 0 /\ Len(accepted) = 0
      BY <2>1 DEF Left
    <2>6. QED
      BY <2>1, <2>2, <2>3, <2>4, <2>5 DEF GraphInv, BudgetSpent
  <1>2. QED
    BY <1>1

LEMMA GraphPreserved == GraphInv /\ [Next]_vars => GraphInv'
PROOF
  <1>1. SUFFICES ASSUME GraphInv, [Next]_vars PROVE GraphInv'
    OBVIOUS
  <1>2. PICK n, f : n = Len(accepted) /\ f = Cardinality(FailedReviews)
    OBVIOUS
  <1>3. GraphTypes /\ NodeConsistent /\ n \in Nat /\ f \in Nat /\ supersteps \in Nat
    BY <1>1, <1>2, FailedAreFinite DEF GraphInv, GraphTypes
  <1>4. ASSUME NEW agent \in Rounds!Agents, SupervisorDelegates(agent)
        PROVE  GraphInv'
    <2>1. /\ outcome = "none" /\ node = "supervisor" /\ supersteps' = supersteps + 1
          /\ state.steps < MaxRounds /\ attempt' = 0 /\ node' = "worker"
          /\ UNCHANGED <<kind, reviewer, result, outcome>>
          /\ state' = [Rounds!Round EXCEPT !.pending = Append(@, Wording[Len(accepted) + 1])]
      BY <1>4 DEF SupervisorDelegates, Superstep
    <2>2. PICK forced \in Rounds!ForcedAgents :
            accepted' = Append(accepted, [agent |-> Rounds!SentTo(agent, forced),
                                          text |-> Wording[Len(accepted) + 1], deps |-> {}])
      BY <1>4 DEF SupervisorDelegates
    <2>3. state.steps = n /\ n + 1 <= MaxRounds /\ n + 1 \in DOMAIN Wording
      BY <1>2, <1>3, <2>1 DEF NodeConsistent
    <2>4. PICK d \in [agent : Rounds!Agents, text : Rounds!Texts, deps : {{}}] :
            accepted' = Append(accepted, d)
      <3>1. Rounds!SentTo(agent, forced) \in Rounds!Agents
        BY DEF Rounds!SentTo, Rounds!ForcedAgents, Rounds!Agents
      <3>2. Wording[Len(accepted) + 1] \in Rounds!Texts
        BY <1>2, <2>3 DEF Rounds!Texts, Rounds!Range
      <3>3. QED
        BY <2>2, <3>1, <3>2
    <2>5. /\ accepted' \in Seq([agent : Rounds!Agents, text : Rounds!Texts, deps : {{}}])
          /\ Len(accepted') = n + 1 /\ accepted' # <<>>
      BY <1>2, <1>3, <2>4, AppendProperties DEF GraphTypes
    <2>6. IsState(state') /\ state'.steps = state.steps + 1 /\ state'.reviews = state.reviews
      <3>1. IsState(state)
        BY <1>3 DEF GraphTypes
      <3>2. PICK q : state' = [Rounds!Round EXCEPT !.pending = q]
        BY <2>1, <3>1 DEF IsState, Rounds!Round
      <3>3. QED
        BY <3>1, <3>2, RoundCounts
    <2>7. GraphTypes'
      BY <1>3, <2>1, <2>5, <2>6 DEF GraphTypes
    <2>8. NodeConsistent'
      BY <1>3, <2>1, <2>3, <2>5, <2>6 DEF NodeConsistent
    <2>9. BudgetSpent'
      <3>1. Cardinality(FailedReviews)' = f
        BY <1>2, <2>6, SameCount
      <3>2. supersteps <= 3 * n + 2 * f
        BY <1>1, <1>2, <1>3, <2>1 DEF GraphInv, BudgetSpent, Left
      <3>3. Left' = 2
        BY <2>1 DEF Left
      <3>4. supersteps' + 2 <= 3 * (n + 1) + 2 * f
        BY <1>3, <2>1, <3>2
      <3>5. QED
        BY <2>5, <3>1, <3>3, <3>4 DEF BudgetSpent
    <2>10. QED
      BY <2>7, <2>8, <2>9 DEF GraphInv
  <1>5. CASE \/ SupervisorFinishes \/ SupervisorRaises \/ WorkerHitsLimit \/ WorkerRaises
             \/ ReviewerRaises \/ OutOfBudget
    <2>1. /\ UNCHANGED <<kind, reviewer, accepted, attempt, result>>
          /\ outcome' \in {"returned", "state", "lost", "budget"}
          /\ supersteps' \in {supersteps, supersteps + 1}
          /\ \/ node' = node /\ state' = state
             \/ node' = "end" /\ state' = Rounds!Finished(Rounds!Round, "model")
      BY <1>5 DEF SupervisorFinishes, SupervisorRaises, WorkerHitsLimit, WorkerRaises,
         ReviewerRaises, OutOfBudget, Superstep
    <2>2. IsState(state') /\ state'.reviews = state.reviews
      <3>1. IsState(state) /\ IsState(Rounds!Round) /\ Rounds!Round.reviews = state.reviews
        BY <1>3, RoundCounts DEF GraphTypes
      <3>2. SameBooks(Rounds!Round, Rounds!Finished(Rounds!Round, "model"))
        BY <3>1, BooksKept
      <3>3. QED
        BY <2>1, <3>1, <3>2 DEF SameBooks
    <2>3. GraphTypes'
      BY <1>3, <2>1, <2>2 DEF GraphTypes
    <2>4. ASSUME outcome' = "budget"
          PROVE  /\ outcome = "none" /\ supersteps' = supersteps /\ supersteps = Limit
                 /\ node' = node
      BY <1>5, <2>4 DEF SupervisorFinishes, SupervisorRaises, WorkerHitsLimit, WorkerRaises,
         ReviewerRaises, OutOfBudget
    <2>5. Limit' = Limit
      BY DEF Limit
    <2>6. NodeConsistent'
      BY <1>3, <2>1, <2>4, <2>5 DEF NodeConsistent, Reviewed, job
    <2>7. ASSUME outcome' = "budget" PROVE BudgetSpent'
      <3>1. FailedReviews' = FailedReviews
        BY <2>2, SameCount
      <3>2. BudgetSpent
        BY <1>1, <2>4, <2>7 DEF GraphInv
      <3>3. Left' = Left
        BY <2>4, <2>7 DEF Left
      <3>4. QED
        BY <2>1, <2>4, <2>7, <3>1, <3>2, <3>3 DEF BudgetSpent
    <2>8. QED
      BY <2>1, <2>3, <2>6, <2>7 DEF GraphInv
  <1>6. ASSUME NEW source \in BOOLEAN, WorkerReturns(source)
        PROVE  GraphInv'
    <2>1. /\ outcome = "none" /\ node = "worker" /\ supersteps' = supersteps + 1
          /\ node' = (IF Reviewed THEN "reviewer" ELSE "supervisor") /\ result' = "claims"
          /\ UNCHANGED <<kind, reviewer, accepted, attempt, outcome>>
      BY <1>6 DEF WorkerReturns, Superstep
    <2>2. PICK s, t : /\ t = Rounds!WithTools(state, source)
                      /\ s = Rounds!WithOutput(t, Len(accepted), "claims")
                      /\ state' = IF Reviewed THEN s ELSE Rounds!Completed(s, Len(accepted))
      BY <1>6 DEF WorkerReturns
    <2>3. IsState(state') /\ state'.steps = state.steps /\ state'.reviews = state.reviews
      <3>1. IsState(state)
        BY <1>3 DEF GraphTypes
      <3>2. SameBooks(state, t) /\ IsState(t)
        <4>1. SameBooks(state, t)
          BY <2>2, <3>1, BooksKept
        <4>2. QED
          BY <4>1 DEF SameBooks
      <3>3. SameBooks(t, s) /\ IsState(s)
        <4>1. SameBooks(t, s)
          BY <2>2, <3>2, BooksKept
        <4>2. QED
          BY <4>1 DEF SameBooks
      <3>4. SameBooks(s, state')
        <4>1. CASE Reviewed
          BY <2>2, <3>3, <4>1, BooksKept
        <4>2. CASE ~Reviewed
          BY <2>2, <3>3, <4>2, BooksKept
        <4>3. QED
          BY <4>1, <4>2
      <3>5. QED
        BY <3>2, <3>3, <3>4 DEF SameBooks
    <2>4. GraphTypes'
      BY <1>3, <2>1, <2>3 DEF GraphTypes
    <2>5. NodeConsistent'
      BY <1>3, <2>1, <2>3 DEF NodeConsistent, Reviewed, job
    <2>6. BudgetSpent'
      <3>1. Cardinality(FailedReviews)' = f /\ Len(accepted') = n
        BY <1>2, <2>1, <2>3, SameCount
      <3>2. supersteps + 2 <= 3 * n + 2 * f
        BY <1>1, <1>2, <1>3, <2>1 DEF GraphInv, BudgetSpent, Left
      <3>3. PICK left \in {0, 1} : Left' = left
        BY <2>1 DEF Left
      <3>4. supersteps' + left <= 3 * n + 2 * f
        BY <1>3, <2>1, <3>2
      <3>5. QED
        BY <3>1, <3>3, <3>4 DEF BudgetSpent
    <2>7. QED
      BY <2>4, <2>5, <2>6 DEF GraphInv
  <1>7. ASSUME NEW status \in {"pass", "fail"}, ReviewerEnds(status)
        PROVE  GraphInv'
    <2>1. /\ outcome = "none" /\ node = "reviewer" /\ supersteps' = supersteps + 1
          /\ attempt' = attempt + 1
          /\ UNCHANGED <<kind, reviewer, accepted, result>>
          /\ \/ status = "pass" /\ node' = "supervisor" /\ outcome' = outcome
             \/ status = "fail" /\ node' = "worker" /\ outcome' = outcome
                /\ attempt + 1 <= MaxReviewRetries
             \/ node' = "end" /\ outcome' = "returned"
      BY <1>7 DEF ReviewerEnds, Superstep
    <2>2. PICK v \in Verdicts :
            v = [nr |-> Len(accepted), attempt |-> attempt + 1, status |-> status,
                 seen |-> result]
      <3>1. /\ Len(accepted) \in Nat /\ attempt + 1 \in Nat /\ status \in {"pass", "fail"}
            /\ result \in {"none", "claims"}
        BY <1>2, <1>3 DEF GraphTypes
      <3>2. QED
        BY <3>1 DEF Verdicts
    <2>3. PICK s : /\ s = Rounds!WithReview(state, Len(accepted), attempt + 1, status)
                   /\ state' \in {s, Rounds!Completed(s, Len(accepted)), Rounds!Failed(s)}
      BY <1>7 DEF ReviewerEnds
    <2>4. /\ IsState(state') /\ state'.steps = state.steps
          /\ state'.reviews = Append(state.reviews, v)
      <3>1. IsState(s) /\ s.steps = state.steps /\ s.reviews = Append(state.reviews, v)
        BY <1>3, <2>2, <2>3, ReviewRecorded DEF GraphTypes
      <3>2. SameBooks(s, state')
        BY <2>3, <3>1, BooksKept
      <3>3. QED
        BY <3>1, <3>2 DEF SameBooks
    <2>5. GraphTypes'
      <3>1. Append(state.reviews, v) \in Seq(Verdicts)
        BY <1>3, AppendProperties DEF GraphTypes
      <3>2. QED
        BY <1>3, <2>1, <2>4, <3>1 DEF GraphTypes
    <2>6. NodeConsistent'
      BY <1>3, <2>1, <2>4 DEF NodeConsistent, Reviewed, job, GraphTypes
    <2>7. ASSUME outcome' \in {"none", "budget"} PROVE BudgetSpent'
      <3>1. /\ Cardinality(FailedReviews') = f + (IF status = "fail" THEN 1 ELSE 0)
            /\ Len(accepted') = n
        BY <1>2, <1>3, <2>1, <2>2, <2>4, FailedCount
      <3>2. supersteps + 1 <= 3 * n + 2 * f
        BY <1>1, <1>2, <1>3, <2>1 DEF GraphInv, BudgetSpent, Left
      <3>3. Left' = IF status = "fail" THEN 2 ELSE 0
        BY <2>1, <2>7 DEF Left
      <3>4. supersteps' + (IF status = "fail" THEN 2 ELSE 0)
              <= 3 * n + 2 * (f + IF status = "fail" THEN 1 ELSE 0)
        BY <1>3, <2>1, <3>2
      <3>5. QED
        BY <3>1, <3>3, <3>4 DEF BudgetSpent
    <2>8. QED
      BY <2>5, <2>6, <2>7 DEF GraphInv
  <1>8. CASE UNCHANGED vars
    BY <1>1, <1>8 DEF vars, GraphInv, GraphTypes, NodeConsistent, BudgetSpent, Left,
       FailedReviews, Reviewed, job
  <1>9. QED
    BY <1>1, <1>4, <1>5, <1>6, <1>7, <1>8 DEF Next

\* The graph keeps its books, and its budget holds for every delegation and failed review.
THEOREM GraphInvariant == Spec => []GraphInv
PROOF
  <1>1. QED
    BY InitGraph, GraphPreserved, PTL DEF Spec

----------------------------------------------------------------------------

\* A graph that has run out of supersteps has seen more failed reviews than half of all
\* the retries allowed, for any number of rounds and retries.
THEOREM BudgetIsForRetries == Spec => []RetriesExhaustBudget
PROOF
  <1>1. ASSUME GraphInv, outcome = "budget"
        PROVE  2 * Cardinality(FailedReviews) >= MaxRounds * MaxReviewRetries + 5
    <2>1. PICK n, f : n = Len(accepted) /\ f = Cardinality(FailedReviews)
      OBVIOUS
    <2>2. /\ n \in Nat /\ f \in Nat /\ n <= MaxRounds
          /\ Limit + Left <= 3 * n + 2 * f
      BY <1>1, <2>1, FailedAreFinite DEF GraphInv, GraphTypes, NodeConsistent, BudgetSpent
    <2>3. Left \in Nat
      BY <1>1 DEF Left, GraphInv, GraphTypes
    <2>4. PICK retries \in Nat : /\ retries = MaxRounds * MaxReviewRetries
                                 /\ Limit = retries + 3 * MaxRounds + 5
      BY DEF Limit
    <2>5. 2 * f >= retries + 5
      BY <2>2, <2>3, <2>4
    <2>6. QED
      BY <2>1, <2>4, <2>5
  <1>2. GraphInv => RetriesExhaustBudget
    BY <1>1 DEF RetriesExhaustBudget
  <1>3. QED
    BY <1>2, GraphInvariant, PTL

----------------------------------------------------------------------------
(* The graph implements the rounds of Supervisor.                          *)

LEMMA InitImplements == Init => Rounds!Init
  BY DEF Init, Rounds!Init, AwaitOf, AttemptOf, Rounds!NoBatch

LEMMA DelegatesImplements ==
  ASSUME GraphInv, NEW agent \in Rounds!Agents, SupervisorDelegates(agent)
  PROVE  Rounds!DecideDelegates(agent)
PROOF
  <1>1. /\ outcome = "none" /\ node = "supervisor" /\ state.steps < MaxRounds
        /\ attempt' = 0 /\ node' = "worker"
        /\ UNCHANGED <<kind, reviewer, result, outcome>>
        /\ state' = [Rounds!Round EXCEPT !.pending = Append(@, Wording[Len(accepted) + 1])]
    BY DEF SupervisorDelegates, Superstep
  <1>2. PICK forced \in Rounds!ForcedAgents :
          accepted' = Append(accepted, [agent |-> Rounds!SentTo(agent, forced),
                                        text |-> Wording[Len(accepted) + 1], deps |-> {}])
    BY DEF SupervisorDelegates
  <1>3. Len(accepted') = Len(accepted) + 1 /\ accepted' # <<>>
    BY <1>2, AppendProperties DEF GraphInv, GraphTypes
  <1>4. AwaitOf = "decide" /\ AwaitOf' = "work" /\ AttemptOf' = 1
    BY <1>1, <1>3 DEF AwaitOf, AttemptOf
  <1>5. Rounds!Delegate(Rounds!SentTo(agent, forced))
    BY <1>1, <1>2, <1>3, <1>4 DEF Rounds!Delegate, Rounds!setup
  <1>6. QED
    BY <1>1, <1>4, <1>5 DEF Rounds!DecideDelegates

LEMMA FinishesImplements ==
  ASSUME GraphInv, SupervisorFinishes
  PROVE  Rounds!DecideFinal
PROOF
  <1>1. /\ outcome = "none" /\ node = "supervisor" /\ outcome' = "returned" /\ node' = "end"
        /\ UNCHANGED <<kind, reviewer, result, accepted, attempt>>
    BY DEF SupervisorFinishes, Superstep
  <1>2. AwaitOf = "decide" /\ AwaitOf' = "ended" /\ AttemptOf' = AttemptOf
    BY <1>1 DEF AwaitOf, AttemptOf
  <1>3. QED
    BY <1>1, <1>2 DEF SupervisorFinishes, Rounds!DecideFinal, Rounds!Returns, Rounds!setup

\* Whatever a node raises, and a limit that is reached, ends the run.
LEMMA RaisesImplements ==
  ASSUME GraphInv, outcome = "none", node' = node, outcome' \in {"lost", "budget"},
         UNCHANGED <<kind, reviewer, result, accepted, attempt, state>>
  PROVE  Rounds!Next
PROOF
  <1>1. node \in {"supervisor", "worker", "reviewer"}
    BY DEF GraphInv, GraphTypes, NodeConsistent
  <1>2. AwaitOf' = "ended" /\ AttemptOf' = AttemptOf
    BY DEF AwaitOf, AttemptOf
  <1>3. Rounds!Raises("lost")
    BY <1>2 DEF Rounds!Raises
  <1>4. CASE node = "supervisor"
    <2>1. AwaitOf = "decide"
      BY <1>4 DEF AwaitOf
    <2>2. Rounds!DecideRaises
      BY <1>2, <1>3, <2>1 DEF Rounds!DecideRaises, Rounds!setup
    <2>3. QED
      BY <2>2 DEF Rounds!Next, Rounds!Run
  <1>5. CASE node = "worker"
    <2>1. AwaitOf = "work"
      BY <1>5 DEF AwaitOf
    <2>2. Rounds!WorkerRaises
      BY <1>2, <1>3, <2>1 DEF Rounds!WorkerRaises, Rounds!setup
    <2>3. QED
      BY <2>2 DEF Rounds!Next, Rounds!Work
  <1>6. CASE node = "reviewer"
    <2>1. AwaitOf = "review"
      BY <1>6 DEF AwaitOf
    <2>2. Rounds!ReviewRaises
      BY <1>2, <1>3, <2>1 DEF Rounds!ReviewRaises, Rounds!setup
    <2>3. QED
      BY <2>2 DEF Rounds!Next, Rounds!Review
  <1>7. QED
    BY <1>1, <1>4, <1>5, <1>6

LEMMA LimitImplements ==
  ASSUME GraphInv, WorkerHitsLimit
  PROVE  Rounds!WorkerHitsLimit
PROOF
  <1>1. /\ outcome = "none" /\ node = "worker" /\ outcome' = "state"
        /\ UNCHANGED <<kind, reviewer, node, accepted, attempt, result, state>>
    BY DEF WorkerHitsLimit, Superstep
  <1>2. AwaitOf = "work" /\ AwaitOf' = "ended" /\ AttemptOf' = AttemptOf
    BY <1>1 DEF AwaitOf, AttemptOf
  <1>3. QED
    BY <1>1, <1>2 DEF Rounds!WorkerHitsLimit, Rounds!Raises, Rounds!setup

\* Outside of research the edges of the graph are the supervisor's gate.
LEMMA SameGate ==
  ASSUME kind # "research"
  PROVE  /\ Rounds!Gated(Rounds!job.agent) <=> Reviewed
         /\ ~Rounds!MayAbstain(Rounds!job.agent)
  BY DEF Rounds!Gated, Rounds!MayAbstain, Rounds!job, Reviewed, job

LEMMA WorkerImplements ==
  ASSUME GraphInv, kind # "research", NEW source \in BOOLEAN, WorkerReturns(source)
  PROVE  Rounds!WorkerReturns(source)
PROOF
  <1>1. /\ outcome = "none" /\ node = "worker" /\ (source => kind = "research")
        /\ node' = (IF Reviewed THEN "reviewer" ELSE "supervisor") /\ result' = "claims"
        /\ UNCHANGED <<kind, reviewer, accepted, attempt, outcome>>
    BY DEF WorkerReturns, Superstep
  <1>2. PICK s : /\ s = Rounds!WithOutput(Rounds!WithTools(state, source), Len(accepted),
                                          "claims")
                 /\ state' = IF Reviewed THEN s ELSE Rounds!Completed(s, Len(accepted))
    BY DEF WorkerReturns
  <1>3. accepted # <<>> /\ attempt \in Nat /\ (attempt # 0 => Reviewed)
    BY <1>1 DEF GraphInv, GraphTypes, NodeConsistent
  <1>4. AwaitOf = "work" /\ AwaitOf' = IF Reviewed THEN "review" ELSE "decide"
    BY <1>1 DEF AwaitOf
  <1>5. AttemptOf' = AttemptOf
    BY <1>1, <1>3 DEF AttemptOf
  <1>6. CASE Reviewed
    BY <1>1, <1>2, <1>4, <1>5, <1>6, SameGate DEF Rounds!WorkerReturns, Rounds!setup
  <1>7. CASE ~Reviewed
    <2>1. Rounds!Advances(Rounds!Completed(s, Len(accepted)))
      BY <1>1, <1>2, <1>4, <1>7 DEF Rounds!Advances
    <2>2. QED
      BY <1>1, <1>2, <1>4, <1>5, <1>7, <2>1, SameGate DEF Rounds!WorkerReturns, Rounds!setup
  <1>8. QED
    BY <1>6, <1>7

LEMMA ReviewerImplements ==
  ASSUME GraphInv, kind # "research", NEW status \in {"pass", "fail"}, ReviewerEnds(status)
  PROVE  Rounds!ReviewEnds(status)
PROOF
  <1>1. PICK n, s : /\ n = attempt + 1
                    /\ s = Rounds!WithReview(state, Len(accepted), n, status)
    OBVIOUS
  <1>2. /\ outcome = "none" /\ node = "reviewer" /\ attempt' = n
        /\ UNCHANGED <<kind, reviewer, accepted, result>>
        /\ \/ /\ status = "pass" /\ node' = "supervisor" /\ outcome' = outcome
              /\ state' = Rounds!Completed(s, Len(accepted))
           \/ /\ status = "fail" /\ n <= MaxReviewRetries /\ node' = "worker"
              /\ outcome' = outcome /\ state' = s
           \/ /\ status = "fail" /\ n > MaxReviewRetries /\ node' = "end"
              /\ outcome' = "returned" /\ state' = Rounds!Failed(s)
    BY <1>1 DEF ReviewerEnds, Superstep
  <1>3. /\ accepted # <<>> /\ attempt \in Nat /\ n \in Nat /\ n # 0
        /\ n <= MaxReviewRetries + 1
    BY <1>1, <1>2 DEF GraphInv, GraphTypes, NodeConsistent
  <1>4. AwaitOf = "review" /\ AttemptOf = n
    BY <1>1, <1>2, <1>3 DEF AwaitOf, AttemptOf
  <1>5. CASE status = "pass"
    <2>1. AwaitOf' = "decide" /\ AttemptOf' = n
      BY <1>2, <1>3, <1>5 DEF AwaitOf, AttemptOf
    <2>2. Rounds!Advances(Rounds!Completed(s, Len(accepted)))
      BY <1>2, <1>5, <2>1 DEF Rounds!Advances
    <2>3. QED
      BY <1>1, <1>2, <1>4, <1>5, <2>1, <2>2 DEF Rounds!ReviewEnds, Rounds!setup
  <1>6. CASE status = "fail" /\ n <= MaxReviewRetries
    <2>1. AwaitOf' = "work" /\ AttemptOf' = n + 1
      BY <1>2, <1>3, <1>6 DEF AwaitOf, AttemptOf
    <2>2. QED
      BY <1>1, <1>2, <1>4, <1>6, <2>1 DEF Rounds!ReviewEnds, Rounds!setup
  <1>7. CASE status = "fail" /\ n > MaxReviewRetries
    <2>0. node' = "end" /\ outcome' = "returned" /\ state' = Rounds!Failed(s)
      BY <1>2, <1>3, <1>7
    <2>1. AwaitOf' = "ended" /\ AttemptOf' = n
      BY <1>2, <1>3, <2>0 DEF AwaitOf, AttemptOf
    <2>2. n = MaxReviewRetries + 1
      BY <1>3, <1>7
    <2>3. Rounds!Returns(Rounds!Failed(s))
      BY <2>0, <2>1 DEF Rounds!Returns
    <2>4. QED
      BY <1>1, <1>2, <1>4, <1>7, <2>1, <2>2, <2>3, SameGate
      DEF Rounds!ReviewEnds, Rounds!setup
  <1>8. QED
    BY <1>2, <1>5, <1>6, <1>7

LEMMA StepImplements ==
  GraphInv /\ [Next]_vars => [kind = "research" \/ Rounds!Next]_(Rounds!vars)
PROOF
  <1>1. SUFFICES ASSUME GraphInv, [Next]_vars, kind # "research"
                 PROVE  Rounds!Next \/ UNCHANGED Rounds!vars
    OBVIOUS
  <1>2. ASSUME NEW agent \in Rounds!Agents, SupervisorDelegates(agent) PROVE Rounds!Next
    BY <1>1, <1>2, DelegatesImplements DEF Rounds!Next, Rounds!Run
  <1>3. CASE SupervisorFinishes
    BY <1>1, <1>3, FinishesImplements DEF Rounds!Next, Rounds!Run
  <1>4. CASE SupervisorRaises \/ WorkerRaises \/ ReviewerRaises \/ OutOfBudget
    <2>1. /\ outcome = "none" /\ node' = node /\ outcome' \in {"lost", "budget"}
          /\ UNCHANGED <<kind, reviewer, result, accepted, attempt, state>>
      BY <1>4 DEF SupervisorRaises, WorkerRaises, ReviewerRaises, OutOfBudget, Superstep
    <2>2. QED
      BY <1>1, <2>1, RaisesImplements
  <1>5. ASSUME NEW source \in BOOLEAN, WorkerReturns(source) PROVE Rounds!Next
    BY <1>1, <1>5, WorkerImplements DEF Rounds!Next, Rounds!Work
  <1>6. CASE WorkerHitsLimit
    BY <1>1, <1>6, LimitImplements DEF Rounds!Next, Rounds!Work
  <1>7. ASSUME NEW status \in {"pass", "fail"}, ReviewerEnds(status) PROVE Rounds!Next
    BY <1>1, <1>7, ReviewerImplements DEF Rounds!Next, Rounds!Review
  <1>8. CASE UNCHANGED vars
    BY <1>8 DEF vars, Rounds!vars, Rounds!setup, AwaitOf, AttemptOf
  <1>9. QED
    BY <1>1, <1>2, <1>3, <1>4, <1>5, <1>6, <1>7, <1>8 DEF Next

\* Every superstep of the graph does what a step of Supervisor!run may do, for any number
\* of rounds and retries; of research, which run has reviewed and the graph has not, it
\* says only where it starts.
THEOREM GraphImplementsRounds == Spec => ImplementsRounds
PROOF
  <1>1. QED
    BY InitImplements, StepImplements, GraphInvariant, PTL DEF Spec, ImplementsRounds

----------------------------------------------------------------------------
(* What the supervisor's loop keeps, the graph keeps.                      *)

\* The loop that the graph implements, with what is proved of it.
Loop == INSTANCE SupervisorProofs WITH
  MaxTasks <- 1,
  mode <- "run",
  pc <- AwaitOf,
  at <- Len(accepted),
  done <- {},
  attempt <- AttemptOf,
  batch <- <<>>,
  outcome <- IF outcome = "budget" THEN "lost" ELSE outcome

\* What those proofs assume of the limits holds of the graph's.
LEMMA LoopLimits ==
  /\ MaxRounds \in Nat \ {0} /\ MaxReviewRetries \in Nat /\ 1 \in Nat \ {0}
  /\ 1 .. MaxRounds \cup 1 .. 1 \subseteq DOMAIN Wording
  /\ \A i \in DOMAIN Wording : Wording[i] \in Seq(STRING)
  BY GraphLimitsAssumption, GraphWordingAssumption

\* Rounds and Loop are the same module twice: a step of the one is a step of the other.
LEMMA SameRun == Rounds!Run => Loop!Run
PROOF
  <1>1. \A agent : Rounds!DecideDelegates(agent) => Loop!DecideDelegates(agent)
    BY DEF Loop!DecideDelegates, Rounds!DecideDelegates, Loop!Delegate, Rounds!Delegate,
           Loop!ForcedAgents, Rounds!ForcedAgents, Loop!Round, Rounds!Round, Loop!SentTo,
           Rounds!SentTo, Loop!setup, Rounds!setup
  <1>2. Rounds!DecideFinal => Loop!DecideFinal
    BY DEF Loop!DecideFinal, Rounds!DecideFinal, Loop!Finished, Rounds!Finished,
           Loop!Returns, Rounds!Returns, Loop!Round, Rounds!Round, Loop!setup, Rounds!setup
  <1>3. Rounds!DecideFallsBack => Loop!DecideFallsBack
    BY DEF Loop!DecideFallsBack, Rounds!DecideFallsBack, Loop!Finished, Rounds!Finished,
           Loop!Returns, Rounds!Returns, Loop!Round, Rounds!Round, Loop!setup, Rounds!setup
  <1>4. Rounds!DecideOverflowDelegates => Loop!DecideOverflowDelegates
    BY DEF Loop!DecideOverflowDelegates, Rounds!DecideOverflowDelegates, Loop!Delegate,
           Rounds!Delegate, Loop!ForcedAgents, Rounds!ForcedAgents, Loop!Round,
           Rounds!Round, Loop!setup, Rounds!setup
  <1>5. Rounds!DecideOverflowFails => Loop!DecideOverflowFails
    BY DEF Loop!DecideOverflowFails, Rounds!DecideOverflowFails, Loop!Failed,
           Rounds!Failed, Loop!ForcedAgents, Rounds!ForcedAgents, Loop!Returns,
           Rounds!Returns, Loop!Round, Rounds!Round, Loop!setup, Rounds!setup
  <1>6. Rounds!DecideRaises => Loop!DecideRaises
    BY DEF Loop!DecideRaises, Rounds!DecideRaises, Loop!Raises, Rounds!Raises,
           Loop!setup, Rounds!setup
  <1>7. QED
    BY <1>1, <1>2, <1>3, <1>4, <1>5, <1>6
    DEF Loop!Run, Rounds!Run, Loop!Agents, Rounds!Agents

LEMMA SameWork == Rounds!Work => Loop!Work
PROOF
  <1>1. \A source : Rounds!WorkerReturns(source) => Loop!WorkerReturns(source)
    BY DEF Loop!Advances, Rounds!Advances, Loop!Completed, Rounds!Completed, Loop!Gated,
           Rounds!Gated, Loop!MayAbstain, Rounds!MayAbstain, Loop!Min, Rounds!Min,
           Loop!PlannedId, Rounds!PlannedId, Loop!RemoveAt, Rounds!RemoveAt,
           Loop!RemoveFirst, Rounds!RemoveFirst, Loop!SelectInSeq, Rounds!SelectInSeq,
           Loop!WithOutput, Rounds!WithOutput, Loop!WithTools, Rounds!WithTools,
           Loop!WorkerReturns, Rounds!WorkerReturns, Loop!job, Rounds!job, Loop!setup,
           Rounds!setup
  <1>2. Rounds!WorkerAbstains => Loop!WorkerAbstains
    BY DEF Loop!Advances, Rounds!Advances, Loop!Completed, Rounds!Completed,
           Loop!Fallback, Rounds!Fallback, Loop!Gated, Rounds!Gated, Loop!MayAbstain,
           Rounds!MayAbstain, Loop!Min, Rounds!Min, Loop!PlannedId, Rounds!PlannedId,
           Loop!RemoveAt, Rounds!RemoveAt, Loop!RemoveFirst, Rounds!RemoveFirst,
           Loop!SelectInSeq, Rounds!SelectInSeq, Loop!WithOutput, Rounds!WithOutput,
           Loop!WorkerAbstains, Rounds!WorkerAbstains, Loop!job, Rounds!job, Loop!setup,
           Rounds!setup
  <1>3. Rounds!WorkerOverflowFails => Loop!WorkerOverflowFails
    BY DEF Loop!Failed, Rounds!Failed, Loop!Gated, Rounds!Gated, Loop!MayAbstain,
           Rounds!MayAbstain, Loop!Returns, Rounds!Returns, Loop!WorkerOverflowFails,
           Rounds!WorkerOverflowFails, Loop!job, Rounds!job, Loop!setup, Rounds!setup
  <1>4. Rounds!WorkerHitsLimit => Loop!WorkerHitsLimit
    BY DEF Loop!Raises, Rounds!Raises, Loop!WorkerHitsLimit, Rounds!WorkerHitsLimit,
           Loop!setup, Rounds!setup
  <1>5. Rounds!WorkerRaises => Loop!WorkerRaises
    BY DEF Loop!Raises, Rounds!Raises, Loop!WorkerRaises, Rounds!WorkerRaises,
           Loop!setup, Rounds!setup
  <1>6. QED
    BY <1>1, <1>2, <1>3, <1>4, <1>5 DEF Loop!Work, Rounds!Work

\* But for research, nobody abstains.
LEMMA SameReview ==
  ASSUME kind # "research", Rounds!Review
  PROVE  Loop!Review
PROOF
  <1>1. ~Rounds!MayAbstain(Rounds!job.agent) /\ ~Loop!MayAbstain(Loop!job.agent)
    BY DEF Rounds!MayAbstain, Loop!MayAbstain
  <1>2. \A status : Rounds!ReviewEnds(status) => Loop!ReviewEnds(status)
    BY <1>1 DEF Loop!Advances, Rounds!Advances, Loop!Completed, Rounds!Completed,
           Loop!Failed, Rounds!Failed, Loop!Min, Rounds!Min, Loop!RemoveAt, Rounds!RemoveAt,
           Loop!RemoveFirst, Rounds!RemoveFirst, Loop!Returns, Rounds!Returns,
           Loop!ReviewEnds, Rounds!ReviewEnds, Loop!SelectInSeq, Rounds!SelectInSeq,
           Loop!WithReview, Rounds!WithReview, Loop!setup, Rounds!setup
  <1>3. ~Rounds!ReviewOverflows
    BY <1>1 DEF Rounds!ReviewOverflows
  <1>4. \A status : Rounds!AbstentionReviewed(status) => Loop!AbstentionReviewed(status)
    BY DEF Loop!AbstentionReviewed, Rounds!AbstentionReviewed, Loop!Advances,
           Rounds!Advances, Loop!Completed, Rounds!Completed, Loop!Failed, Rounds!Failed,
           Loop!Min, Rounds!Min, Loop!RemoveAt, Rounds!RemoveAt, Loop!RemoveFirst,
           Rounds!RemoveFirst, Loop!Returns, Rounds!Returns, Loop!SelectInSeq,
           Rounds!SelectInSeq, Loop!WithReview, Rounds!WithReview, Loop!setup, Rounds!setup
  <1>5. Rounds!ReviewRaises => Loop!ReviewRaises
    BY DEF Loop!Raises, Rounds!Raises, Loop!ReviewRaises, Rounds!ReviewRaises,
           Loop!setup, Rounds!setup
  <1>6. QED
    BY <1>2, <1>3, <1>4, <1>5 DEF Rounds!Review, Loop!Review

LEMMA SameStep ==
  ASSUME kind # "research", GraphInv, [Rounds!Next]_(Rounds!vars)
  PROVE  [Loop!Next]_(Loop!vars)
PROOF
  <1>1. AwaitOf \in {"decide", "work", "review", "ended"}
    BY DEF AwaitOf, GraphInv, GraphTypes, NodeConsistent
  <1>2. ~Rounds!RunPlanned
    BY <1>1 DEF Rounds!RunPlanned, Rounds!PlannerReturns, Rounds!PlannerFallsBack,
       Rounds!PlannerRaises, Rounds!NextTask, Rounds!NextBatch, Rounds!SynthesizeReturns,
       Rounds!SynthesizeRaises
  <1>3. ~Rounds!Batch
    BY <1>1 DEF Rounds!Batch, Rounds!BatchStarts, Rounds!BatchEnds, Rounds!BatchCommits,
       Rounds!BatchRaises
  <1>4. QED
    BY <1>2, <1>3, SameRun, SameWork, SameReview
    DEF Rounds!Next, Loop!Next, Rounds!vars, Loop!vars, Rounds!setup, Loop!setup

\* What follows from the books being in order, in the graph's state.
LEMMA LoopBooks ==
  ASSUME Loop!SupervisorInv
  PROVE  /\ Rounds!NothingLost /\ Rounds!ReviewedBeforeCompleted
         /\ Rounds!HonestResult /\ Rounds!WithinLimits
PROOF
  <1>1. Loop!NothingLost <=> Rounds!NothingLost
    BY DEF Loop!AcceptedTexts, Rounds!AcceptedTexts, Loop!NothingLost,
           Rounds!NothingLost
  <1>2. Loop!ReviewedBeforeCompleted <=> Rounds!ReviewedBeforeCompleted
    BY DEF Loop!Gated, Rounds!Gated, Loop!LastAbout, Rounds!LastAbout, Loop!Max,
           Rounds!Max, Loop!ReviewedBeforeCompleted, Rounds!ReviewedBeforeCompleted,
           Loop!SelectLastInSeq, Rounds!SelectLastInSeq
  <1>3. Loop!HonestResult <=> Rounds!HonestResult
    BY DEF Loop!Gated, Rounds!Gated, Loop!HonestResult, Rounds!HonestResult, Loop!Last,
           Rounds!Last, Loop!Range, Rounds!Range
  <1>4. Loop!WithinLimits <=> Rounds!WithinLimits
    BY DEF Loop!About, Rounds!About, Loop!Cardinality, Rounds!Cardinality,
           Loop!WithinLimits, Rounds!WithinLimits
  <1>5. Loop!HonestResult
    BY DEF Loop!SupervisorInv
  <1>6. QED
    BY <1>1, <1>2, <1>3, <1>4, <1>5, Loop!BooksAreComplete, Loop!CompletedVouched,
       Loop!LimitsHold, LoopLimits

\* The books of the graph are in order as those of the supervisor are: no delegation is
\* lost or done twice, reviewed work counts as done only if the review passed what is
\* reported, the result can be told from what is pending, and the limits on rounds,
\* attempts and reviews hold.  Research is excepted as in GraphImplementsRounds.
THEOREM GraphKeepsBooks ==
  Spec => [](kind # "research" => /\ Rounds!NothingLost /\ Rounds!ReviewedBeforeCompleted
                                  /\ Rounds!HonestResult /\ Rounds!WithinLimits)
PROOF
  <1> DEFINE Kept == kind # "research" => Loop!SupervisorInv
  <1>1. Init => Kept
    <2>1. Rounds!Init <=> Loop!Init
      BY DEF Loop!Init, Rounds!Init, Loop!Kinds, Rounds!Kinds, Loop!NewState,
             Rounds!NewState, Loop!NoBatch, Rounds!NoBatch
    <2>2. QED
      BY <2>1, InitImplements, Loop!InitBooked, LoopLimits
  <1>2. GraphInv /\ Kept /\ [Next]_vars => Kept'
    <2>1. SUFFICES ASSUME GraphInv, Kept, [Next]_vars, kind' # "research"
                   PROVE  Loop!SupervisorInv'
      OBVIOUS
    <2>2. kind' = kind
      BY <2>1 DEF Next, vars, SupervisorDelegates, SupervisorFinishes, SupervisorRaises,
         WorkerReturns, WorkerHitsLimit, WorkerRaises, ReviewerEnds, ReviewerRaises,
         OutOfBudget
    <2>3. kind # "research" /\ Loop!SupervisorInv
      BY <2>1, <2>2
    <2>4. [kind = "research" \/ Rounds!Next]_(Rounds!vars)
      BY <2>1, StepImplements
    <2>5. [Loop!Next]_(Loop!vars)
      BY <2>1, <2>3, <2>4, SameStep
    <2>6. QED
      BY <2>3, <2>5, Loop!RunStep, Loop!RunPlannedStep, Loop!BatchStep, Loop!WorkStep,
         Loop!ReviewStep, Loop!Stuttering, LoopLimits DEF Loop!Next
  <1>3. Kept => (kind # "research" => /\ Rounds!NothingLost /\ Rounds!ReviewedBeforeCompleted
                                      /\ Rounds!HonestResult /\ Rounds!WithinLimits)
    BY LoopBooks
  <1>4. QED
    BY <1>1, <1>2, <1>3, GraphInvariant, PTL DEF Spec
=============================================================================
