--------------------------- MODULE GraphOrchestrator ---------------------------
(***************************************************************************)
(* The supervisor's rounds as a LangGraph graph, GraphOrchestrator         *)
(* (app/orchestration/graph.py): a node runs per superstep, an edge says   *)
(* which is next, and the graph may take a limited number of supersteps.   *)
(*                                                                         *)
(* The nodes call the supervisor's own _run_worker, _decide and AgentState,*)
(* so their effects are taken from Supervisor, with this module's state in *)
(* place of its own.                                                       *)
(***************************************************************************)
EXTENDS Naturals, Sequences, FiniteSets

CONSTANTS Wording, MaxRounds, MaxReviewRetries

\* The supervisor that the graph makes for itself refuses other limits.
ASSUME GraphLimitsAssumption ==
  /\ MaxRounds \in Nat \ {0}
  /\ MaxReviewRetries \in Nat
  /\ 1 .. MaxRounds \subseteq DOMAIN Wording

\* A text is words, as in Supervisor.
ASSUME GraphWordingAssumption == \A i \in DOMAIN Wording : Wording[i] \in Seq(STRING)

VARIABLES
  kind,       \* what the request looks like, as in Supervisor
  reviewer,   \* whether there is a reviewer node
  node,       \* the node of the next superstep, the agents being one
  accepted,   \* the delegations so far; the last is next_agent and task
  attempt,    \* review_attempt
  result,     \* the answer in last_result
  state,      \* agent_state
  supersteps, \* how many supersteps the graph has taken
  outcome     \* how ainvoke ended: as in Supervisor, or "budget"

vars == <<kind, reviewer, node, accepted, attempt, result, state,
          supersteps, outcome>>

----------------------------------------------------------------------------
(* The graph seen as Supervisor!run.                                       *)

\* What the coroutine would be suspended at.
AwaitOf ==
  IF outcome # "none" THEN "ended"
  ELSE [supervisor |-> "decide", worker |-> "work", reviewer |-> "review"][node]

\* run counts the attempt it is in, the graph the reviews it has had.
AttemptOf ==
  IF accepted = <<>> THEN 0
  ELSE IF node \in {"worker", "reviewer"} \/ attempt = 0 THEN attempt + 1
  ELSE attempt

Rounds == INSTANCE Supervisor WITH
  MaxTasks <- 1,
  mode <- "run",
  pc <- AwaitOf,
  at <- Len(accepted),
  done <- {},
  attempt <- AttemptOf,
  batch <- <<>>,
  outcome <- IF outcome = "budget" THEN "lost" ELSE outcome

----------------------------------------------------------------------------

Init ==
  /\ kind \in Rounds!Kinds
  /\ reviewer \in BOOLEAN
  /\ node = "supervisor"
  /\ accepted = <<>>
  /\ attempt = 0
  /\ result = "none"
  /\ state = Rounds!NewState
  /\ supersteps = 0
  /\ outcome = "none"

\* (Mutated) The limit counts one node less per round.
TighterLimit == MaxRounds * (MaxReviewRetries + 2) + 5

\* recursion_limit, as run computes it.
Limit == MaxRounds * (MaxReviewRetries + 3) + 5

\* LangGraph takes one more superstep, with node n.
Superstep(n) ==
  /\ outcome = "none"
  /\ node = n
  /\ supersteps < Limit
  /\ supersteps' = supersteps + 1

\* LangGraph raises GraphRecursionError: a node is left to run.
OutOfBudget ==
  /\ outcome = "none"
  /\ supersteps = Limit
  /\ outcome' = "budget"
  /\ UNCHANGED <<kind, reviewer, node, accepted, attempt, result, state, supersteps>>

----------------------------------------------------------------------------
(* _supervisor_node.                                                       *)

\* A valid delegation: the first one may be sent to another role.
SupervisorDelegates(agent) ==
  /\ Superstep("supervisor")
  /\ state.steps < MaxRounds
  /\ \E forced \in Rounds!ForcedAgents :
       accepted' = Append(accepted,
         [agent |-> Rounds!SentTo(agent, forced),
          text |-> Wording[Len(accepted) + 1], deps |-> {}])
  /\ state' = [Rounds!Round EXCEPT !.pending = Append(@, Wording[Len(accepted) + 1])]
  /\ attempt' = 0
  /\ node' = "worker"
  /\ UNCHANGED <<kind, reviewer, result, outcome>>

SupervisorFinishes ==
  /\ Superstep("supervisor")
  /\ state.steps < MaxRounds
  /\ state.outputs # <<>>
  /\ state' = Rounds!Finished(Rounds!Round, "model")
  /\ node' = "end"
  /\ outcome' = "returned"
  /\ UNCHANGED <<kind, reviewer, accepted, attempt, result>>

\* No round is left, or _decide raises; the node has no fallbacks.
SupervisorRaises ==
  /\ Superstep("supervisor")
  /\ outcome' = "lost"
  /\ UNCHANGED <<kind, reviewer, node, accepted, attempt, result, state>>

----------------------------------------------------------------------------
(* _worker_node.                                                           *)

job == accepted[Len(accepted)]

\* The edges: coder and writer are reviewed, and complete only with the review.
Reviewed == reviewer /\ job.agent = "coder"

\* (Mutated) Every worker completes its task by itself.
WorkerReturnsComplete(source) ==
  LET s == Rounds!WithOutput(Rounds!WithTools(state, source), Len(accepted), "claims")
  IN  /\ Superstep("worker")
      /\ source => kind = "research"
      /\ state' = Rounds!Completed(s, Len(accepted))
      /\ node' = IF Reviewed THEN "reviewer" ELSE "supervisor"
      /\ result' = "claims"
      /\ UNCHANGED <<kind, reviewer, accepted, attempt, outcome>>

WorkerReturns(source) ==
  LET s == Rounds!WithOutput(Rounds!WithTools(state, source), Len(accepted), "claims")
  IN  /\ Superstep("worker")
      /\ source => kind = "research"
      /\ state' = IF Reviewed THEN s ELSE Rounds!Completed(s, Len(accepted))
      /\ node' = IF Reviewed THEN "reviewer" ELSE "supervisor"
      /\ result' = "claims"
      /\ UNCHANGED <<kind, reviewer, accepted, attempt, outcome>>

\* The worker reached a limit: _run_worker passes the whole state on.
WorkerHitsLimit ==
  /\ Superstep("worker")
  /\ outcome' = "state"
  /\ UNCHANGED <<kind, reviewer, node, accepted, attempt, result, state>>

WorkerRaises ==
  /\ Superstep("worker")
  /\ outcome' = "lost"
  /\ UNCHANGED <<kind, reviewer, node, accepted, attempt, result, state>>

----------------------------------------------------------------------------
(* _reviewer_node.                                                         *)

\* The verdict and its route: back to the supervisor, to the same worker again,
\* or to the end with a failure.
ReviewerEnds(status) ==
  LET n == attempt + 1
      s == Rounds!WithReview(state, Len(accepted), n, status)
  IN  /\ Superstep("reviewer")
      /\ attempt' = n
      /\ \/ /\ status = "pass"
            /\ state' = Rounds!Completed(s, Len(accepted))
            /\ node' = "supervisor"
            /\ outcome' = outcome
         \/ /\ status = "fail"
            /\ n <= MaxReviewRetries
            /\ state' = s
            /\ node' = "worker"
            /\ outcome' = outcome
         \/ /\ status = "fail"
            /\ n > MaxReviewRetries
            /\ state' = Rounds!Failed(s)
            /\ node' = "end"
            /\ outcome' = "returned"
      /\ UNCHANGED <<kind, reviewer, accepted, result>>

ReviewerRaises ==
  /\ Superstep("reviewer")
  /\ outcome' = "lost"
  /\ UNCHANGED <<kind, reviewer, node, accepted, attempt, result, state>>

----------------------------------------------------------------------------

Next ==
  \/ \E agent \in Rounds!Agents : SupervisorDelegates(agent)
  \/ SupervisorFinishes
  \/ SupervisorRaises
  \/ \E source \in BOOLEAN : WorkerReturns(source)
  \/ WorkerHitsLimit
  \/ WorkerRaises
  \/ \E status \in {"pass", "fail"} : ReviewerEnds(status)
  \/ ReviewerRaises
  \/ OutOfBudget

Spec == Init /\ [][Next]_vars

----------------------------------------------------------------------------
(* Properties.                                                             *)

\* The graph runs the supervisor's own loop: every superstep does what a step of
\* Supervisor!run may do, and so keeps what holds of that.  Only research
\* requests differ: run has their research reviewed, the graph does not.
ImplementsRounds ==
  /\ Rounds!Init
  /\ [][kind = "research" \/ Rounds!Next]_(Rounds!vars)

FailedReviews == {i \in DOMAIN state.reviews : state.reviews[i].status = "fail"}

\* The superstep limit is no obstacle to ordinary work: it takes more failed
\* reviews than half of all the retries allowed to run into it.
RetriesExhaustBudget ==
  outcome = "budget" =>
    2 * Cardinality(FailedReviews) >= MaxRounds * MaxReviewRetries + 5
=============================================================================
