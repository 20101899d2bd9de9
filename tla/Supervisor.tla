------------------------------ MODULE Supervisor ------------------------------
(***************************************************************************)
(* The multi-agent loop of one task, Supervisor (app/agents/supervisor.py):*)
(* run, where the model delegates one task per round, run_planned, where a *)
(* plan is executed in order and independent research runs in parallel,    *)
(* and the review loop both use.  Plans are those TaskPlan and Planner     *)
(* accept (app/orchestration).                                             *)
(*                                                                         *)
(* The models, the workers and the reviewer answer as they like: a step    *)
(* takes one of their outcomes.  `state' is the AgentState, with answers   *)
(* reduced to what they rest on, tool calls to whether one found a source, *)
(* and ghost fields (nr, seen) that say what an entry is about.            *)
(* "coder" stands for coder and writer, "general" for the other roles.     *)
(***************************************************************************)
EXTENDS Naturals, Sequences, FiniteSets, SequencesExt

CONSTANTS
  Wording,          \* the text of each task, as words; two may have the same
  MaxRounds,        \* max_rounds
  MaxReviewRetries, \* max_review_retries
  MaxTasks          \* tasks of a plan (4 in TaskPlan)

ASSUME LimitsAssumption ==
  /\ MaxRounds \in Nat \ {0}
  /\ MaxReviewRetries \in Nat
  /\ MaxTasks \in Nat \ {0}
  /\ 1 .. MaxRounds \cup 1 .. MaxTasks \subseteq DOMAIN Wording

\* A text is words: startswith is true of its beginnings.
ASSUME WordingAssumption == \A i \in DOMAIN Wording : Wording[i] \in Seq(STRING)

VARIABLES
  mode,     \* "run" or "plan"
  kind,     \* whether the request is research only
  reviewer, \* whether the supervisor has a reviewer
  pc,       \* the await the coroutine is suspended at
  accepted, \* the plan, or the delegations so far
  at,       \* the position in accepted of the task worked on
  done,     \* completed_ids of run_planned (positions)
  attempt,  \* the review attempt
  result,   \* the answer of the WorkerResult under review
  state,    \* the AgentState
  batch,    \* a research batch: its positions and how far each worker is
  outcome   \* how the coroutine ended

setup == <<mode, kind, reviewer>>
vars == <<setup, pc, accepted, at, done, attempt, result, state, batch, outcome>>

----------------------------------------------------------------------------

Agents == {"coder", "researcher", "general"}
Texts == Range(Wording)
Kinds == {"research", "other"}

\* A plan of n tasks with these agents and dependencies.
Planned(n, agents, deps) ==
  [i \in 1 .. n |-> [agent |-> agents[i], text |-> Wording[i], deps |-> deps[i]]]

\* The plans that pass TaskPlan's validation: dependencies on earlier tasks.
PlansOf(n) ==
  {Planned(n, agents, deps) :
     agents \in [1 .. n -> Agents],
     deps \in {d \in [1 .. n -> SUBSET (1 .. n)] : \A i \in 1 .. n : d[i] \subseteq 1 .. i - 1}}

Plans == UNION {PlansOf(n) : n \in 1 .. MaxTasks}

\* Planner.plan, when there is a reviewer: tasks at the end that only check what a
\* coder or writer did are left out, by their wording (`checks').
Pruned(plan, checks) ==
  LET Spare(k) == /\ k \in checks
                  /\ plan[k].agent # "coder"
                  /\ \E j \in 1 .. k - 1 : plan[j].agent = "coder"
  IN  SubSeq(plan, 1, CHOOSE n \in DOMAIN plan :
                        /\ ~Spare(n)
                        /\ \A k \in n + 1 .. Len(plan) : Spare(k))

\* Roles whose work goes through the reviewer.
Gated(agent) ==
  /\ reviewer
  /\ agent = "coder" \/ (agent = "researcher" /\ kind = "research")

\* A researcher on a research-only request may abstain instead of failing.
MayAbstain(agent) == agent = "researcher" /\ kind = "research"

\* What the first delegation may be turned into, or made from when the prompt does
\* not fit: _decide's overrides and _context_fallback_agent.  Requests that are not
\* research only may ask for local files, for Python code or for neither, and are
\* not told apart otherwise.
ForcedAgents ==
  IF kind = "research" THEN {"researcher"} ELSE {"researcher", "coder", "none"}

\* The role a decision is sent to: only the first one can be overridden.
SentTo(agent, forced) ==
  IF state.outputs = <<>> /\ forced # "none" THEN forced ELSE agent

\* planned_id: a delegation of run has none.
PlannedId(i) == IF mode = "plan" THEN i ELSE 0

\* The fallback answer when a step stops early: did any source turn up?
Fallback(s) == IF s.sources THEN "unverified" ELSE "no_source"

\* _record_worker_result of delegation i, before its completion.
WithOutput(s, i, answer) ==
  [s EXCEPT !.outputs = Append(@, [agent |-> accepted[i].agent,
                                   id |-> PlannedId(i),
                                   answer |-> answer,
                                   nr |-> i])]

\* (Mutated) The task is completed where it stands and not taken off.
CompletedKept(s, i) ==
  [s EXCEPT !.completed = Append(@, accepted[i].text)]

Completed(s, i) ==
  [s EXCEPT !.completed = Append(@, accepted[i].text),
            !.pending = RemoveFirst(@, accepted[i].text)]

WithTools(s, source) == [s EXCEPT !.sources = @ \/ source]

\* (Mutated) The first output of the role is replaced.
WithAnswerFirst(s, i, answer) ==
  LET k == SelectInSeq(s.outputs, LAMBDA o : o.agent = accepted[i].agent)
  IN  [s EXCEPT !.outputs[k].answer = answer]

\* _apply_research_fallback: the last output of this role and planned task.
WithAnswer(s, i, answer) ==
  LET k == SelectLastInSeq(s.outputs, LAMBDA o : /\ o.agent = accepted[i].agent
                                                 /\ o.id = PlannedId(i))
  IN  [s EXCEPT !.outputs[k].answer = answer]

WithReview(s, i, n, status) ==
  [s EXCEPT !.reviews = Append(@, [nr |-> i, attempt |-> n, status |-> status,
                                   seen |-> result])]

\* AgentState.finish: what is pending counts as completed.
Finished(s, answer) ==
  [s EXCEPT !.final = answer, !.completed = @ \o s.pending, !.pending = <<>>]

\* (Mutated) fail clears what is pending as finish does.
FailedClearing(s) == [s EXCEPT !.final = "failure", !.pending = <<>>]

\* AgentState.fail: pending work is left.
Failed(s) == [s EXCEPT !.final = "failure"]

NewState == [steps |-> 0, pending |-> <<>>, completed |-> <<>>, outputs |-> <<>>,
             reviews |-> <<>>, sources |-> FALSE, final |-> "none"]

NoBatch == <<>>

----------------------------------------------------------------------------

Init ==
  /\ mode \in {"run", "plan"}
  /\ kind \in Kinds
  /\ reviewer \in BOOLEAN
  /\ pc = IF mode = "run" THEN "decide" ELSE "plan"
  /\ accepted = <<>>
  /\ at = 0
  /\ done = {}
  /\ attempt = 0
  /\ result = "none"
  /\ state = NewState
  /\ batch = NoBatch
  /\ outcome = "none"

\* The coroutine returns s, or raises and passes on: the whole state, the state
\* of one worker, or none.
Returns(s) ==
  /\ state' = s
  /\ pc' = "ended"
  /\ outcome' = "returned"

Raises(passing) ==
  /\ pc' = "ended"
  /\ outcome' = passing

\* The task worked on is complete in s: the next round, or the next of the plan.
Advances(s) ==
  /\ state' = s
  /\ outcome' = outcome
  /\ IF mode = "run"
     THEN /\ pc' = "decide"
          /\ UNCHANGED <<at, done>>
     ELSE /\ done' = done \cup {at}
          /\ at' = at + 1
          /\ pc' = IF at = Len(accepted) THEN "synthesize" ELSE "next"

----------------------------------------------------------------------------
(* run: rounds of decide and delegate.                                     *)

\* The next round begins.
Round == [state EXCEPT !.steps = @ + 1]

Delegate(agent) ==
  LET n == Len(accepted) + 1
  IN
  /\ accepted' = Append(accepted, [agent |-> agent, text |-> Wording[n], deps |-> {}])
  /\ at' = n
  /\ attempt' = 1
  /\ state' = [Round EXCEPT !.pending = Append(@, Wording[n])]
  /\ pc' = "work"
  /\ UNCHANGED <<setup, result, done, batch, outcome>>

\* A valid delegation: the first one may be sent to another role.
DecideDelegates(agent) ==
  /\ pc = "decide"
  /\ state.steps < MaxRounds
  /\ \E forced \in ForcedAgents : Delegate(SentTo(agent, forced))

\* A final answer is accepted once a worker has completed.
DecideFinal ==
  /\ pc = "decide"
  /\ state.steps < MaxRounds
  /\ state.outputs # <<>>
  /\ Returns(Finished(Round, "model"))
  /\ UNCHANGED <<setup, result, accepted, at, done, attempt, batch>>

\* The prompt does not fit, or every retry was invalid, after some work: the
\* workers' outputs are the answer.
DecideFallsBack ==
  /\ pc = "decide"
  /\ state.steps < MaxRounds
  /\ state.outputs # <<>> /\ state.pending = <<>>
  /\ Returns(Finished(Round, "outputs"))
  /\ UNCHANGED <<setup, result, accepted, at, done, attempt, batch>>

\* The prompt of the first round does not fit: the request itself is delegated.
DecideOverflowDelegates ==
  /\ pc = "decide"
  /\ state.outputs = <<>> /\ state.steps = 0
  /\ \E forced \in ForcedAgents \ {"none"} : Delegate(forced)

\* The prompt of the first round does not fit and no role is known for it.
DecideOverflowFails ==
  /\ pc = "decide"
  /\ state.outputs = <<>> /\ state.steps = 0
  /\ "none" \in ForcedAgents
  /\ Returns(Failed(Round))
  /\ UNCHANGED <<setup, result, accepted, at, done, attempt, batch>>

\* Invalid decisions before any work, any other error, or no round left.
DecideRaises ==
  /\ pc = "decide"
  /\ Raises("lost")
  /\ UNCHANGED <<setup, result, accepted, at, done, attempt, state, batch>>

----------------------------------------------------------------------------
(* run_planned.                                                            *)

\* What is made of the model's plan: a research-only request is one researcher
\* task, whatever the model planned.
PlansMade ==
  CASE kind = "research" ->
         {plan \in Plans : Len(plan) = 1 /\ plan[1].agent = "researcher"}
    [] kind # "research" /\ reviewer ->
         {Pruned(plan, checks) : plan \in Plans, checks \in SUBSET (1 .. MaxTasks)}
    [] OTHER -> Plans

\* A plan that needs more rounds than there are is refused.
PlannerReturns ==
  /\ pc = "plan"
  /\ \E plan \in PlansMade :
       /\ Len(plan) + 1 <= MaxRounds
       /\ accepted' = plan
       /\ state' = [state EXCEPT !.pending = [i \in 1 .. Len(plan) |-> plan[i].text]]
  /\ at' = 1
  /\ pc' = "next"
  /\ UNCHANGED <<setup, result, done, attempt, batch, outcome>>

\* No valid plan, or no room for the prompt: the request is run from scratch.
PlannerFallsBack ==
  /\ pc = "plan"
  /\ mode' = "run"
  /\ pc' = "decide"
  /\ UNCHANGED <<kind, reviewer, result, accepted, at,
                  done, attempt, state, batch, outcome>>

PlannerRaises ==
  /\ pc = "plan"
  /\ Raises("lost")
  /\ UNCHANGED <<setup, result, accepted, at, done, attempt, state, batch>>

\* (Mutated) A batch takes every researcher that follows.
BatchLengthIgnoringDeps ==
  LET Together(n) == \A i \in at .. at + n - 1 : accepted[i].agent = "researcher"
  IN  IF Gated("researcher") THEN 0
      ELSE CHOOSE n \in 0 .. Len(accepted) - at + 1 :
             /\ Together(n)
             /\ n < Len(accepted) - at + 1 => ~Together(n + 1)

\* How many tasks from `at' on are researchers that depend on completed tasks
\* only.
BatchLength ==
  LET Together(n) == \A i \in at .. at + n - 1 :
                       accepted[i].agent = "researcher" /\ accepted[i].deps \subseteq done
  IN  IF Gated("researcher") THEN 0
      ELSE CHOOSE n \in 0 .. Len(accepted) - at + 1 :
             /\ Together(n)
             /\ n < Len(accepted) - at + 1 => ~Together(n + 1)

\* The next task of the plan (its dependencies are completed, or the code raises).
NextTask ==
  /\ pc = "next"
  /\ BatchLength <= 1
  /\ attempt' = 1
  /\ state' = Round
  /\ pc' = "work"
  /\ UNCHANGED <<setup, result, accepted, at, done, batch, outcome>>

\* Two or more research tasks run in parallel.
NextBatch ==
  /\ pc = "next"
  /\ BatchLength > 1
  /\ batch' = [i \in 1 .. BatchLength |-> "waiting"]
  /\ pc' = "batch"
  /\ UNCHANGED <<setup, result, accepted, at, done, attempt, state, outcome>>

Running == {i \in DOMAIN batch : batch[i] = "running"}

\* (Mutated) The semaphore is not released.
BatchStartsOnce(i) ==
  /\ pc = "batch"
  /\ batch[i] = "waiting"
  /\ \A j \in 1 .. i - 1 : batch[j] # "waiting"
  /\ Cardinality({j \in DOMAIN batch : batch[j] # "waiting"}) < 2
  /\ batch' = [batch EXCEPT ![i] = "running"]
  /\ UNCHANGED <<setup, result, pc, accepted, at, done, attempt, state, outcome>>

\* The semaphore admits the first that waits, at most two at a time.
BatchStarts(i) ==
  /\ pc = "batch"
  /\ batch[i] = "waiting"
  /\ \A j \in 1 .. i - 1 : batch[j] # "waiting"
  /\ Cardinality(Running) < 2
  /\ batch' = [batch EXCEPT ![i] = "running"]
  /\ UNCHANGED <<setup, result, pc, accepted, at, done, attempt, state, outcome>>

\* (Mutated) A result is recorded when it arrives.
BatchEndsRecording(i, how) ==
  /\ pc = "batch"
  /\ batch[i] = "running"
  /\ batch' = [batch EXCEPT ![i] = how]
  /\ state' = IF how = "ok"
              THEN Completed(WithOutput(state, at + i - 1, "claims"), at + i - 1)
              ELSE state
  /\ UNCHANGED <<setup, result, pc, accepted, at, done, attempt, outcome>>

\* A worker ends: its result is kept by gather, state is left alone.
BatchEnds(i, how) ==
  /\ pc = "batch"
  /\ batch[i] = "running"
  /\ batch' = [batch EXCEPT ![i] = how]
  /\ UNCHANGED <<setup, result, pc, accepted, at, done, attempt, state, outcome>>

\* The state after the results of the first k workers of the batch are recorded.
Recorded[k \in 0 .. Len(batch)] ==
  IF k = 0 THEN state
  ELSE Completed(WithOutput(Recorded[k - 1], at + k - 1, "claims"), at + k - 1)

\* All have succeeded: the results are recorded in plan order.
BatchCommits ==
  LET n == Len(batch)
  IN  /\ pc = "batch"
      /\ \A i \in 1 .. n : batch[i] = "ok"
      /\ state' = [Recorded[n] EXCEPT !.steps = @ + n]
      /\ done' = done \cup at .. at + n - 1
      /\ at' = at + n
      /\ pc' = IF at + n > Len(accepted) THEN "synthesize" ELSE "next"
      /\ batch' = NoBatch
      /\ UNCHANGED <<setup, result, accepted, attempt, outcome>>

\* All have ended and some have failed: the error of the first in plan order is
\* raised as it is, with at most the state of that worker.
BatchRaises ==
  /\ pc = "batch"
  /\ \A i \in DOMAIN batch : batch[i] \notin {"waiting", "running"}
  /\ \E i \in DOMAIN batch :
       /\ batch[i] # "ok"
       /\ \A j \in 1 .. i - 1 : batch[j] = "ok"
       /\ Raises(IF batch[i] = "limit" THEN "worker" ELSE "lost")
  /\ UNCHANGED <<setup, result, accepted, at, done, attempt, state, batch>>

\* The plan is done and the supervisor answers.
SynthesizeReturns ==
  /\ pc = "synthesize"
  /\ Returns(Finished(Round, "model"))
  /\ UNCHANGED <<setup, result, accepted, at, done, attempt, batch>>

SynthesizeRaises ==
  /\ pc = "synthesize"
  /\ Raises("lost")
  /\ UNCHANGED <<setup, result, accepted, at, done, attempt, state, batch>>

----------------------------------------------------------------------------
(* One worker, and the review of what it did.                              *)

job == accepted[at]

\* (Mutated) Claims are reviewed whether or not a source turned up.
WorkerReturnsUnchecked(source) ==
  LET s == WithTools(state, source)
      answer == "claims"
  IN  /\ pc = "work"
      /\ source => kind = "research"
      /\ IF Gated(job.agent)
         THEN /\ state' = WithOutput(s, at, answer)
              /\ pc' = "review"
              /\ UNCHANGED <<at, done, outcome>>
         ELSE Advances(Completed(WithOutput(s, at, answer), at))
      /\ result' = answer
      /\ UNCHANGED <<setup, accepted, attempt, batch>>

\* The worker returns.  Unreviewed work is complete; reviewed research without
\* any source has its claims replaced before the review.
WorkerReturns(source) ==
  LET s == WithTools(state, source)
      answer == IF Gated(job.agent) /\ MayAbstain(job.agent) /\ ~s.sources
                THEN "no_source" ELSE "claims"
  IN  /\ pc = "work"
      /\ source => kind = "research"
      /\ IF Gated(job.agent)
         THEN /\ state' = WithOutput(s, at, answer)
              /\ pc' = "review"
              /\ UNCHANGED <<at, done, outcome>>
         ELSE Advances(Completed(WithOutput(s, at, answer), at))
      /\ result' = answer
      /\ UNCHANGED <<setup, accepted, attempt, batch>>

\* The worker's prompt does not fit in research: an abstention stands for its
\* result.  run_planned handles this only under review.
WorkerAbstains ==
  /\ pc = "work"
  /\ MayAbstain(job.agent)
  /\ IF Gated(job.agent)
     THEN /\ state' = WithOutput(state, at, Fallback(state))
          /\ pc' = "review"
          /\ UNCHANGED <<at, done, outcome>>
     ELSE /\ mode = "run"
          /\ Advances(Completed(WithOutput(state, at, Fallback(state)), at))
  /\ result' = Fallback(state)
  /\ UNCHANGED <<setup, accepted, attempt, batch>>

\* Otherwise run reports the failure of unreviewed work itself.
WorkerOverflowFails ==
  /\ pc = "work"
  /\ mode = "run"
  /\ ~Gated(job.agent) /\ ~MayAbstain(job.agent)
  /\ Returns(Failed(state))
  /\ UNCHANGED <<setup, result, accepted, at, done, attempt, batch>>

\* The worker reached a limit or repeated a failing tool: its tool calls join
\* the others and the error passes the state on.
WorkerHitsLimit ==
  /\ pc = "work"
  /\ Raises("state")
  /\ UNCHANGED <<setup, result, accepted, at, done, attempt, state, batch>>

WorkerRaises ==
  /\ pc = "work"
  /\ Raises("lost")
  /\ UNCHANGED <<setup, result, accepted, at, done, attempt, state, batch>>

\* What the worker of task i is asked: a retry has the reviewer's feedback at its end.
Assignment(i) ==
  accepted[i].text \o IF pc = "work" /\ attempt > 1 THEN <<"feedback">> ELSE <<>>

\* (Mutated) The first of the plan whose text begins with the task's.
OutputsForExtension(i) ==
  LET planned == SelectInSeq(accepted, LAMBDA t : IsPrefix(accepted[i].text, t.text))
  IN  {k \in DOMAIN state.outputs : state.outputs[k].id \in accepted[planned].deps}

\* The outputs of what a planned task depends on, by their position.  The task is taken
\* to be the first of the plan whose text begins the assignment.
OutputsFor(i) ==
  LET planned == SelectInSeq(accepted, LAMBDA t : IsPrefix(t.text, Assignment(i)))
  IN  {k \in DOMAIN state.outputs : state.outputs[k].id \in accepted[planned].deps}

\* worker_assignment: a planned task is given the last three of them.
Inputs(i) ==
  {k \in OutputsFor(i) : Cardinality({l \in OutputsFor(i) : l > k}) < 3}

\* (Mutated) The retry counter is tested one attempt late.
ReviewEndsLate(status) ==
  LET s == WithReview(state, at, attempt, status)
  IN  /\ pc \in {"review", "rereview"}
      /\ \/ /\ status = "pass"
            /\ Advances(Completed(s, at))
            /\ attempt' = attempt
            /\ result' = result
         \/ /\ status = "fail"
            /\ attempt <= MaxReviewRetries + 1
            /\ state' = s
            /\ attempt' = attempt + 1
            /\ pc' = "work"
            /\ UNCHANGED <<at, done, result, outcome>>
         \/ /\ status = "fail"
            /\ attempt = MaxReviewRetries + 2
            /\ attempt' = attempt
            /\ UNCHANGED <<at, done>>
            /\ IF MayAbstain(job.agent)
               THEN /\ state' = WithAnswer(s, at, "unverified")
                    /\ result' = "unverified"
                    /\ pc' = "abstain"
                    /\ UNCHANGED outcome
               ELSE Returns(Failed(s)) /\ result' = result
      /\ UNCHANGED <<setup, accepted, batch>>

\* The verdict: on to the next task, another attempt with the feedback, or,
\* after the last one, an abstention that is reviewed in turn, or a failure.
ReviewEnds(status) ==
  LET s == WithReview(state, at, attempt, status)
  IN  /\ pc \in {"review", "rereview"}
      /\ \/ /\ status = "pass"
            /\ Advances(Completed(s, at))
            /\ attempt' = attempt
            /\ result' = result
         \/ /\ status = "fail"
            /\ attempt <= MaxReviewRetries
            /\ state' = s
            /\ attempt' = attempt + 1
            /\ pc' = "work"
            /\ UNCHANGED <<at, done, result, outcome>>
         \/ /\ status = "fail"
            /\ attempt = MaxReviewRetries + 1
            /\ attempt' = attempt
            /\ UNCHANGED <<at, done>>
            /\ IF MayAbstain(job.agent)
               THEN /\ state' = WithAnswer(s, at, "unverified")
                    /\ result' = "unverified"
                    /\ pc' = "abstain"
                    /\ UNCHANGED outcome
               ELSE Returns(Failed(s)) /\ result' = result
      /\ UNCHANGED <<setup, accepted, batch>>

\* The reviewer's prompt does not fit: research abstains and is reviewed again.
ReviewOverflows ==
  /\ pc = "review"
  /\ MayAbstain(job.agent)
  /\ state' = WithAnswer(state, at, "unverified")
  /\ result' = "unverified"
  /\ pc' = "rereview"
  /\ UNCHANGED <<setup, accepted, at, done, attempt, batch, outcome>>

\* The verdict on the abstention that follows the last attempt.
AbstentionReviewed(status) ==
  LET s == WithReview(state, at, MaxReviewRetries + 2, status)
  IN  /\ pc = "abstain"
      /\ IF status = "pass" THEN Advances(Completed(s, at))
         ELSE /\ Returns(Failed(s))
              /\ UNCHANGED <<at, done>>
      /\ UNCHANGED <<setup, result, accepted, attempt, batch>>

ReviewRaises ==
  /\ pc \in {"review", "rereview", "abstain"}
  /\ Raises("lost")
  /\ UNCHANGED <<setup, result, accepted, at, done, attempt, state, batch>>

----------------------------------------------------------------------------

Run == \/ \E agent \in Agents : DecideDelegates(agent)
       \/ DecideFinal
       \/ DecideFallsBack
       \/ DecideOverflowDelegates
       \/ DecideOverflowFails
       \/ DecideRaises

RunPlanned == \/ PlannerReturns
              \/ PlannerFallsBack
              \/ PlannerRaises
              \/ NextTask
              \/ NextBatch
              \/ SynthesizeReturns
              \/ SynthesizeRaises

Batch == \/ \E i \in DOMAIN batch : BatchStarts(i)
         \/ \E i \in DOMAIN batch, how \in {"ok", "limit", "error"} : BatchEnds(i, how)
         \/ BatchCommits
         \/ BatchRaises

Work == \/ \E source \in BOOLEAN : WorkerReturns(source)
        \/ WorkerAbstains
        \/ WorkerOverflowFails
        \/ WorkerHitsLimit
        \/ WorkerRaises

Review == \/ \E status \in {"pass", "fail"} : ReviewEnds(status)
          \/ ReviewOverflows
          \/ \E status \in {"pass", "fail"} : AbstentionReviewed(status)
          \/ ReviewRaises

Next == Run \/ RunPlanned \/ Batch \/ Work \/ Review

\* Every call of a model, worker or reviewer ends: they time out.
Spec == Init /\ [][Next]_vars /\ WF_vars(Next)

----------------------------------------------------------------------------
(* Properties.                                                             *)

\* The texts of the tasks, in order.
AcceptedTexts == [i \in DOMAIN accepted |-> accepted[i].text]

\* Nothing delegated is lost, done twice or reordered: what is completed and what
\* is pending are together the accepted tasks, through retries whose assignment
\* has another text, abstentions, parallel research, and tasks with equal texts.
NothingLost == state.completed \o state.pending = AcceptedTexts

\* The entries about task i in a list of outputs or reviews, and the last of them.
About(list, i) == {k \in DOMAIN list : list[k].nr = i}
LastAbout(list, i) == SelectLastInSeq(list, LAMBDA e : e.nr = i)

\* Reviewed work counts as completed only if its last review passed, and what
\* that review saw is the answer that stands in the outputs, which a fallback
\* may have replaced meanwhile.
ReviewedBeforeCompleted ==
  \A i \in 1 .. Len(state.completed) :
    Gated(accepted[i].agent) =>
      LET k == LastAbout(state.outputs, i)
          r == LastAbout(state.reviews, i)
      IN  /\ k # 0 /\ r # 0
          /\ state.reviews[r].status = "pass"
          /\ state.reviews[r].seen = state.outputs[k].answer

\* Reviewed research states claims only if a source turned up, whatever was
\* retried or replaced on the way.
ClaimsHaveSources ==
  \A i \in 1 .. Len(state.completed) :
    Gated(accepted[i].agent) /\ MayAbstain(accepted[i].agent) /\ ~state.sources =>
      \A o \in Range(state.outputs) : o.nr = i => o.answer # "claims"

\* What TaskManager derives from the result is right: no pending work means all
\* of it was done and answered; pending work with a failed review last is a task
\* whose review failed.  (But for a prompt too long for the first decision: nothing is
\* pending yet, and TaskManager takes that failure for success.)
HonestResult ==
  outcome = "returned" =>
    /\ state.final # "none"
    /\ state.final # "failure" =>
         state.pending = <<>> /\ \A i \in DOMAIN accepted :
           \E o \in Range(state.outputs) : o.nr = i
    /\ state.final = "failure" /\ accepted # <<>> =>
         /\ state.pending # <<>>
         /\ Gated(accepted[at].agent)
              <=> state.reviews # <<>> /\ Last(state.reviews).status = "fail"

\* A task of a plan is worked on, alone or in a batch, only once everything it
\* depends on is completed; the branch that raises for it is never reached.
DependenciesFirst ==
  mode = "plan" =>
    /\ pc \in {"next", "work", "review", "rereview", "abstain"} =>
         accepted[at].deps \subseteq done
    /\ \A i \in DOMAIN batch : accepted[at + i - 1].deps \subseteq done
    /\ Len(state.completed) = Cardinality(done)

\* The tasks of a plan that are worked on.
AtWork == CASE pc = "work" -> {at}
            [] pc = "batch" -> at .. at + Len(batch) - 1
            [] OTHER -> {}

\* Task i may be taken for an earlier one of the plan, which depends on other tasks: the
\* text of that one begins what the worker is asked.
Mistaken(i) ==
  \E j \in 1 .. i - 1 : /\ IsPrefix(accepted[j].text, Assignment(i))
                         /\ accepted[j].deps # accepted[i].deps

\* README: dependent tasks get the outputs of earlier workers; test_context.py: and only
\* those.  A planned task that is not mistaken for another gets nothing but outputs of
\* what it depends on, and the latest of each, unless three later outputs of its
\* dependencies (of their retries, too) take the places.
InputsGiven ==
  mode = "plan" => \A i \in AtWork :
    ~Mistaken(i) =>
      /\ \A k \in Inputs(i) : state.outputs[k].nr \in accepted[i].deps
      /\ \A d \in accepted[i].deps :
           LET latest == LastAbout(state.outputs, d)
           IN  \/ latest \in Inputs(i)
               \/ Cardinality({k \in latest + 1 .. Len(state.outputs) :
                                 state.outputs[k].nr \in accepted[i].deps}) >= 3

\* README: at most two researchers at a time; their results are in plan order
\* whatever order they end in.
ResearchInOrder ==
  /\ Cardinality(Running) <= 2
  /\ \A i, j \in DOMAIN state.outputs : i < j => state.outputs[i].nr <= state.outputs[j].nr

\* The rounds and the review attempts stay within their limits: a plan that was
\* accepted never runs out of rounds, and a task is tried MaxReviewRetries more
\* times at most, with one review each and one for an abstention.
WithinLimits ==
  /\ state.steps <= MaxRounds
  /\ \A i \in DOMAIN accepted :
       /\ Cardinality(About(state.outputs, i)) <= MaxReviewRetries + 1
       /\ Cardinality(About(state.reviews, i)) <= MaxReviewRetries + 2

\* The task ends, whatever its workers and reviewers answer.
Ends == <>(pc = "ended")

----------------------------------------------------------------------------
(* What the properties rest on: the inductive invariant.                   *)

Answers == {"claims", "unverified", "no_source"}
Statuses == {"pass", "fail"}

Tasks == [agent : Agents, text : Texts, deps : SUBSET Nat]
Outputs == [agent : Agents, id : Nat, answer : Answers, nr : Nat]
Reviews == [nr : Nat, attempt : Nat, status : Statuses, seen : Answers]
States == [steps : Nat, pending : Seq(Texts), completed : Seq(Texts),
           outputs : Seq(Outputs), reviews : Seq(Reviews), sources : BOOLEAN,
           final : {"none", "model", "outputs", "failure"}]

\* Where one task is worked on, and where its answer is under review.
Reviewing == {"review", "rereview", "abstain"}
Busy == {"work"} \cup Reviewing

TypeOK ==
  /\ mode \in {"run", "plan"} /\ kind \in Kinds /\ reviewer \in BOOLEAN
  /\ pc \in {"decide", "plan", "next", "batch", "synthesize", "ended"} \cup Busy
  /\ accepted \in Seq(Tasks)
  /\ at \in Nat /\ done \in SUBSET Nat /\ attempt \in Nat
  /\ result \in Answers \cup {"none"}
  /\ state \in States
  /\ batch \in Seq({"waiting", "running", "ok", "limit", "error"})
  /\ outcome \in {"none", "returned", "state", "worker", "lost"}

\* The tasks that are done, and the one whose turn it is.
Count(s) == Len(s.completed)
Turn(s) == Count(s) + 1

\* The last review of task i passed, and saw the answer that stands.
Vouched(s, i) ==
  LET k == LastAbout(s.outputs, i)
      r == LastAbout(s.reviews, i)
  IN  /\ k # 0 /\ r # 0
      /\ s.reviews[r].status = "pass"
      /\ s.reviews[r].seen = s.outputs[k].answer

\* At most n outputs and m reviews are about task i.
Tried(s, i, n, m) ==
  /\ Cardinality(About(s.outputs, i)) <= n
  /\ Cardinality(About(s.reviews, i)) <= m

\* s lists what is done and, after that, what is to do: NothingLost, text by text.
Listed(s) ==
  /\ Count(s) + Len(s.pending) = Len(accepted)
  /\ \A k \in 1 .. Count(s) : s.completed[k] = accepted[k].text
  /\ \A k \in 1 .. Len(s.pending) : s.pending[k] = accepted[Count(s) + k].text

\* The books of a task are in order: nothing is lost, nothing is about a task beyond `top',
\* and what is done was done as it must be.
OutputsInOrder(s, top) ==
  \A k \in DOMAIN s.outputs :
    LET o == s.outputs[k]
    IN  /\ o.nr \in 1 .. top
        /\ o.agent = accepted[o.nr].agent
        /\ o.id = PlannedId(o.nr)
        /\ \A j \in 1 .. k : s.outputs[j].nr <= o.nr
        /\ Gated(o.agent) /\ MayAbstain(o.agent) /\ o.answer = "claims" => s.sources

DoneInOrder(s) ==
  \A i \in 1 .. Count(s) :
    /\ About(s.outputs, i) # {}
    /\ Gated(accepted[i].agent) => Vouched(s, i)
    /\ Tried(s, i, MaxReviewRetries + 1, MaxReviewRetries + 2)

Books(s, top) ==
  /\ s \in States
  /\ Listed(s)
  /\ OutputsInOrder(s, top)
  /\ \A k \in DOMAIN s.reviews : s.reviews[k].nr \in 1 .. top
  /\ DoneInOrder(s)

\* No review has failed since the last that passed.
NoFailure(s) == s.reviews = <<>> \/ Last(s.reviews).status = "pass"

\* Between tasks.
BetweenTasks ==
  pc \in {"decide", "plan", "next", "batch", "synthesize"} =>
    /\ Books(state, Count(state))
    /\ state.steps = Count(state)
    /\ NoFailure(state)

\* At a task: how often it was tried, and what there is of it.
AtTask ==
  pc \in Busy =>
    /\ Books(state, at)
    /\ state.steps = at
    /\ attempt \in 1 .. MaxReviewRetries + 1
    /\ pc = "work" =>
         /\ Tried(state, at, attempt - 1, attempt - 1)
         /\ NoFailure(state) \/ Gated(job.agent)
    /\ pc \in Reviewing =>
         /\ Gated(job.agent)
         /\ result \in Answers
         /\ state.outputs # <<>>
         /\ Last(state.outputs).nr = at /\ Last(state.outputs).answer = result
    /\ pc \in {"review", "rereview"} => Tried(state, at, attempt, attempt - 1)
    /\ pc = "abstain" =>
         /\ Tried(state, at, MaxReviewRetries + 1, MaxReviewRetries + 1)
         /\ MayAbstain(job.agent)
         /\ result # "claims"

\* At the end.
AtEnd ==
  pc = "ended" =>
    /\ Books(state, Len(accepted))
    /\ state.steps <= MaxRounds
    /\ \A i \in DOMAIN accepted : Tried(state, i, MaxReviewRetries + 1, MaxReviewRetries + 2)

\* Where the coroutine is goes with how far it is.
Position ==
  /\ pc \in {"plan", "next", "batch", "synthesize"} => mode = "plan"
  /\ pc = "decide" => mode = "run"
  /\ pc = "plan" => accepted = <<>>
  /\ pc \in {"decide", "plan", "synthesize"} => Count(state) = Len(accepted)
  /\ pc \in {"next", "batch"} \cup Busy => at = Turn(state) /\ at <= Len(accepted)
  /\ pc \in Busy /\ mode = "run" => at = Len(accepted)
  /\ pc # "ended" => outcome = "none"
  /\ Len(accepted) <= MaxRounds

\* A plan leaves a round for the answer, and its tasks depend on earlier ones; the tasks
\* that are done are the first of it.
PlanInOrder ==
  mode = "plan" =>
    /\ accepted # <<>> => Len(accepted) < MaxRounds
    /\ \A i \in DOMAIN accepted : accepted[i].deps \subseteq 1 .. i - 1
    /\ done = 1 .. Count(state)

\* A batch is of researchers whose work is not reviewed and waits for nothing.
BatchInOrder ==
  /\ pc \notin {"batch", "ended"} => batch = NoBatch
  /\ Cardinality(Running) <= 2
  /\ batch # NoBatch =>
       /\ mode = "plan"
       /\ ~Gated("researcher")
       /\ at = Turn(state) /\ at + Len(batch) - 1 <= Len(accepted)
       /\ \A i \in DOMAIN batch : /\ accepted[at + i - 1].agent = "researcher"
                                  /\ accepted[at + i - 1].deps \subseteq done

SupervisorInv ==
  /\ TypeOK /\ Position /\ PlanInOrder /\ BatchInOrder
  /\ BetweenTasks /\ AtTask /\ AtEnd /\ HonestResult
=============================================================================
