# A TLA+ verification of Supervisor-LLM

Supervisor-LLM is a local multi-agent assistant: an HTTP service with one task
queue, a supervisor that delegates to worker agents and reviews what they do, a
client of one model loaded in the process, and a few tools, of which writing a
file needs a person's approval. This directory holds TLA+ models of the parts
that carry its logic, the TLC runs that check them on small instances, and
theorems about them checked by TLAPS.

    tlc -config MCTaskService.cfg MCTaskService.tla     (and so on, see "Runs")
    tlapm ServiceProofs.tla                             (and so on, see "Proofs")

`PROJECT.json` maps each definition to the lines it models (`map`), and lists
the runs, the mutants that show each property can fail, the hazards of the code
with the properties aimed at them, the findings and the theorems.

## Inventory

| Component | State | Operations | Talks to |
|---|---|---|---|
| Task service `service/tasks.py`, `api.py` | records, queue, consumer coroutine, approval future | submit, decide, delete, consume, close | store (threads), runner (await), pages (polling) |
| Conversation store `service/conversations.py` | `conversation_messages` in SQLite | append and trim, list, delete | called in threads by the service |
| Model client `llm/client.py` | model, lock, pending tasks, closing | chat, load, generate, `__aexit__` | called by every agent |
| Supervisor `agents/supervisor.py`, `orchestration/state.py` | AgentState, plan, completed ids | run, run_planned, delegate, batch, review | workers, reviewer, planner, model |
| Planner `orchestration/planner.py` | none | plan, validate, prune | supervisor |
| Graph `orchestration/graph.py` | AgentState, review attempt, route | supervisor, worker and reviewer nodes | same workers, LangGraph |
| Single agent `agents/single.py` | steps, tool results, error counts | decide, execute a tool, finish | registry, model |
| Approved writes `tools/registry.py`, `tools/filesystem.py`, `security/approvals.py` | the workspace, the open request | preflight, ask, write | task service (approval future) |
| Reviewer `agents/reviewer.py`, `orchestration/evidence.py` | none of its own: the evidence is the supervisor's | read again, recompute, test again, verdict | registry, model, supervisor |
| Router, automatic mode, chat `orchestration/router.py`, `auto_mode.py`, `agents/chat.py` | none | choose a path, fall back, answer | all orchestrators |
| Context budget `orchestration/context.py`, `memory/context.py` | none | choose the messages that fit, hand on results | agents, supervisor, chat |
| Tracing `observability/events.py` | agent stack, events | record, span, limit | everything |
| Event stream and page `api.py`, `ui/app.js` | the page's task, stream, button and conversation | submit, follow, decide, load, reload | task service |
| Memory store `memory/store.py` | one SQLite table | single statements | tools, command line |

What is hard, component by component, and what makes it correct:

- **Task service.** The consumer is suspended at five kinds of await, the HTTP
  handlers run in between, store operations commit in threads that nobody can
  cancel, and the process can be closed or die at each of these points. Correct
  means: tasks run one at a time in order of submission, a task sees the stored
  results of its predecessors, a final status stays, a decision applies to the
  request it answers, nothing waits for ever, and the database is exactly the
  recent history.
- **Model client.** A caller may leave (time-out, cancellation) while its
  generation goes on in a thread that cannot be stopped. Correct means: never
  two threads in the model, the model present for every call that still wants
  it, loaded once, and given up in the end.
- **Supervisor.** Three ways through one state (rounds, plans, batches), with
  retries, abstentions and fallbacks that rewrite it. Correct means: no task
  lost, reported work was reviewed, claims have sources, dependencies first,
  limits kept, and failures reported with what was done.
- **Graph.** A second implementation of the rounds, with a budget of supersteps
  derived from the limits.
- **Single agent.** Limits on steps, tool calls and repeated errors that
  interact with calls the agent makes on its own.
- **Approved writes.** The target is checked before a wait of up to 300 seconds
  and used after it; a decision names a task, not a request.
- **Reviewer.** It looks at files one await after the other, while the owner may edit
  them, and its evidence is a list that earlier tasks, earlier attempts and its own
  earlier reviews have joined. Correct means: what it passes is there, parses,
  states the figures of the data, and passes its tests.
- **Stream and page.** The page hears of a task over a stream, of its decision over an
  answer, and of the conversation over a third request, each late and in any order, while
  records are evicted and servers restart. Correct means: a conversation that is shown
  after a task has what was stored before it, and a submit button that is disabled is
  waiting for something that comes.
- **Paths.** Patterns, a routing model, guards and a fallback decide together. Correct
  means: whatever the model does, a request takes a path that can serve it.
- **Prompts.** What is shown of a growing conversation is chosen anew for each prompt.
  Correct means: it fits, it has the request and the latest message, and what was left
  out once does not come back.

`PROJECT.json` lists these under `hazards`, line by line.

## Plan

1. `TaskService` with `TaskLifecycle` as its specification, and its proofs.
2. `LlamaClient` and its proofs.
3. `Supervisor` (rounds, plans, batches, review).
4. `GraphOrchestrator` (the second implementation of the rounds, with its
   superstep budget) and `ApprovedWrite` (registry, pre-flight, approval, thread)
   with its proofs.
5. `SingleAgent` and its proofs: the limits on steps, tool calls and repeated
   errors, the calls the agent makes on its own, and the evidence it needs before
   it may answer.
6. `Reviewer`: what a passed review vouches for.
7. `Page` on top of `TaskService`: the browser page, its event stream and restarts.
8. What a worker is given and what is pruned from a plan, in `Supervisor`, where they act.
9. `Turn`: which path a request takes. `Prompt`: what is shown of a conversation. Their
   proofs.

Theorems: an inductive invariant of each of `TaskService` (the consumer, admission, order
and history), `Page`, `LlamaClient`, `Supervisor`, `GraphOrchestrator`, `ApprovedWrite`,
`SingleAgent`, `Reviewer`, `Turn` and `Prompt`, and from it every invariant and every action
property that a run checks; that the steps of `TaskService` are steps or stutters of
`TaskLifecycle`, and those of `GraphOrchestrator` of `Supervisor`, whose properties the graph
so inherits; and that the runs of an agent and of a task are bounded. All of these are done.

The modules are written to be proved about: sizes are constants with named assumptions,
every operation is an action, invariants are conjunctions of named parts, and nothing is
RECURSIVE.

## Modules

### TaskService, TaskLifecycle

One event loop runs the HTTP handlers and the consumer, so a step is the code
between two awaits. `pc` is the await the consumer is suspended at: `get` (the
queue), `list` (reading the history), `run` (the runner), `approval` (the
future, inside the runner), `store` and `fail` (the two appends); `cur` is the
record it holds. `records`, `queue`, `status`, `error`, `answer` and `future`
are the attributes of `TaskManager` and `TaskRecord`.

- `Submit`, `Decide`, `RequestDelete` are the handlers; `Kept` is the eviction
  of `submit`, and its emptiness the refusal. Refused calls change nothing and
  are no steps. `conv` is chosen in `Init` rather than in `Submit`: the choice is
  the same and the runs are smaller.
- `Take`, `HistoryListed`, `HistoryListFails`, `RunnerCompletes`, `RunnerFails`,
  `RequestApproval`, `ApprovalReturns` are the turns of `_consume` and of
  `BrowserApprover`. The runner is abstracted to what it can end with: a state
  with or without an answer, pending work, or an error.
- A store operation runs in a thread: `writing` and `deleting` hold those that
  have not committed. `StoreCommits` is the transaction of `append` (insert and
  trim) and the consumer's return; `StoreFailsOnce` and `StoreFailsTwice` are the
  except branches; `OrphanFails` and the commit of a task that is not `cur` are
  what happens to a thread whose consumer was cancelled.
- `Those(s, S)` is what a sequence has of a set, in its order: the queue as a part of the
  records, an exchange as a part of what was submitted. `order` and `stored` are history
  variables; `Begun` counts the submitted tasks that have left the queue.
- `Start`, `Close` and `Exit` are the lifespan; `Crash` is the end of the process
  at any point, which loses memory and uncommitted transactions.

`TaskLifecycle` is what the README promises a client: a bounded line, one active
task, first in first out, every accepted task ending. The service maps onto it
by `LifeOf` (a task that waits for approval is being worked on; what is not over
when the server closes is lost).

### LlamaClient

Each call has a caller (`chat`), a shielded task (`_chat_serial`) and a thread
(`asyncio.to_thread`), which can end in that order. `line` is the `asyncio.Lock`:
its holder, then those who wait. `Begin` is taking the lock, with the load or the
generation it leads to; `LoadEnds`, `Enter` and `Ends` are the thread;
`TimesOut` and `Cancelled` concern the caller alone; `OnDone` is the callback of
the task. `Close` is `__aexit__`; `LoopEnds` is `asyncio.run` cancelling the tasks
that are left, and `OrphanEnds` the threads that outlive them.

### Supervisor

`pc` is the await the coroutine is suspended at; a step is one answer of a model,
a worker or the reviewer and everything the code does with it. `run` starts at
`decide`, `run_planned` at `plan`; both share `work`, `review`, `rereview` (after an
overflow of the reviewer's prompt) and `abstain` (the review of the abstention
that follows the last attempt). `state` is the AgentState: texts are abstract,
answers are reduced to what they rest on (`claims`, `unverified`, `no_source`), tool
calls are one count per worker run. `accepted` is the plan or the delegations so
far; `nr` and `seen` are ghost fields that say which of them an entry is about and
what the reviewer saw.

- The retry loops of `_decide` and of the planner are abstracted to what comes out
  of them: a valid decision, a fallback, or an error. The words of a request that
  force a role are abstracted to `kind`.
- A research batch is a sequence of workers behind a semaphore of two.
  `BatchCommits` records all results in plan order; `BatchRaises` is the error
  that `gather` returned for the first failed one.
- `Advances` is what both callers do after a task completed: the next round, or
  the next task of the plan.
- A source only matters for requests that are research only.
- The branch of `run_planned` that raises for a missing dependency has no action:
  `DependenciesFirst` shows it is never reached.
- `OutputsFor` and `Inputs` are `_relevant_outputs` of `worker_assignment`: the positions of
  the outputs that a worker is shown. The code looks for the planned task with `startswith`, and
  takes the first whose text begins what the worker is asked (`Assignment`: the task's text, and
  on a retry the reviewer's feedback after it). So a text is a sequence of words here, and
  `IsPrefix` is `startswith`.
  `Pruned` is what the planner leaves out of a plan, `PlansMade` the plans that result;
  `ForcedAgents` and `SentTo` are the overrides of a first delegation.
- `Recorded` is the loop that records a batch, one result after the other. `Planned` is a
  plan of given agents and dependencies.

### GraphOrchestrator

A step is one superstep of the graph: `node` is the node that runs next, `supersteps`
how many have run. The nodes call the supervisor's own `_decide`, `_run_worker` and
`AgentState`, so the module takes their effects from an instance of `Supervisor` and
adds what is its own: which agents the edges send to the reviewer, the attempt
counter, the routes, and the limit. LangGraph is external: a superstep runs one node,
and a node that is due when the limit is used up ends the run with
GraphRecursionError (`OutOfBudget`).

### ApprovedWrite

One agent makes its calls one after the other on one path. `pc` is the await the
call is suspended at: `approval` (the future), `open` and `write` (the thread of
`_write`, before and after it opened the file). `file` is the target: absent, a
directory or a text, with whose text it is and whether it is whole.

- `PreflightFails` and `Asks` are `ToolRegistry.execute` up to the request;
  `ApprovalDenied` is a refusal or a time-out; `ApprovalGranted` is the return of
  `True` with the second check that `execute` makes.
- `Opens`, `OpenFails`, `Writes` and `WriteFails` are the thread. Mode `x` or `w` is
  the `overwrite` argument. What the thread does after `Close` happens too, but
  nobody is told its result (`serving`).
- `OwnerChanges` is anything else with access to the workspace (external).
- `Render`, `Click`, `Decide` and `Refused` are the page, the approval endpoint and
  its two answers. `shown` and `enabled` are what a page displays, which may be
  older than the service's state by any number of steps.
- `results`, `opened`, `granted` and `clicked` are history variables.

A write error leaves the file truncated: that is what the code does, and
`ReportsHold` says that it is reported.

### SingleAgent

`pc` is the await of `SingleAgent.run`: `decide` (the model), `execute` (the registry, for
a call of the model), `again` and `web` (the registry, for the two calls the agent makes
on its own). `calls` is `tool_results`, with a mark on those calls; `errors`, `repeats` and
`untitled` are the local counters of the method.

- `OutputInvalid` and `OutputStaysInvalid` are the retry loop of
  `StructuredDecisionClient`; `ModelFails` is any other error of the model or a prompt
  that does not fit.
- `FinalAnswer` and `AnswerRefused` split on `Evidence`, the three rules that send an
  answer back. `OutOfCalls`, `NoTitle`, `SearchRepeated` and `UseTool` are the branches of
  a tool decision, in the order of the code.
- `ToolReturns`, `ErrorRepeated`, `SearchedInVain` and `LookupFailed` are what follows a
  result; `GoesOn` is the end of the loop's body, or of the loop.
- What regular expressions find in a request is `ask`, chosen in `Init`. A tool that is
  not allowed is `unlisted`: the registry refuses all of them alike.
- A worker's roles differ in their tools; only `researcher` and `coder` have rules of
  their own. The branch for a lookup with invalid arguments by another role cannot be
  reached, as no other role may use that tool.
- `AnswersRest` asks a coder for a test that succeeded at any time: the code does not
  require it to come after the change.

### Reviewer

One task and its attempts: `pc` is `before` (earlier tasks), `work` (the worker), or the
await the review is suspended at: `read`, `recompute`, `retest` (three calls of the
registry) and `model`. `tools` is the supervisor's `tool_results`, of which `own` calls
are older than the attempt; `read` and `checks` are `full_contents` and `read_calls`.

- `WorkerAnswers` is the review up to its first await, `ReadAgain` one turn of the loop
  over the files, `Recompute` the figures of a report, `Retest` the tests, `ModelDecides`
  and `ModelRaises` the model's verdict. `Fails` and `Passes` are the verdict with what
  the supervisor makes of it; what a researcher is offered after the last attempt is in
  `Supervisor`.
- `Does` is a call of a worker that succeeded. A failed call is never evidence, so there
  is none in the model.
- A file is what a look finds in it. Code is broken, wrong or right; a table has figures or
  is broken, and a report states some figures.
- `Edits` is the owner of the workspace (external), at any time.
- `Latest` is `dict.fromkeys(reversed(...))` over the evidence, of which `Paths` are the
  first that are read.
- `edited` and `shown` are history variables: the files edited since the review began, and
  the evidence that a review which passed began with. Its own reads join the evidence
  afterwards, the latest file first.

### Page

`Page` extends `TaskService` with one browser page and the other users of the service. `post`,
`decided` and `loads` are the requests whose answers are on their way. A POST is handled when
it is sent, by a service that the page may be out of date about; its answer comes later, and
answers overtake each other and the updates of the stream.

- `SendTask`, `TaskRefused`, `TaskAnswered` and `TaskNotAnswered` are the handler of the form
  with the ways its `fetch` can end. `SendDecision` and `DecisionAnswered` are `sendApproval`.
- `Update` is an event of `stream_task` and what `render` does with it (`Render`, `RenderEnd`);
  `StreamRefused` is the 404 for a record that is gone, after which a browser does not
  reconnect. `Loads` is `loadConversation`; `Reload` opens the page anew.
- `Service` are the steps of `TaskService` that are not the page's. The page does not delete
  its conversation here.

### Turn

A step is an answer of a routing model and what the code does with it. `says` is the set of
patterns that match the request, `pc` where the turn is: at the mode model (`select`), the
router's model (`route`), in a `worker` the router chose, in a `chat`, or handed over to the
path of that name, which is `SingleAgent`'s, `Supervisor`'s or `GraphOrchestrator`'s to take.

- `AtOnce`, `Guard` and `Fallback` are the three places where patterns decide: before the
  model, after it, and instead of it.
- `advised` is a history variable: the mode is one that the model was sure of.
- `Requests` leaves out the sets of patterns that no text matches, by how the expressions
  contain each other.

### Prompt

`messages` is the list of an agent or of a conversation, each message its length. `prompt` is
the last one sent: which messages, and how many of its characters are each one's. `Bounded`
is `bounded_messages` with its loop as the recursive function `Loop`, and `Total` the sum of
lengths that it compares; `Recent` is the part of the history in `run_chat`.
`AnsweredElsewhere` are the turns of a conversation that ask no chat model. The specification
is `PromptSpec`, so that one module of proofs can extend `Turn` and `Prompt`.

## Runs

Eleven runs must pass, one must find the violation that the finding describes.

| Run | Module, cfg | Bounds | What it shows |
|---|---|---|---|
| `tasks_safety` | MCTaskService | 4 tasks, 1 conversation, queue 2, history 3, 2 exchanges kept | queue, records, approvals and stored history consistent |
| `tasks_live` | MCTaskServiceLive | 2 tasks, 2 conversations, queue 1 | implements `TaskLifecycle`, whatever is or is not approved |
| `deleted_history_returns` | MCTaskServiceDelete | 2 tasks | violation of `DeletedStaysDeleted` |
| `llm_client` | MCLlamaClient | 3 calls | one thread in the model, loaded once, given up; callers and turns are served |
| `supervisor` | MCSupervisor | 4 rounds, plans of 3 tasks, 1 retry, texts x, x, y, x | the books of a task, dependencies and inputs, batches, termination |
| `graph_rounds` | MCGraphOrchestrator | 6 rounds, 2 retries (the program's own) | the graph implements the supervisor's rounds; how far the budget reaches |
| `approved_write` | MCApprovedWrite | 2 calls, 2 pages | grants, overwriting, reports |
| `single_agent` | MCSingleAgent | 4 steps, 4 calls, 2 queries, 1 retry | limits, repeated errors and searches, evidence |
| `review` | MCReviewer | a module, two reports, a table; 2 files read; 2 attempts, 3 worker calls, 1 earlier call, 1 edit | what a passed review vouches for |
| `page` | MCPage | 2 tasks, 2 conversations, queue 1, history 2 | what the page shows and waits for |
| `turn` | MCTurn | every set of patterns, the program's retries | the path of a request |
| `prompt` | MCPrompt | 7 messages of 5 lengths, limits of 1000 and 700 characters | what a prompt shows and forgets |

Why these bounds are enough for the cases that matter:

- *Tasks.* Four tasks with a queue of two and a history of three reach a full
  queue, an eviction of a finished record that is not the oldest, a refusal, a
  trimmed conversation (two exchanges kept) and a task submitted while another one
  is stored. Two tasks suffice for a task that waits behind another one; liveness
  is checked on them because the graph grows fast. One conversation makes the
  trimming interesting; two show that one is not touched by the other.
- *Client.* Three calls are a holder of the lock, one whose caller has left, and one
  behind it: longer lines repeat the middle.
- *Supervisor.* Three tasks are the least with a batch of two and a task that
  depends on it, or a batch of three behind a semaphore of two. One retry
  separates first, last and abstaining attempts. `Wording` gives the i-th task its
  text: the third begins with the second, the first is the second with feedback after it, so
  that both a task and a retry can be taken for an earlier task, and the fourth, of `run`, has
  the text of the second. A worker is shown three outputs at most; a plan of three tasks with one
  retry records no more than that after a task it depends on, so the case where an input
  is pushed out by later ones is outside these bounds.
- *Graph.* The limits are the defaults of `GraphOrchestrator`, since the budget is about them.
- *Writes.* The second call can meet a decision for the first, and a file the agent has
  written itself; two pages so that one lags. The theorems hold for any number of both.
- *Agent.* Four calls hold three errors of one kind with another call between them, or
  a search, a call of the agent's own, a repetition and a failed lookup; the calls that
  the agent makes on its own let four steps meet the limit on calls too.
- *Review.* Two reports are the least of which one can be the latest and the other the
  latest once the review has read both; with a table and a module, a report and the table
  it is compared to can be of different tasks. A review that reads two of four files
  (three in the program) has some that fall off its list. Two attempts and three calls
  are a write, a missing test, and what the next attempt does about it. One edit can
  fall before, between and after any of the reviewer's looks.
- *Page.* One task on the page and one before it, its own or somebody else's; a queue of one,
  so that a submission is refused; restarts and evictions.
- *Prompt.* The lengths are one that always fits, two that fill the room to different rests,
  one that nearly fills it and one that never fits; seven messages are three exchanges, one
  more than a chat shows here, or five messages after an agent's request. The program's
  limits are about nine times as large, the thresholds of 100, 80 and 30 are its own.

`CHECK_DEADLOCK FALSE` is in the runs of the client, the supervisor, the graph, the agent,
the review, the turn and the prompts: one life of a client, a request or a run comes to an
end; and in that of the page, which may have nothing left to submit. The task service can
always restart and the owner of a workspace can always change it, so those runs check
deadlock, trivially. What matters there, that nothing waits for ever, is the fairness in
`ImplementsLifecycle`. Symmetry (of tasks, pages, queries, figures) is used in
runs without liveness properties only. They enter the actions by equality alone.

## Fairness

- *TaskService*: weak fairness of the consumer's own turns (the event loop runs what
  is ready), of `ApprovalReturns` (`asyncio.wait_for` with 300 seconds) and of each
  thread of the store (SQLite has a busy time-out). Strong fairness of the
  runner's end, because a runner may ask for approvals in between: its steps and
  tool calls are bounded by the settings, so it ends if it is resumed again and
  again. No fairness of clients, deletes, shutdown or crashes.
- *TaskLifecycle*: an idle server begins a waiting task and a begun task ends. The
  run shows that the service's fairness implies this.
- *LlamaClient*: weak fairness of the caller's timer, of taking the free lock, of the
  callback and of the end of the loop. None of the threads: a generation may hang,
  and `CallersReturn` holds nevertheless. `TurnsCome` assumes in its statement that
  no thread hangs.
- *Supervisor*: weak fairness of `Next`: every call to a model ends, by its own
  time-out if by nothing else, and each worker's and reviewer's loop is bounded.
- *Page*: in addition to the service's, weak fairness of answers and of the stream: they
  arrive, or fail with the server. None of the user.
- *GraphOrchestrator*, *ApprovedWrite*, *SingleAgent*, *Reviewer*, *Turn* and *Prompt* have no
  liveness properties.

## Proofs

    tlapm ServiceProofs.tla               TaskService, TaskLifecycle and Page
    tlapm LlamaClientProofs.tla
    tlapm SupervisorProofs.tla
    tlapm GraphOrchestratorProofs.tla     refines Supervisor, keeps its books
    tlapm ApprovedWriteProofs.tla
    tlapm SingleAgentProofs.tla
    tlapm ReviewerProofs.tla
    tlapm ConversationProofs.tla          Turn and Prompt

The theorems hold for every value of the constants that satisfies the named assumptions:

| Assumption | Says | Because |
|---|---|---|
| `NoTaskAssumption` | the value for "no task" is not a task | `None` is no record |
| `SizesAssumption` | sizes are natural numbers, the history is larger than the queue | TaskManager's defaults |
| `ConversationAssumption` | the page's conversation is one of the conversations | it has one |
| `WordingAssumption`, `GraphWordingAssumption` | a text is a sequence of words | texts are strings, of which `startswith` compares the beginnings |
| `LimitsAssumption`, `GraphLimitsAssumption` | at least one round, natural retries, a text for each task | the constructors refuse other limits |
| `MaxCallsAssumption` | the calls of an agent are counted | a bound of the model |
| `AgentLimitsAssumption` | the ranges of steps, tool calls and retries | the constructor enforces them |
| `PathsAssumption` | the files read by a review are counted | it is 3 |
| `LengthsAssumption` | lengths and limits are natural numbers, a prompt has at least 100 characters, a chat shows an even number of messages | `bounded_messages` refuses a smaller limit; a chat shows whole exchanges, of two messages each |

None is used for the client and the turn. Sets of tasks, pages, files, figures or
conversations may be infinite.

- *TaskService.* `ServiceInvariant` is the inductive `ServiceInv`. That one task is
  worked on and that decisions belong to the request they answer is
  `WorkerConsistent`, which is not inductive alone: taking a task from the queue
  keeps it only if that task is queued and appears once (`QueueHoldsQueued`), and a
  new process starts from it only if the old one left nothing in memory
  (`DownIsEmpty`). `TerminalFinality` and `DecisionFinality` follow step by step:
  each step that changes a status or a future concerns the record the consumer
  holds, and the invariant says what that record's status is there.
- *TaskService, admission.* `AdmissionIsBounded` rests on a count (`RecordsCounted`): records
  are submitted tasks, each once, so if none can be evicted each is in the queue or is the
  one task that is worked on. A full history, being larger than the queue, would hold more
  of them than a queue with room does (`RoomOrEvictable`).
- *TaskService, refinement.* `ServiceRefinesLifecycle` maps each step to a step of
  `TaskLifecycle` or a stutter, with `ServiceInv` for what the consumer holds at each of them.
  It is `ImplementsLifecycle` without the fairness.
- *TaskService, order and history.* That the queue is the queued records (`QueueIsInOrder`)
  and that the database is what was stored last (`DatabaseIsExact`) are statements about
  `Those`. It is a recursive function, so what it returns is proved by induction over the
  prefixes of a sequence: adding an element to the sequence or to the set, leaving one
  out, and that its order is the sequence's. `OrderConsistent` is why exchanges are stored in
  the order of submission although threads commit when they like: nobody submits a task
  twice, the queue is the end of the submissions, and whatever a thread may still store is the
  last task that has left it. `BegunSettled` is `PredecessorsSettled` for all of them, and
  not only at the moment the history is read. Both, with `HistoryExact`, make `HistoryInv`.
- *Page.* `PageUsesService` shows that the page is an environment of the service, so that every
  invariant above holds of it as well. `FollowConsistent` is what the page follows;
  `LoadConsistent` is what makes a loaded conversation complete: the task it is loaded
  after has left the queue, those before it are settled, and what is settled is not stored
  later. Answers and updates may come in any order, as none of the two speaks of one.
- *LlamaClient.* `ClientInvariant` is the inductive `ClientInv`: the line is the calls
  with an unfinished task, each once; the one at its head alone works and can have a
  thread (or, after the loop has ended, nobody is in line); and the model is there
  as long as a task needs it.
  `MutualExclusion`, `AssertionHolds` and `OneLoad` follow from it.
- *Supervisor.* `SupervisorInv` says at each await what the books of a task are (`Books`):
  between tasks they are about those that are done (`BetweenTasks`), at a task also about
  that one, with as many outputs and reviews as there were attempts (`AtTask`), at the end
  about all (`AtEnd`). `Position` ties the await to how far the run is, `PlanInOrder` and
  `BatchInOrder` say that the tasks done are the first of the plan and that a batch is of
  the next ones. A batch is recorded in a loop, whose invariant is `InOrder`. The
  theorems read their property off these parts. Texts may be equal: the books go
  by position. `InputsGiven` is about what the code finds by wording: a task's own text
  begins its assignment (`BeginsItsOwn`), so the task it is taken for is an earlier one or
  itself, and if those earlier ones that could be found depend on the same tasks, it is given what it
  should be (`FoundByText`).
- *Supervisor, its end.* `TaskRunsOut` bounds a task without fairness: `StepsLeft` is what the
  rounds still allowed may take, 3 * `MaxReviewRetries` + 5 steps each, and what is left of the
  task in hand or of the batch. It is a natural number (by `SupervisorInv`), and every step lowers
  it. What `Ends` needs beyond it is that the next step is taken.
- *GraphOrchestrator.* `GraphInv` counts: the supersteps are at most three for each delegation and
  two for each failed review (`BudgetSpent`), less what is left of the current round, and
  there are at most as many delegations as rounds. `GraphImplementsRounds` maps each node to the
  step of `Supervisor` that it is, `OutOfBudget` to an error of the node that was due. Research is
  excepted, which `run` has reviewed and the graph has not. Along that mapping
  `GraphKeepsBooks` takes over the invariant of *Supervisor*: its proofs are instantiated as `Loop`,
  each step of `Rounds` is a step of `Loop`, and so nothing is lost in the graph, nothing is
  completed without its review, results are honest and limits hold.
- *ApprovedWrite.* `WriteInv` adds to what is promised (`OnlyGrantedWrites`,
  `ReportsHold`) where the call stands: an approved future belongs to the current
  call, which has been granted, and keeps that fact until the thread has opened
  the file. A decision names the task and not the request, so the call that is approved need
  not be the one that was shown; `PagesConsistent` says why it is never an earlier one: pages
  are not ahead of the agent. `OverwriteAsked` needs that whatever a call left at the path is
  a text (`FileConsistent`).
- *SingleAgent.* `AgentInv` adds where the call stands (`CallConsistent`): there is room
  for its record, a search under way was not found before, and a search of the agent's
  own follows a failed lookup. A recorded call then keeps `SearchedOnce`
  (`OncePreservedByRecord`), the limits hold because there was room, and `AnswersRest`
  holds because calls are only ever added before an answer. `RepeatedErrorsStop` counts:
  the recorded failures of a kind are as many as the counter says, and a record that reaches
  the limit ends the run (`ErrorsCounted`); calls that record none leave the count alone.
  `AgentRunsOut` lowers `Remaining` in every step: an agent ends after fewer than `MaxSteps` *
  (`MaxJsonRetries` + 4) of them, whatever the model answers and the tools report.
- *Reviewer.* `ReviewInv` follows a review look by look: a file it has read, in the order of
  its list, is there and parses unless it was edited since (`FilesLooked`), then the figures
  of the report and the table (`ReportLooked`), then the tests (`CodeLooked`). An edit takes its
  file out of what is promised, and nothing else. The looks join the evidence with the
  verdict, so what is promised is about the list as it was before (`shown`): stated over the
  list afterwards, `PassedFilesHold` holds with one report and fails with two (see "Findings").
- *Turn.* `TurnInv` adds to `RightPath` which mode each step belongs to, and that nothing was
  advised before the model has answered. Each case of a choice is then propositional.
- *Prompt.* `PromptInv` says which prompts there are. An agent's (`AgentForm`) is
  everything; or the first two messages and the last ones from some message on, each of which
  the loop accepts, while the one before it is not accepted; or the first two and the newest, cut.
  A chat's (`ChatForm`) is the last exchanges that fit. `PromptsFit` reads the limits off these
  forms. `ForgottenStaysForgotten` compares two of them: whether a message is accepted depends on
  what comes after it, so what a longer list accepts its beginning accepts too, and a window
  never begins earlier than the one before it did. `Sums` and `Loop` are recursive functions;
  what they return is proved by induction over the prefixes of a list.

`ClientInv`, `SupervisorInv`, `GraphInv`, `WriteInv`, `AgentInv`, `ReviewInv`, `TurnInv`,
`PromptInv`, `PageInv`, `HistoryInv` and `RecordsCounted` are proved and not among the properties of a
run: they are there for what follows from them.

Only model-checked: what rests on fairness (`ImplementsLifecycle` as to its fairness,
`CallersReturn`, `ModelGivenUp`, `TurnsCome`, `Ends`, `ButtonReturns`), which is out of the
prover's reach. The part of `Ends` that needs no fairness is proved, `TaskRunsOut`, and its
like for the single agent, `AgentRunsOut`. The library states folds over an operator parameter, with which the provers here
cannot reason; `Those`, `Latest`, `Recorded`, `Sums` and `Loop` are recursive functions for that
reason.

## Findings

`deleted_history_returns`: a record says `completed` before its exchange is stored. A delete
in between is accepted, and then the exchange appears in the deleted conversation, whose
deletion the README promises. `PROJECT.json` has the lines. `HistoryExact` is what does hold:
the database is what was committed since the delete, nothing more or less.

Other things a reader of the code may not expect are written into the properties or the
actions rather than run as violations:

- A decision on an approval names the task, and its answer shows the decided request with
  its buttons once more. A second click, or one on a page that lags, can be taken for the
  task's next request, which nobody was shown. `OnlyGrantedWrites` says what does hold.
- When one worker of a parallel batch fails, the results and tool calls of the others are
  dropped with it, though they are done. Their tasks stay pending (`HonestResult`).
- The reviewer tests again only what this attempt wrote. An attempt that writes without
  testing is sent back; the next one may run the tests, see them fail, and be passed by the
  model. `PassedCodeWorks` speaks of attempts that wrote code. A written file that three
  other reads push off the list is not looked at, so `PassedFilesHold` speaks of the list.
- The reviewer's own reads join the evidence, the latest file first, so that the next review
  takes the oldest of them for the latest. Of two reports that were read again, the next review
  checks the figures of the other one. `PassedFilesHold` speaks of the latest report of the
  evidence that the review began with.
- Six rounds of the graph that use their retries need 42 supersteps and get 35;
  `RetriesExhaustBudget` says how many failed reviews it takes at least.
- When the very first decision does not fit the context and no role is known for the
  request, `run` fails with nothing pending, and the service reports the task as completed.
  `HonestResult` excepts failures before anything was delegated.
- A planned task is taken for the first one of the plan whose text begins its assignment. After
  "Analyse a.csv", the task "Analyse a.csv and write a report" is looked up as the former: its
  worker is given the outputs that the former depends on, and not the analysis it depends on
  itself. The same happens to equal texts. `test_context.py` promises
  (`test_planned_worker_gets_only_dependency_outputs`) what holds only of the other tasks:
  `InputsGiven` excepts exactly a task that an earlier one with other dependencies begins
  (`Mistaken`; without that exception TLC finds a counterexample in five states), and inputs that
  three or more later outputs push out.
- The stream ends with the final status, before the exchange is stored: a conversation that is
  loaded then may lack it (`LoadsCatchUp` speaks of the tasks before), and a storage failure
  that follows is not shown. The late answer to a decision can disable the button after the
  end of the task, and a task whose record is gone leaves it disabled: `BusyHasCause` and
  `ButtonReturns` except both, until the page is opened again. A page that is opened again
  does not follow the task that runs.
- Of the router's direct workers only the coder is taken back for a review; what a writer
  does directly is not reviewed. Code in a message that also asks for several steps goes to
  the supervisor and not to the planner, and the guard's own tests for both never decide.
- The newest message is cut when it is too long, and is then gone from the next prompt. A
  request within 100 characters of the limit fits its first prompt and overflows after the
  first result. A chat does not bound the message that is asked, and saved memories (up to
  2000 characters) come on top of every limit.

## Not modelled

- In `Supervisor` a worker or reviewer is the set of outcomes that its caller can see;
  `SingleAgent` and `Reviewer` are the inside of them.
- *Planner, router, mode model*: the wording of their prompts and of their retries.
- *Tracing*: it observes; no decision of the traced code reads what it records (a task view
  shows its events and its current agent), and its bound on events is one comparison.
- *Page*: rendering, the delete button, the memory panel, the sample requests and the button for a
  new chat; a conversation that cannot be loaded, and a decision that cannot be sent.
- *Context budget*: the saved memories that are added to each prompt.
- *Answer grounding*, *read-only tools*, the names a *chat* finds: functions from input to
  output without shared state; texts are abstract here.
- *Memory store*, *conversation store in memory*: single statements or plain lists,
  nothing interleaves within an operation.
- *Command line, settings, evaluation*: wiring and offline metrics.
- Wall-clock time: a time-out is an action that may happen at any time while its
  wait lasts.
- LangGraph, SQLite and llama.cpp are external: they appear as supersteps,
  transactions that commit or do not, and calls that end, fail or hang.
