------------------------------ MODULE SingleAgent ------------------------------
(***************************************************************************)
(* The tool loop of an agent (app/agents/single.py), as a worker or alone: *)
(* decide, execute a tool, look at the result, until there is an answer or *)
(* a limit is met.  Limits on steps, tool calls, repeated errors, repeated *)
(* searches and invalid output meet with calls that the agent makes on its *)
(* own and with the evidence it wants to see before an answer counts.      *)
(*                                                                         *)
(* One coroutine: a step is the code between two awaits.  Arguments are    *)
(* reduced to the query or title they carry, results to success or a kind  *)
(* of error, the request to what the patterns find in it.                  *)
(***************************************************************************)
EXTENDS Naturals, Sequences, FiniteSets

CONSTANTS
  Queries,       \* web queries and article titles, up to case
  MaxSteps,      \* max_steps (10)
  MaxToolCalls,  \* max_tool_calls (8)
  MaxJsonRetries \* max_json_retries (2; 1 for a researcher)

ASSUME AgentLimitsAssumption ==
  /\ MaxSteps \in 1 .. 20
  /\ MaxToolCalls \in 0 .. 20
  /\ MaxJsonRetries \in 0 .. 5

VARIABLES
  role,    \* _role_name; "general" stands for the roles without rules of their own
  web,     \* whether the public tools are registered and allowed
  ask,     \* what the request has: a public question, JSON tests, a title, a word
  pc,      \* the await the coroutine is suspended at, or "ended"
  step,    \* step_count
  tries,   \* invalid outputs of the decision under way
  call,    \* the tool call under way
  calls,   \* tool_results; `own' marks the calls the model did not ask for
  errors,  \* error_counts
  repeats, \* repeated_web_searches
  untitled, \* missing_public_title_retries
  outcome  \* how the run ended

request == <<role, web, ask>>
counters == <<errors, repeats, untitled>>
vars == <<request, pc, step, tries, call, calls, counters, outcome>>

----------------------------------------------------------------------------

PublicTools == {"wikipedia_lookup", "web_search"}
Tools == PublicTools \cup {"search", "file_read", "file_write", "function_test", "unlisted"}

\* "Timeout" is one of the errors without a rule of their own, "NoArticle" stands
\* for LookupUnavailable too, "empty" for a search without matches.
Errors == {"PermissionDenied", "InvalidArguments", "NoArticle", "Timeout"}
Results == {"ok", "empty"} \cup Errors

Allowed ==
  CASE role = "researcher" -> {"search", "file_read"} \cup (IF web THEN PublicTools ELSE {})
    [] role = "coder" -> {"file_read", "file_write", "function_test"}
    [] OTHER -> {"file_read", "file_write"}

\* What ToolRegistry.execute may return; it refuses a tool that is not allowed,
\* "unlisted" here whatever its name is.
ResultsOf(tool) ==
  CASE tool = "unlisted" -> {"PermissionDenied"}
    [] tool = "wikipedia_lookup" -> {"ok", "NoArticle", "InvalidArguments", "Timeout"}
    [] tool = "web_search" -> {"ok", "InvalidArguments", "Timeout"}
    [] tool = "search" -> Results \ {"NoArticle"}
    [] OTHER -> ({"ok"} \cup Errors) \ {"NoArticle"}

\* Public tools carry a query or a title, the others nothing that matters here.
Arguments(tool) == IF tool \in PublicTools THEN Queries ELSE {"other"}

\* How many errors of a kind end the run.
Limit(error) == IF error = "PermissionDenied" THEN 2 ELSE 3

NoCall == [tool |-> "none", arg |-> "none"]

Succeeded(tool) == \E i \in 1 .. Len(calls) : calls[i].tool = tool /\ calls[i].result = "ok"

\* A web search for q has brought results.
Found(q) == \E i \in 1 .. Len(calls) : /\ calls[i].tool = "web_search"
                                       /\ calls[i].arg = q
                                       /\ calls[i].result = "ok"

\* What a role looks for in the request; the rest makes no difference to it.
Looked ==
  CASE role = "researcher" -> {"public", "title", "word"}
    [] role = "coder" -> {"json", "title"}
    [] OTHER -> {"title"}

Init ==
  /\ role \in {"researcher", "coder", "general"}
  /\ web \in (IF role = "researcher" THEN BOOLEAN ELSE {FALSE})
  /\ ask \in SUBSET Looked
  /\ pc = "decide"
  /\ step = 1
  /\ tries = 0
  /\ call = NoCall
  /\ calls = <<>>
  /\ errors = [e \in Errors |-> 0]
  /\ repeats = [q \in Queries |-> 0]
  /\ untitled = 0
  /\ outcome = "none"

\* The run returns an answer or raises.
Ends(how) ==
  /\ pc' = "ended"
  /\ outcome' = how
  /\ UNCHANGED <<step, tries>>

\* The next step of the loop, if there is one.
GoesOn ==
  IF step = MaxSteps
  THEN Ends("steps")
  ELSE /\ pc' = "decide"
       /\ step' = step + 1
       /\ tries' = 0
       /\ outcome' = outcome

----------------------------------------------------------------------------
(* The decision.                                                           *)

\* Output that is not a decision is sent back with a correction.
OutputInvalid ==
  /\ pc = "decide"
  /\ tries < MaxJsonRetries
  /\ tries' = tries + 1
  /\ UNCHANGED <<request, pc, step, call, calls, counters, outcome>>

\* ... until the retries are used: a researcher who has found something on the
\* web answers with that.
OutputStaysInvalid ==
  /\ pc = "decide"
  /\ tries = MaxJsonRetries
  /\ Ends(IF role = "researcher" /\ Succeeded("web_search") THEN "web" ELSE "raised")
  /\ UNCHANGED <<request, call, calls, counters>>

\* The model fails, or the prompt does not fit: nothing of the run is passed on.
ModelFails ==
  /\ pc = "decide"
  /\ Ends("raised")
  /\ UNCHANGED <<request, call, calls, counters>>

\* A public question that no public tool was tried for.
Unsearched ==
  /\ role = "researcher" /\ web /\ "public" \in ask
  /\ \A i \in 1 .. Len(calls) : calls[i].tool \notin PublicTools

\* A change to code with JSON tests, none of which was ever run.
Untested ==
  /\ role = "coder" /\ "json" \in ask
  /\ Succeeded("file_write") /\ ~Succeeded("function_test")

\* A match in a document of which none was read.
Unread == role = "researcher" /\ Succeeded("search") /\ ~Succeeded("file_read")

Evidence == ~Unsearched /\ ~Untested /\ ~Unread

\* (Mutated) In the last step any answer is taken.
FinalAnswerAtLast ==
  /\ pc = "decide"
  /\ Evidence \/ step = MaxSteps
  /\ Ends("answered")
  /\ UNCHANGED <<request, call, calls, counters>>

FinalAnswer ==
  /\ pc = "decide"
  /\ Evidence
  /\ Ends("answered")
  /\ UNCHANGED <<request, call, calls, counters>>

\* The agent is told what to do before it may answer.
AnswerRefused ==
  /\ pc = "decide"
  /\ ~Evidence
  /\ GoesOn
  /\ UNCHANGED <<request, call, calls, counters>>

OutOfCalls ==
  /\ pc = "decide"
  /\ Len(calls) >= MaxToolCalls
  /\ Ends("calls")
  /\ UNCHANGED <<request, call, calls, counters>>

\* A lookup without a title, and none in the request: asked for once.
NoTitle ==
  /\ pc = "decide"
  /\ Len(calls) < MaxToolCalls
  /\ "title" \notin ask
  /\ IF untitled = 0 THEN GoesOn ELSE Ends("no_title")
  /\ untitled' = 1
  /\ UNCHANGED <<request, call, calls, errors, repeats>>

\* A search that has succeeded before is not made again: the agent is told so
\* once, then the results are the answer.
SearchRepeated(q) ==
  /\ pc = "decide"
  /\ Len(calls) < MaxToolCalls
  /\ Found(q)
  /\ IF repeats[q] = 0 THEN GoesOn ELSE Ends("web")
  /\ repeats' = [repeats EXCEPT ![q] = @ + 1]
  /\ UNCHANGED <<request, call, calls, errors, untitled>>

\* (Mutated) Only the call before this one is looked at.
UseToolRepeating(tool, arg) ==
  /\ pc = "decide"
  /\ Len(calls) < MaxToolCalls
  /\ calls # <<>> => calls[Len(calls)].tool # tool \/ calls[Len(calls)].arg # arg
  /\ call' = [tool |-> tool, arg |-> arg]
  /\ pc' = "execute"
  /\ UNCHANGED <<request, step, tries, calls, counters, outcome>>

UseTool(tool, arg) ==
  /\ pc = "decide"
  /\ Len(calls) < MaxToolCalls
  /\ tool = "web_search" => ~Found(arg)
  /\ call' = [tool |-> tool, arg |-> arg]
  /\ pc' = "execute"
  /\ UNCHANGED <<request, step, tries, calls, counters, outcome>>

----------------------------------------------------------------------------
(* The tool.                                                               *)

\* The call under way and its result, with whether it was the agent's own idea.
Recorded(result, own) ==
  Append(calls, [tool |-> call.tool, arg |-> call.arg, result |-> result, own |-> own])

\* A write that was not approved (ToolApprovalError) is not recorded.
ApprovalRefused ==
  /\ pc = "execute"
  /\ call.tool = "file_write"
  /\ Ends("raised")
  /\ UNCHANGED <<request, call, calls, counters>>

\* A lookup that a researcher has another way for.
FallsBack(result) ==
  /\ role = "researcher"
  /\ call.tool = "wikipedia_lookup"
  /\ result \in {"NoArticle", "InvalidArguments"}

\* A result, or an error that does not end the run yet, is shown to the model.
ToolReturns(result) ==
  /\ pc = "execute"
  /\ ~FallsBack(result)
  /\ result \in Errors => errors[result] + 1 < Limit(result)
  /\ calls' = Recorded(result, FALSE)
  /\ errors' = [e \in Errors |-> IF e = result THEN errors[e] + 1 ELSE errors[e]]
  /\ GoesOn
  /\ UNCHANGED <<request, call, repeats, untitled>>

\* (Mutated) An error that was repeated too often is shown to the model as well.
ErrorShown(result) ==
  /\ pc = "execute"
  /\ ~FallsBack(result)
  /\ result \in Errors
  /\ errors[result] + 1 >= Limit(result)
  /\ calls' = Recorded(result, FALSE)
  /\ GoesOn
  /\ UNCHANGED <<request, call, counters>>

\* RepeatedToolError.
ErrorRepeated(result) ==
  /\ pc = "execute"
  /\ ~FallsBack(result)
  /\ result \in Errors
  /\ errors[result] + 1 >= Limit(result)
  /\ calls' = Recorded(result, FALSE)
  /\ errors' = [errors EXCEPT ![result] = @ + 1]
  /\ Ends("repeated")
  /\ UNCHANGED <<request, call, repeats, untitled>>

\* (Mutated) The agent's own search is not counted as a call.
SearchedInVainAtLimit ==
  /\ pc = "execute"
  /\ role = "researcher" /\ call.tool = "search"
  /\ "word" \in ask
  /\ calls' = Recorded("empty", FALSE)
  /\ pc' = "again"
  /\ UNCHANGED <<request, step, tries, call, counters, outcome>>

\* No match: if there is a call left and a name in the request that was not the
\* query (otherwise ToolReturns), a researcher searches for that name.
SearchedInVain ==
  /\ pc = "execute"
  /\ role = "researcher" /\ call.tool = "search"
  /\ "word" \in ask
  /\ Len(calls) + 1 < MaxToolCalls
  /\ calls' = Recorded("empty", FALSE)
  /\ pc' = "again"
  /\ UNCHANGED <<request, step, tries, call, counters, outcome>>

\* The result of that search is recorded, an error of it not counted.
SearchedAgain(result) ==
  /\ pc = "again"
  /\ calls' = Recorded(result, TRUE)
  /\ GoesOn
  /\ UNCHANGED <<request, call, counters>>

\* No article: a researcher searches the web for the title, if a call is left.
LookupFailed(result) ==
  /\ pc = "execute"
  /\ FallsBack(result)
  /\ calls' = Recorded(result, FALSE)
  /\ IF Len(calls) + 1 < MaxToolCalls
     THEN /\ call' = [call EXCEPT !.tool = "web_search"]
          /\ pc' = "web"
          /\ UNCHANGED <<step, tries, outcome>>
     ELSE Ends("no_source") /\ call' = call
  /\ UNCHANGED <<request, counters>>

\* What that search brings is the answer, or that there is none.
WebSearched(result) ==
  /\ pc = "web"
  /\ calls' = Recorded(result, TRUE)
  /\ Ends(IF result = "ok" THEN "web" ELSE "no_source")
  /\ UNCHANGED <<request, call, counters>>

----------------------------------------------------------------------------

Decide == \/ OutputInvalid
          \/ OutputStaysInvalid
          \/ ModelFails
          \/ FinalAnswer
          \/ AnswerRefused
          \/ OutOfCalls
          \/ NoTitle
          \/ \E q \in Queries : SearchRepeated(q)
          \/ \E tool \in Allowed \cup {"unlisted"} :
               \E arg \in Arguments(tool) : UseTool(tool, arg)

Execute == \/ ApprovalRefused
           \/ \E result \in ResultsOf(call.tool) :
                \/ ToolReturns(result)
                \/ ErrorRepeated(result)
                \/ LookupFailed(result)
                \/ SearchedAgain(result)
                \/ WebSearched(result)
           \/ SearchedInVain

Next == Decide \/ Execute

Spec == Init /\ [][Next]_vars

----------------------------------------------------------------------------
(* Properties.                                                             *)

\* Every variable stays in its type.
TypeOK ==
  /\ role \in {"researcher", "coder", "general"}
  /\ web \in BOOLEAN
  /\ ask \subseteq {"public", "json", "title", "word"}
  /\ pc \in {"decide", "execute", "again", "web", "ended"}
  /\ step \in Nat
  /\ tries \in Nat
  /\ call \in [tool : Tools, arg : Queries \cup {"other"}] \cup {NoCall}
  /\ calls \in Seq([tool : Tools, arg : Queries \cup {"other"}, result : Results,
                    own : BOOLEAN])
  /\ errors \in [Errors -> Nat]
  /\ repeats \in [Queries -> Nat]
  /\ untitled \in {0, 1}
  /\ outcome \in {"none", "answered", "web", "no_source", "no_title",
                  "steps", "calls", "repeated", "raised"}

\* README: at most 10 steps and 8 tool calls, those that the agent adds on its
\* own included, and it stops for a limit only when that is used up; the model
\* is asked MaxJsonRetries more times per step at most.
LimitsKept ==
  /\ step <= MaxSteps
  /\ tries <= MaxJsonRetries
  /\ Len(calls) <= MaxToolCalls
  /\ outcome = "steps" => step = MaxSteps
  /\ outcome = "calls" => Len(calls) = MaxToolCalls

\* Asked and recorded errors of a kind, but for those that end the run anyway.
Failures(e) ==
  Cardinality({i \in 1 .. Len(calls) : calls[i].result = e /\ ~calls[i].own})

\* README: repeated errors of one kind stop the agent, two refused permissions
\* or three others, whatever was called in between; and nothing else counts as
\* a repetition, in particular no error of a call the agent added.
ErrorsStop ==
  /\ \A e \in Errors : /\ Failures(e) <= Limit(e)
                        /\ Failures(e) = Limit(e) => pc \in {"ended", "web"}
  /\ outcome = "repeated" => \E e \in Errors : Failures(e) = Limit(e)

\* A web search that brought results is not made again, except as the last call
\* of a researcher whose lookup failed.
SearchedOnce ==
  \A i, j \in 1 .. Len(calls) :
    /\ i < j
    /\ calls[i].tool = "web_search" /\ calls[i].result = "ok"
    /\ calls[j].tool = "web_search" /\ calls[j].arg = calls[i].arg
    => calls[j].own /\ j = Len(calls) /\ pc = "ended"

\* An answer has what it is expected to rest on: the model's own answer the
\* evidence for its role, the results of a search a search that found some; and
\* a researcher has tried a lookup before it says that there is no source.
AnswersRest ==
  /\ outcome = "answered" => Evidence
  /\ outcome = "web" => Succeeded("web_search")
  /\ outcome = "no_source" =>
       \E i \in 1 .. Len(calls) : /\ calls[i].tool = "wikipedia_lookup"
                                  /\ calls[i].result # "ok"

\* A call under way is one of the tools, and of a search without results yet.
CallConsistent ==
  /\ pc \in {"execute", "again", "web"} => call # NoCall /\ outcome = "none"
  /\ pc = "decide" => outcome = "none"
  /\ pc \in {"execute", "again", "web"} => Len(calls) < MaxToolCalls
  /\ pc = "execute" /\ call.tool = "web_search" => ~Found(call.arg)
  /\ pc = "again" => call.tool = "search"
  /\ pc = "web" => call.tool = "web_search"
  /\ pc = "web" =>
       \E i \in 1 .. Len(calls) : /\ calls[i].tool = "wikipedia_lookup"
                                  /\ calls[i].result # "ok"

\* The inductive invariant.
AgentInv == TypeOK /\ CallConsistent /\ LimitsKept /\ SearchedOnce /\ AnswersRest
=============================================================================
