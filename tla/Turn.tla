--------------------------------- MODULE Turn ---------------------------------
(***************************************************************************)
(* Which path a request takes: AgentRuntime.run (app/service/runtime.py),  *)
(* the automatic mode's AutoModeRouter.select (app/orchestration/          *)
(* auto_mode.py), run_chat (app/agents/chat.py) and the Router mode        *)
(* (app/orchestration/router.py).  What happens on the paths "single",     *)
(* "supervisor", "plan" and "graph" is SingleAgent's, Supervisor's and     *)
(* GraphOrchestrator's.                                                    *)
(*                                                                         *)
(* A request is the set of the patterns it matches.  The routing models    *)
(* answer as they like, invalidly or not at all.                           *)
(***************************************************************************)
EXTENDS Naturals

CONSTANTS
  MaxModeRetries,  \* max_retries of AutoModeRouter
  MaxRouteRetries  \* max_retries of Router

ASSUME RetriesAssumption == MaxModeRetries \in Nat /\ MaxRouteRetries \in Nat

VARIABLES
  mode,    \* the mode the task was submitted with
  says,    \* the patterns the request matches
  earlier, \* whether the conversation has earlier exchanges
  pc,      \* "select", "chat", "route", "worker", the path taken over, or "ended"
  attempt, \* invalid answers of the routing model so far
  advised, \* whether the mode is one the routing model was sure of
  route,   \* RoutingRecord: the role the router's model suggested, and was it sure
  outcome  \* how the turn ended, when it ended here

request == <<mode, says, earlier>>
vars == <<request, pc, attempt, advised, route, outcome>>

----------------------------------------------------------------------------

Modes == {"auto", "single", "supervisor", "plan", "router", "graph"}

\* AutoMode: what the model can choose.
AutoModes == {"chat", "single", "supervisor", "plan"}

\* "coder" is reviewed by the supervisor only; "other" are the other workers.
Workers == {"coder", "other"}

\* What the patterns of auto_mode.py and chat.py look for: small talk or a sum and
\* nothing else; an explicit sequence or a report after an analysis; a code block;
\* a public fact, by one of chat.py's words (who) or not; a tool task; the task
\* cues and the digits of automatic_mode.
Patterns ==
  {"small", "sum", "sequence", "report", "fence", "fact", "who", "tool", "cue", "digits"}

\* The sets of patterns that one text can match.
Requests ==
  {s \in SUBSET Patterns :
     /\ "fence" \in s => "tool" \in s /\ "small" \notin s
     /\ "fact" \in s => "tool" \in s
     /\ "who" \in s => "fact" \in s
     /\ "sum" \in s => s \cap {"small", "sequence", "report", "fence", "cue"} = {}}

NoRoute == [agent |-> "none", sure |-> FALSE]

Init ==
  /\ mode \in Modes
  /\ says \in Requests
  /\ earlier \in BOOLEAN
  /\ pc = CASE mode = "auto" -> "select"
            [] mode = "router" -> "route"
            [] OTHER -> mode
  /\ attempt = 0
  /\ advised = FALSE
  /\ route = NoRoute
  /\ outcome = "none"

----------------------------------------------------------------------------
(* The automatic mode.                                                     *)

Steps == says \cap {"sequence", "report"} # {}

\* automatic_mode: the path when the model is of no use.
Fallback ==
  CASE "cue" \in says -> "supervisor"
    [] "cue" \notin says /\ "digits" \in says -> "single"
    [] says \cap {"cue", "digits"} = {} /\ "who" \in says -> "supervisor"
    [] OTHER -> "chat"

\* _guard: what the text forces on any choice.
Guard(selected) ==
  IF Steps THEN "plan"
  ELSE IF says \cap {"fact", "fence"} # {} THEN "supervisor"
  ELSE IF "tool" \in says /\ selected \in {"chat", "single"} THEN "supervisor"
  ELSE IF selected = "single" /\ "digits" \notin says THEN "chat"
  ELSE selected

\* The path that the text alone decides on, without the model.
AtOnce ==
  CASE "small" \in says -> "chat"
    [] "small" \notin says /\ "sum" \in says -> "single"
    [] says \cap {"small", "sum"} = {} /\ "fence" \in says -> "supervisor"
    [] says \cap {"small", "sum", "fence"} = {} /\ Steps -> "plan"
    [] OTHER -> "ask"

SelectsAtOnce ==
  /\ pc = "select"
  /\ AtOnce # "ask"
  /\ pc' = AtOnce
  /\ UNCHANGED <<request, attempt, advised, route, outcome>>

\* A valid decision; below 0.65 it does not count.
ModelSelects(selected, sure) ==
  /\ pc = "select"
  /\ AtOnce = "ask"
  /\ pc' = Guard(IF sure THEN selected ELSE Fallback)
  /\ advised' = sure
  /\ UNCHANGED <<request, attempt, route, outcome>>

\* (Mutated) The fallback is taken as it is.
SelectionGivenUpUnguarded ==
  /\ pc = "select"
  /\ AtOnce = "ask"
  /\ pc' = Fallback
  /\ UNCHANGED <<request, attempt, advised, route, outcome>>

\* The last answer is invalid, or the call fails.
SelectionGivenUp ==
  /\ pc = "select"
  /\ AtOnce = "ask"
  /\ pc' = Guard(Fallback)
  /\ UNCHANGED <<request, attempt, advised, route, outcome>>

SelectsAgain ==
  /\ pc = "select"
  /\ AtOnce = "ask"
  /\ attempt < MaxModeRetries
  /\ attempt' = attempt + 1
  /\ UNCHANGED <<request, pc, advised, route, outcome>>

\* run_chat: an answer from what is known (names, greetings) or from the model,
\* or no answer: the call fails or the text is empty.
Chats ==
  /\ pc = "chat"
  /\ pc' = "ended"
  /\ outcome' \in {"answered", "raised"}
  /\ UNCHANGED <<request, attempt, advised, route>>

----------------------------------------------------------------------------
(* The router mode.                                                        *)

\* A worker gets the request itself only when it needs nothing else: no plan, no
\* earlier exchange, no review of code.
Direct(agent, sure) ==
  /\ agent # "supervisor" /\ sure
  /\ "sequence" \notin says
  /\ ~earlier
  /\ agent # "coder"

Routes(agent, sure) ==
  /\ pc = "route"
  /\ route' = [agent |-> agent, sure |-> sure]
  /\ pc' = IF Direct(agent, sure) THEN "worker" ELSE "plan"
  /\ UNCHANGED <<request, attempt, advised, outcome>>

\* An invalid route, or a role that is not there.
RoutesAgain ==
  /\ pc = "route"
  /\ attempt < MaxRouteRetries
  /\ attempt' = attempt + 1
  /\ UNCHANGED <<request, pc, advised, route, outcome>>

\* No attempt is left: as if the supervisor was suggested, with no confidence.
RouteGivenUp ==
  /\ attempt = MaxRouteRetries
  /\ Routes("supervisor", FALSE)

\* The request is too long for the router's prompt, or its model fails.
RouteRaises ==
  /\ pc = "route"
  /\ pc' = "ended"
  /\ outcome' = "raised"
  /\ UNCHANGED <<request, attempt, advised, route>>

\* The worker's answer is the task's, or its error is.
WorkerEnds ==
  /\ pc = "worker"
  /\ pc' = "ended"
  /\ outcome' \in {"answered", "raised"}
  /\ UNCHANGED <<request, attempt, advised, route>>

Next ==
  \/ SelectsAtOnce
  \/ \E selected \in AutoModes, sure \in BOOLEAN : ModelSelects(selected, sure)
  \/ SelectsAgain \/ SelectionGivenUp
  \/ Chats
  \/ \E agent \in Workers \cup {"supervisor"}, sure \in BOOLEAN : Routes(agent, sure)
  \/ RoutesAgain \/ RouteGivenUp \/ RouteRaises
  \/ WorkerEnds

Spec == Init /\ [][Next]_vars
----------------------------------------------------------------------------

\* README (automatic choice), test_auto_mode.py: a request that needs tools or facts does not end in
\* chat or in the calculator's path, whatever the model chose or if it failed;
\* several steps are planned, except for code in the message; and without a sure
\* model nothing that looks like work is taken for talk.
AutomaticPath ==
  mode = "auto" =>
    /\ pc = "chat" =>
         "small" \in says \/ (~Steps /\ "tool" \notin says)
    /\ pc = "single" =>
         "sum" \in says \/ (~Steps /\ "tool" \notin says /\ "digits" \in says)
    /\ pc = "supervisor" => ~Steps \/ "fence" \in says
    /\ pc = "plan" => Steps \/ (advised /\ "fact" \notin says)
    /\ pc = "chat" /\ ~advised /\ "small" \notin says =>
         says \cap {"cue", "digits", "who"} = {}

\* README: the router mode gives a request to one worker directly only if the model was
\* sure of it, no sequence is asked for and no conversation precedes it; code always
\* takes the supervisor's path, where it is reviewed.
RouterPath ==
  mode = "router" /\ pc = "worker" =>
    /\ route.sure /\ route.agent = "other"
    /\ "sequence" \notin says
    /\ ~earlier

\* The request takes a path that can serve it.
RightPath == AutomaticPath /\ RouterPath

\* The inductive invariant: what is decided at each step, and for which mode.
TurnInv ==
  /\ mode \in Modes
  /\ says \in Requests
  /\ earlier \in BOOLEAN /\ advised \in BOOLEAN
  /\ pc = "select" => mode = "auto" /\ ~advised
  /\ pc \in {"route", "worker"} => mode = "router"
  /\ RightPath
=============================================================================
