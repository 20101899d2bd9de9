---------------------------------- MODULE Page ----------------------------------
(***************************************************************************)
(* The browser page (app/ui/app.js) on the task service, through the HTTP  *)
(* handlers of app/api.py.  The page submits tasks of one conversation,    *)
(* follows each over its event stream, answers its approvals, and shows    *)
(* the conversation.  Others use the service too, in conversations of      *)
(* their own.                                                              *)
(*                                                                         *)
(* The server handles a POST when it is sent (the page that sends it may   *)
(* be out of date by then); its answer takes a while, and answers overtake *)
(* each other.  The event stream is one connection, so an update is taken  *)
(* to arrive when the server polls the record.  A fetch that finds no      *)
(* server fails.                                                           *)
(***************************************************************************)
EXTENDS TaskService

CONSTANT Conversation  \* conversationId of the page, kept in localStorage

ASSUME ConversationAssumption == Conversation \in Conversations

VARIABLES
  active,  \* activeTask, NoTask for null
  shown,   \* the status on display
  busy,    \* runButton.disabled
  loaded,  \* loadedTask
  chat,    \* the exchanges in the chat, and the task whose end they were asked after
  stream,  \* the task whose events are followed
  post,    \* the task whose 202 is on its way
  decided, \* the task whose approval was taken, while the answer is on its way
  loads    \* the GETs that are not handled yet, by the task whose end they follow

view == <<active, shown, busy, loaded, chat, stream>>
page == <<view, post, decided, loads>>
allVars == <<vars, page>>

----------------------------------------------------------------------------

\* The page has just been opened.
PageInit ==
  /\ Init
  /\ active = NoTask
  /\ shown = "none"
  /\ busy = FALSE
  /\ loaded = NoTask
  /\ chat = [after |-> NoTask, has |-> <<>>]
  /\ stream = NoTask
  /\ post = NoTask
  /\ decided = NoTask
  /\ loads = {NoTask}

\* render: the view of task t with status s.
Render(t, s) ==
  /\ active' = t
  /\ shown' = s
  /\ busy' = (s \notin Terminal)
  /\ chat' = chat

\* ... and its end: the conversation is loaded, once, and the stream is closed.
RenderEnd(t, s) ==
  IF s \in Terminal
  THEN /\ stream' = NoTask
       /\ loaded' = t
       /\ loads' = IF loaded = t THEN loads ELSE loads \cup {t}
  ELSE UNCHANGED <<stream, loaded, loads>>

----------------------------------------------------------------------------
(* Submitting and following a task.                                        *)

\* The form is sent, and create_task makes a record for it.
SendTask(t) ==
  /\ ~busy
  /\ conv[t] = Conversation
  /\ Submit(t)
  /\ busy' = TRUE
  /\ stream' = NoTask
  /\ post' = t
  /\ UNCHANGED <<active, shown, loaded, chat, decided, loads>>

\* (Mutated) The button is not given back.
TaskRefusedBusy ==
  /\ ~busy
  /\ phase = "up" => Len(queue) = MaxQueue \/ Kept = {}
  /\ busy' = TRUE
  /\ loads' = loads \cup {NoTask}
  /\ stream' = NoTask
  /\ UNCHANGED <<vars, active, shown, loaded, chat, post, decided>>

\* 429, or no server: the button is given back and the conversation loaded again.
TaskRefused ==
  /\ ~busy
  /\ phase = "up" => Len(queue) = MaxQueue \/ Kept = {}
  /\ loads' = loads \cup {NoTask}
  /\ stream' = NoTask
  /\ UNCHANGED <<vars, active, shown, busy, loaded, chat, post, decided>>

\* The answer arrives: the record was queued when it was made.
TaskAnswered ==
  /\ post # NoTask
  /\ Render(post, "queued")
  /\ stream' = post
  /\ post' = NoTask
  /\ UNCHANGED <<vars, loaded, decided, loads>>

\* The answer is lost with its server.
TaskNotAnswered ==
  /\ post # NoTask
  /\ phase # "up"
  /\ busy' = FALSE
  /\ loads' = loads \cup {NoTask}
  /\ post' = NoTask
  /\ UNCHANGED <<vars, active, shown, loaded, chat, stream, decided>>

\* (Mutated) The stream ends before it has sent the final view.
UpdateUntilOver ==
  /\ phase = "up"
  /\ stream \in Range(records)
  /\ status[stream] \notin Terminal
  /\ Render(stream, status[stream])
  /\ UNCHANGED <<vars, loaded, stream, post, decided, loads>>

\* An update event (stream_task polls the record).
Update ==
  /\ phase = "up"
  /\ stream \in Range(records)
  /\ Render(stream, status[stream])
  /\ RenderEnd(stream, status[stream])
  /\ UNCHANGED <<vars, post, decided>>

\* A browser reconnects by itself, but not after a 404: the record is evicted or
\* its process is gone.
StreamRefused ==
  /\ phase = "up"
  /\ stream # NoTask
  /\ stream \notin Range(records)
  /\ stream' = NoTask
  /\ UNCHANGED <<vars, active, shown, busy, loaded, chat, post, decided, loads>>

----------------------------------------------------------------------------
(* Answering an approval.                                                  *)

\* sendApproval: decide_approval takes the decision.  (A refusal changes nothing.)
SendDecision(approved) ==
  /\ shown = "waiting_approval"
  /\ decided = NoTask
  /\ Decide(active, approved)
  /\ decided' = active
  /\ UNCHANGED <<view, post, loads>>

\* Its answer is the view of a task that still waits, as the consumer had not run.
DecisionAnswered ==
  /\ decided # NoTask
  /\ Render(decided, "waiting_approval")
  /\ decided' = NoTask
  /\ UNCHANGED <<vars, loaded, stream, post, loads>>

----------------------------------------------------------------------------
(* The conversation.                                                       *)

\* loadConversation shows what get_conversation reads.
Loads(t) ==
  /\ phase = "up"
  /\ loads' = loads \ {t}
  /\ chat' = [after |-> t, has |-> history[Conversation]]
  /\ UNCHANGED <<vars, active, shown, busy, loaded, stream, post, decided>>

LoadFails(t) ==
  /\ phase # "up"
  /\ loads' = loads \ {t}
  /\ UNCHANGED <<vars, view, post, decided>>

\* The page is opened again: of the old one only the conversation is kept.
Reload ==
  /\ active' = NoTask
  /\ shown' = "none"
  /\ busy' = FALSE
  /\ loaded' = NoTask
  /\ chat' = [after |-> NoTask, has |-> <<>>]
  /\ stream' = NoTask
  /\ post' = NoTask
  /\ decided' = NoTask
  /\ loads' = {NoTask}
  /\ UNCHANGED vars

----------------------------------------------------------------------------

User ==
  \/ \E t \in Tasks : SendTask(t)
  \/ TaskRefused
  \/ \E approved \in BOOLEAN : SendDecision(approved)
  \/ Reload

Arrival ==
  \/ TaskAnswered
  \/ TaskNotAnswered
  \/ Update
  \/ StreamRefused
  \/ DecisionAnswered
  \/ \E t \in loads : Loads(t) \/ LoadFails(t)

\* Somebody else submits a task.
Others == \E t \in Tasks : conv[t] # Conversation /\ Submit(t)

Service ==
  /\ Others \/ Consumer \/ Process \/ \E t \in Tasks : StoreEnds(t)
  /\ UNCHANGED page

PageNext == User \/ Arrival \/ Service

\* Answers and updates arrive, in the end.
PageFairness ==
  /\ WF_allVars(TaskAnswered \/ TaskNotAnswered)
  /\ WF_allVars(Update \/ StreamRefused)
  /\ WF_allVars(DecisionAnswered)

PageSpec == PageInit /\ [][PageNext]_allVars /\ Fairness /\ PageFairness

----------------------------------------------------------------------------
(* Properties.                                                             *)

\* The answer just given may be missing from the chat it is followed by, as it is
\* stored after the page is told; the stored exchanges of earlier tasks never are.
LoadsCatchUp ==
  \A i, j \in DOMAIN order :
    /\ i < j /\ order[j] = chat.after
    /\ order[i] \in stored /\ conv[order[i]] = Conversation
    => order[i] \in Range(chat.has) \/ Len(chat.has) = MaxPairs

\* The server has nothing more to say about the task that the page shows.
Forgotten == active # NoTask /\ active \notin Range(records)

\* The answer to a decision arrived after the end of its task.
Outrun == shown = "waiting_approval" /\ status[active] \in Terminal

\* The button is disabled for a reason: a task is submitted or followed.  The page
\* has to be opened again only when its task is forgotten or an answer was outrun.
BusyHasCause ==
  busy => post # NoTask \/ stream # NoTask \/ Forgotten \/ Outrun

\* And the reason goes away: the button is given back in the end, unless the
\* server goes, forgets the task, or an answer is outrun.
ButtonReturns ==
  busy ~> ~busy \/ phase # "up" \/ Forgotten \/ Outrun
=============================================================================
