-------------------------------- MODULE Prompt --------------------------------
(***************************************************************************)
(* What the model is shown of a list of messages that grows: by an agent,  *)
(* bounded_messages (app/orchestration/context.py) over the messages of    *)
(* its task; by a chat, run_chat's part of the conversation's history      *)
(* (app/agents/chat.py).                                                   *)
(*                                                                         *)
(* A message is its length in characters.  A prompt is the parts shown:    *)
(* which message, and how many of the prompt's characters are for it.      *)
(***************************************************************************)
EXTENDS Naturals, Sequences, SequencesExt, FiniteSetsExt

CONSTANTS
  Lengths,      \* lengths a message may have
  MaxMessages,  \* bound: messages of the list
  PromptChars,  \* max_chars of bounded_messages
  ChatChars,    \* characters of earlier messages in a chat
  ChatMessages  \* earlier messages in a chat, before they are counted

ASSUME LengthsAssumption ==
  /\ Lengths \subseteq Nat
  /\ {MaxMessages, ChatChars} \subseteq Nat
  /\ PromptChars \in Nat /\ PromptChars >= 100
  /\ ChatMessages \in Nat /\ ChatMessages % 2 = 0

VARIABLES
  user,     \* whose prompt it is: "agent" or "chat"
  messages, \* the lengths of the messages
  prompt,   \* the prompt last sent
  overflow  \* whether the agent's next prompt did not fit

promptVars == <<user, messages, prompt, overflow>>

----------------------------------------------------------------------------

\* The sums of the first lengths, and of all.
Sums(lengths) ==
  LET sum[k \in 0 .. Len(lengths)] == IF k = 0 THEN 0 ELSE sum[k - 1] + lengths[k]
  IN  sum

Total(lengths) == Sums(lengths)[Len(lengths)]

Part(i, chars) == [nr |-> i, chars |-> chars]

\* Messages i to j, whole.
Whole(ms, i, j) == [k \in 1 .. j + 1 - i |-> Part(i + k - 1, ms[i + k - 1])]

Chars(parts) == Total([k \in DOMAIN parts |-> parts[k].chars])

\* The system message and the request are always shown.
Anchors == 2

\* The initial request does not fit.
TooLong(ms) ==
  /\ Total(ms) > PromptChars
  /\ ms[1] + ms[2] >= PromptChars - 100

\* (Mutated) The notice at the end of a cut message is not allowed for.
TakeCuttingLess(ms, i, w) ==
  CASE w.full \/ w.room <= 80 -> [w EXCEPT !.full = TRUE]
    [] ~w.full /\ w.room > 80 /\ ms[i] <= w.room ->
         [w EXCEPT !.room = @ - ms[i], !.kept = <<Part(i, ms[i])>> \o @]
    [] OTHER ->
         [w EXCEPT !.full = TRUE,
                   !.kept = IF @ = <<>> THEN <<Part(i, w.room + 20)>> ELSE @]

\* (Mutated) A message that does not fit is passed over.
TakeSkipping(ms, i, w) ==
  CASE w.full \/ w.room <= 80 -> [w EXCEPT !.full = TRUE]
    [] ~w.full /\ w.room > 80 /\ ms[i] <= w.room ->
         [w EXCEPT !.room = @ - ms[i], !.kept = <<Part(i, ms[i])>> \o @]
    [] OTHER -> w

\* One round of the loop, from the newest message on: as long as there is room the
\* message is taken; only the newest is cut, 30 characters short for a notice of 20.
Take(ms, i, w) ==
  CASE w.full \/ w.room <= 80 -> [w EXCEPT !.full = TRUE]
    [] ~w.full /\ w.room > 80 /\ ms[i] <= w.room ->
         [w EXCEPT !.room = @ - ms[i], !.kept = <<Part(i, ms[i])>> \o @]
    [] OTHER ->
         [w EXCEPT !.full = TRUE,
                   !.kept = IF @ = <<>> THEN <<Part(i, w.room - 30 + 20)>> ELSE @]

\* The loop, after the newest k messages.
Loop(ms) ==
  LET taken[k \in 0 .. Len(ms) - Anchors] ==
        IF k = 0
        THEN [room |-> PromptChars - ms[1] - ms[2], kept |-> <<>>, full |-> FALSE]
        ELSE Take(ms, Len(ms) + 1 - k, taken[k - 1])
  IN  taken

\* bounded_messages, of a list whose initial request fits.
Bounded(ms) ==
  IF Total(ms) <= PromptChars THEN Whole(ms, 1, Len(ms))
  ELSE Whole(ms, 1, Anchors) \o Loop(ms)[Len(ms) - Anchors].kept

\* run_chat: the last messages of the history, less the oldest exchanges until the
\* rest is short enough.
Recent(history) ==
  LET n == Len(history)
      Fits(dropped) == Total(SubSeq(history, dropped + 1, n)) <= ChatChars
      first == IF n > ChatMessages THEN n - ChatMessages ELSE 0
      drops == {d \in first .. n : (d - first) % 2 = 0 /\ Fits(d)}
  IN  Whole(history, Min(drops) + 1, n)

----------------------------------------------------------------------------

PromptInit ==
  /\ user \in {"agent", "chat"}
  /\ messages \in IF user = "agent" THEN [1 .. Anchors -> Lengths] ELSE {<<>>}
  /\ overflow = (user = "agent" /\ TooLong(messages))
  /\ prompt = IF user = "agent" /\ ~overflow THEN Bounded(messages) ELSE <<>>

\* A step of an agent: its last decision and what came of it (a tool's result, a
\* worker's output, a request to correct it), and the prompt for the next decision.
AgentContinues(new) ==
  /\ user = "agent" /\ ~overflow
  /\ Len(messages) + Len(new) <= MaxMessages
  /\ messages' = messages \o new
  /\ overflow' = TooLong(messages')
  /\ prompt' = IF TooLong(messages') THEN prompt ELSE Bounded(messages')
  /\ UNCHANGED user

\* A turn of a conversation, with the answer or the failure that is stored of it.
Exchange(asked, answer) ==
  /\ user = "chat"
  /\ Len(messages) + 2 <= MaxMessages
  /\ messages' = messages \o <<asked, answer>>
  /\ UNCHANGED <<user, overflow>>

\* The model is asked the user's message after the earlier exchanges that are shown.
ChatContinues(asked, answer) ==
  /\ Exchange(asked, answer)
  /\ prompt' = Append(Recent(messages), Part(Len(messages) + 1, asked))

\* The turn takes another path, or its answer is a name that is known.
AnsweredElsewhere(asked, answer) ==
  /\ Exchange(asked, answer)
  /\ UNCHANGED prompt

PromptNext ==
  \/ \E new \in SeqOf(Lengths, 2) : new # <<>> /\ AgentContinues(new)
  \/ \E asked, answer \in Lengths : ChatContinues(asked, answer)
  \/ \E asked, answer \in Lengths : AnsweredElsewhere(asked, answer)

PromptSpec == PromptInit /\ [][PromptNext]_promptVars

----------------------------------------------------------------------------

\* README (context management): an agent's prompt stays within its limit, the first
\* request and the newest message are kept, and only the newest can be shown in part.
\* Between them no message is missing that a later one could be misread without.
AgentPrompt ==
  user = "agent" /\ ~overflow =>
    LET n == Len(messages)
    IN
    /\ Chars(prompt) <= PromptChars
    /\ SubSeq(prompt, 1, Anchors) = Whole(messages, 1, Anchors)
    /\ Last(prompt).nr = n
    /\ \A k \in Anchors + 2 .. Len(prompt) : prompt[k].nr = prompt[k - 1].nr + 1
    /\ \A k \in DOMAIN prompt :
         \/ prompt[k].chars = messages[prompt[k].nr]
         \/ k = Len(prompt) /\ k = Anchors + 1 /\ prompt[k].chars < messages[n]

\* A chat's prompt is the message asked, whole, after as many of the last exchanges
\* as are short enough: each with its question and its answer.
ChatPrompt ==
  user = "chat" /\ prompt # <<>> =>
    LET earlier == Front(prompt)
        n == Last(prompt).nr - 1
    IN
    /\ Last(prompt).chars = messages[n + 1]
    /\ Chars(earlier) <= ChatChars /\ Len(earlier) <= ChatMessages
    /\ earlier = Whole(messages, n + 1 - Len(earlier), n)
    /\ Len(earlier) % 2 = 0
    /\ Len(earlier) = n \/ Len(earlier) = ChatMessages
       \/ Chars(Whole(messages, n - 1 - Len(earlier), n)) > ChatChars

PromptFits == AgentPrompt /\ ChatPrompt

\* The messages of a prompt, and those of them that are in it whole.
Shown(parts) == {part.nr : part \in Range(parts)}
ShownWhole(parts, ms) == {part.nr : part \in {p \in Range(parts) : p.chars = ms[p.nr]}}

\* What was left out of a prompt, or was cut, is in no later one: whatever comes and
\* goes after it, the model never sees an old result again that it went on without.
ForgottenForGood ==
  [][\A i \in DOMAIN messages :
       /\ i \notin ShownWhole(prompt, messages)
       /\ user = "agent" \/ (prompt # <<>> /\ i < Last(prompt).nr)
       => i \notin Shown(prompt')]_promptVars
=============================================================================
