--------------------------- MODULE SingleAgentProofs ---------------------------
(***************************************************************************)
(* Proofs about SingleAgent: the limits hold with the agent's own calls    *)
(* included, a search that succeeded is not made again, and answers rest   *)
(* on what the calls brought, for any limits and queries.                  *)
(***************************************************************************)
EXTENDS SingleAgent, FiniteSetTheorems, TLAPS

Argument == Queries \cup {"other"}
Record == [tool : Tools, arg : Argument, result : Results, own : BOOLEAN]

\* The steps of Next, one by one.
LEMMA StepCases ==
  ASSUME [Next]_vars
  PROVE  \/ OutputInvalid
         \/ OutputStaysInvalid
         \/ ModelFails
         \/ FinalAnswer
         \/ AnswerRefused
         \/ OutOfCalls
         \/ NoTitle
         \/ \E q \in Queries : SearchRepeated(q)
         \/ \E tool \in Allowed \cup {"unlisted"} : \E arg \in Arguments(tool) :
              UseTool(tool, arg)
         \/ ApprovalRefused
         \/ \E result \in ResultsOf(call.tool) : ToolReturns(result)
         \/ \E result \in ResultsOf(call.tool) : ErrorRepeated(result)
         \/ \E result \in ResultsOf(call.tool) : LookupFailed(result)
         \/ \E result \in ResultsOf(call.tool) : SearchedAgain(result)
         \/ \E result \in ResultsOf(call.tool) : WebSearched(result)
         \/ SearchedInVain
         \/ UNCHANGED vars
  BY DEF Next, Decide, Execute

\* What is called is a tool with an argument of its kind, and what it returns a
\* result.
LEMMA CallTypes ==
  /\ Allowed \subseteq Tools
  /\ \A tool \in Allowed \cup {"unlisted"} : Arguments(tool) \subseteq Argument
  /\ \A tool : ResultsOf(tool) \subseteq Results
PROOF
  <1>1. Allowed \subseteq Tools
    BY DEF Allowed, Tools, PublicTools
  <1>2. \A tool : Arguments(tool) \subseteq Argument
    BY DEF Arguments, Argument
  <1>3. ASSUME NEW tool PROVE ResultsOf(tool) \subseteq Results
    BY DEF ResultsOf, Results, Errors
  <1>4. QED
    BY <1>1, <1>2, <1>3

\* A recorded call comes after the others, which stay as they are.
LEMMA RecordedFacts ==
  ASSUME TypeOK, call # NoCall, NEW result \in Results, NEW own \in BOOLEAN,
         calls' = Recorded(result, own)
  PROVE  /\ calls' \in Seq(Record)
         /\ Len(calls) \in Nat /\ Len(calls') = Len(calls) + 1
         /\ \A i \in 1 .. Len(calls) : calls'[i] = calls[i]
         /\ calls'[Len(calls) + 1] =
              [tool |-> call.tool, arg |-> call.arg, result |-> result, own |-> own]
PROOF
  <1> DEFINE new == [tool |-> call.tool, arg |-> call.arg, result |-> result, own |-> own]
  <1>1. new \in Record
    BY DEF TypeOK, Record, Argument
  <1>2. calls \in Seq(Record)
    BY DEF TypeOK, Record, Argument
  <1>3. calls' = Append(calls, new)
    BY DEF Recorded
  <1> HIDE DEF new
  <1>4. /\ Append(calls, new) \in Seq(Record)
        /\ Len(Append(calls, new)) = Len(calls) + 1
        /\ \A i \in 1 .. Len(calls) : Append(calls, new)[i] = calls[i]
        /\ Append(calls, new)[Len(calls) + 1] = new
    BY <1>1, <1>2
  <1>5. Len(calls) \in Nat
    BY <1>2
  <1>6. QED
    BY <1>3, <1>4, <1>5 DEF new

\* The invariant holds from the start.
LEMMA InitInv == Init => AgentInv
PROOF
  <1> SUFFICES ASSUME Init PROVE AgentInv
    OBVIOUS
  <1>1. TypeOK
    <2>1. web \in BOOLEAN /\ ask \subseteq {"public", "json", "title", "word"}
      BY DEF Init, Looked
    <2>2. calls \in Seq([tool : Tools, arg : Queries \cup {"other"}, result : Results,
                         own : BOOLEAN])
      BY DEF Init
    <2>3. errors \in [Errors -> Nat] /\ repeats \in [Queries -> Nat]
      BY DEF Init
    <2>4. QED
      BY <2>1, <2>2, <2>3 DEF Init, TypeOK
  <1>2. CallConsistent
    BY DEF Init, CallConsistent
  <1>3. LimitsKept
    BY AgentLimitsAssumption DEF Init, LimitsKept
  <1>4. SearchedOnce /\ AnswersRest
    BY DEF Init, SearchedOnce, AnswersRest
  <1>5. QED
    BY <1>1, <1>2, <1>3, <1>4 DEF AgentInv

\* Going on or ending keeps the types and the limits on steps and retries.
LEMMA GoesOnFacts ==
  ASSUME TypeOK, LimitsKept, outcome = "none", GoesOn
  PROVE  /\ pc' \in {"decide", "ended"}
         /\ step' \in Nat /\ step' <= MaxSteps
         /\ tries' \in Nat /\ tries' <= MaxJsonRetries
         /\ pc' = "decide" => outcome' = "none"
         /\ outcome' # "none" => outcome' = "steps" /\ step' = MaxSteps
  BY AgentLimitsAssumption DEF TypeOK, LimitsKept, GoesOn, Ends

\* Every variable keeps its type.
LEMMA TypePreserved ==
  ASSUME AgentInv, [Next]_vars
  PROVE  TypeOK'
PROOF
  <1> USE DEF AgentInv, TypeOK, request, counters
  <1>0. pc \in {"decide", "execute", "again", "web"} => outcome = "none"
    BY DEF CallConsistent
  <1>1. CASE OutputInvalid
    BY <1>1 DEF OutputInvalid
  <1>2. CASE OutputStaysInvalid
    BY <1>2 DEF OutputStaysInvalid, Ends
  <1>3. CASE ModelFails
    BY <1>3 DEF ModelFails, Ends
  <1>4. CASE FinalAnswer
    BY <1>4 DEF FinalAnswer, Ends
  <1>5. CASE AnswerRefused
    BY <1>0, <1>5, GoesOnFacts DEF AnswerRefused
  <1>6. CASE OutOfCalls
    BY <1>6 DEF OutOfCalls, Ends
  <1>7. CASE NoTitle
    BY <1>0, <1>7, GoesOnFacts DEF NoTitle, Ends
  <1>8. ASSUME NEW q \in Queries, SearchRepeated(q) PROVE TypeOK'
    <2>1. repeats' \in [Queries -> Nat]
      BY <1>8 DEF SearchRepeated
    <2>2. QED
      BY <1>0, <1>8, <2>1, GoesOnFacts DEF SearchRepeated, Ends
  <1>9. ASSUME NEW tool \in Allowed \cup {"unlisted"}, NEW arg \in Arguments(tool),
               UseTool(tool, arg)
        PROVE  TypeOK'
    <2>1. tool \in Tools /\ arg \in Argument
      BY CallTypes DEF Tools
    <2>2. QED
      BY <1>9, <2>1 DEF UseTool, Argument
  <1>10. CASE ApprovalRefused
    BY <1>10 DEF ApprovalRefused, Ends
  <1>11. ASSUME NEW result \in ResultsOf(call.tool), ToolReturns(result) PROVE TypeOK'
    <2>1. calls' \in Seq(Record)
      BY <1>11, CallTypes, RecordedFacts DEF ToolReturns, CallConsistent
    <2>2. errors' \in [Errors -> Nat]
      BY <1>11 DEF ToolReturns
    <2>3. QED
      BY <1>0, <1>11, <2>1, <2>2, GoesOnFacts DEF ToolReturns, Record, Argument
  <1>12. ASSUME NEW result \in ResultsOf(call.tool), ErrorRepeated(result) PROVE TypeOK'
    <2>1. calls' \in Seq(Record)
      BY <1>12, CallTypes, RecordedFacts DEF ErrorRepeated, CallConsistent
    <2>2. errors' \in [Errors -> Nat]
      BY <1>12 DEF ErrorRepeated
    <2>3. QED
      BY <1>12, <2>1, <2>2 DEF ErrorRepeated, Ends, Record, Argument
  <1>13. ASSUME NEW result \in ResultsOf(call.tool), LookupFailed(result) PROVE TypeOK'
    <2>1. calls' \in Seq(Record)
      BY <1>13, CallTypes, RecordedFacts DEF LookupFailed, CallConsistent
    <2>2. call' \in [tool : Tools, arg : Queries \cup {"other"}] \cup {NoCall}
      BY <1>13 DEF LookupFailed, CallConsistent, Tools, PublicTools
    <2>3. QED
      BY <1>13, <2>1, <2>2 DEF LookupFailed, Ends, Record, Argument
  <1>14. ASSUME NEW result \in ResultsOf(call.tool), SearchedAgain(result) PROVE TypeOK'
    <2>1. calls' \in Seq(Record)
      BY <1>14, CallTypes, RecordedFacts DEF SearchedAgain, CallConsistent
    <2>2. QED
      BY <1>0, <1>14, <2>1, GoesOnFacts DEF SearchedAgain, Record, Argument
  <1>15. ASSUME NEW result \in ResultsOf(call.tool), WebSearched(result) PROVE TypeOK'
    <2>1. calls' \in Seq(Record)
      BY <1>15, CallTypes, RecordedFacts DEF WebSearched, CallConsistent
    <2>2. QED
      BY <1>15, <2>1 DEF WebSearched, Ends, Record, Argument
  <1>16. CASE SearchedInVain
    <2>1. calls' \in Seq(Record)
      BY <1>16, RecordedFacts DEF SearchedInVain, CallConsistent, Results
    <2>2. QED
      BY <1>16, <2>1 DEF SearchedInVain, Record, Argument
  <1>17. CASE UNCHANGED vars
    BY <1>17 DEF vars
  <1>18. QED
    BY <1>1, <1>2, <1>3, <1>4, <1>5, <1>6, <1>7, <1>8, <1>9, <1>10, <1>11, <1>12,
       <1>13, <1>14, <1>15, <1>16, <1>17, StepCases

\* The limits on steps, retries and calls hold in every step.
LEMMA LimitsPreserved ==
  ASSUME AgentInv, [Next]_vars
  PROVE  LimitsKept'
PROOF
  <1>0. /\ TypeOK /\ LimitsKept
        /\ pc \in {"decide", "execute", "again", "web"} => outcome = "none"
        /\ pc \in {"execute", "again", "web"} => call # NoCall /\ Len(calls) < MaxToolCalls
        /\ step \in Nat /\ tries \in Nat /\ Len(calls) \in Nat
    BY DEF AgentInv, CallConsistent, TypeOK
  <1> USE <1>0, AgentLimitsAssumption DEF LimitsKept, request, counters
  <1>1. CASE OutputInvalid
    BY <1>1 DEF OutputInvalid
  <1>2. CASE OutputStaysInvalid
    BY <1>2 DEF OutputStaysInvalid, Ends
  <1>3. CASE ModelFails
    BY <1>3 DEF ModelFails, Ends
  <1>4. CASE FinalAnswer
    BY <1>4 DEF FinalAnswer, Ends
  <1>5. CASE AnswerRefused
    BY <1>5, GoesOnFacts DEF AnswerRefused
  <1>6. CASE OutOfCalls
    BY <1>6 DEF OutOfCalls, Ends
  <1>7. CASE NoTitle
    BY <1>7, GoesOnFacts DEF NoTitle, Ends
  <1>8. ASSUME NEW q \in Queries, SearchRepeated(q) PROVE LimitsKept'
    BY <1>8, GoesOnFacts DEF SearchRepeated, Ends
  <1>9. ASSUME NEW tool, NEW arg, UseTool(tool, arg) PROVE LimitsKept'
    BY <1>9 DEF UseTool
  <1>10. CASE ApprovalRefused
    BY <1>10 DEF ApprovalRefused, Ends
  <1>11. ASSUME NEW result \in ResultsOf(call.tool), ToolReturns(result) PROVE LimitsKept'
    <2>1. Len(calls) \in Nat /\ Len(calls') = Len(calls) + 1
      BY <1>11, CallTypes, RecordedFacts DEF ToolReturns
    <2>2. Len(calls) + 1 <= MaxToolCalls
      BY <1>11 DEF ToolReturns
    <2>3. QED
      BY <1>11, <2>1, <2>2, GoesOnFacts DEF ToolReturns
  <1>12. ASSUME NEW result \in ResultsOf(call.tool), ErrorRepeated(result) PROVE LimitsKept'
    <2>1. Len(calls) \in Nat /\ Len(calls') = Len(calls) + 1
      BY <1>12, CallTypes, RecordedFacts DEF ErrorRepeated
    <2>2. Len(calls) + 1 <= MaxToolCalls
      BY <1>12 DEF ErrorRepeated
    <2>3. QED
      BY <1>12, <2>1, <2>2 DEF ErrorRepeated, Ends
  <1>13. ASSUME NEW result \in ResultsOf(call.tool), LookupFailed(result) PROVE LimitsKept'
    <2>1. Len(calls) \in Nat /\ Len(calls') = Len(calls) + 1
      BY <1>13, CallTypes, RecordedFacts DEF LookupFailed
    <2>2. Len(calls) + 1 <= MaxToolCalls
      <3>1. pc = "execute"
        BY <1>13 DEF LookupFailed
      <3>2. QED
        BY <3>1
    <2>3. QED
      BY <1>13, <2>1, <2>2 DEF LookupFailed, Ends
  <1>14. ASSUME NEW result \in ResultsOf(call.tool), SearchedAgain(result) PROVE LimitsKept'
    <2>1. Len(calls) \in Nat /\ Len(calls') = Len(calls) + 1
      BY <1>14, CallTypes, RecordedFacts DEF SearchedAgain
    <2>2. Len(calls) + 1 <= MaxToolCalls
      BY <1>14 DEF SearchedAgain
    <2>3. QED
      BY <1>14, <2>1, <2>2, GoesOnFacts DEF SearchedAgain
  <1>15. ASSUME NEW result \in ResultsOf(call.tool), WebSearched(result) PROVE LimitsKept'
    <2>1. Len(calls) \in Nat /\ Len(calls') = Len(calls) + 1
      BY <1>15, CallTypes, RecordedFacts DEF WebSearched
    <2>2. Len(calls) + 1 <= MaxToolCalls
      BY <1>15 DEF WebSearched
    <2>3. QED
      BY <1>15, <2>1, <2>2 DEF WebSearched, Ends
  <1>16. CASE SearchedInVain
    <2>1. Len(calls) \in Nat /\ Len(calls') = Len(calls) + 1
      BY <1>16, RecordedFacts DEF SearchedInVain, Results
    <2>2. Len(calls) + 1 <= MaxToolCalls
      BY <1>16 DEF SearchedInVain
    <2>3. QED
      BY <1>16, <2>1, <2>2 DEF SearchedInVain
  <1>17. CASE UNCHANGED vars
    BY <1>17 DEF vars
  <1>18. QED
    BY <1>1, <1>2, <1>3, <1>4, <1>5, <1>6, <1>7, <1>8, <1>9, <1>10, <1>11, <1>12,
       <1>13, <1>14, <1>15, <1>16, <1>17, StepCases

\* The call under way stays one that may be made, with room for its record.
LEMMA CallPreserved ==
  ASSUME AgentInv, [Next]_vars
  PROVE  CallConsistent'
PROOF
  <1> USE DEF AgentInv, CallConsistent, request, counters, NoCall, Found
  <1>1. CASE OutputInvalid
    BY <1>1 DEF OutputInvalid
  <1>2. CASE OutputStaysInvalid
    BY <1>2 DEF OutputStaysInvalid, Ends
  <1>3. CASE ModelFails
    BY <1>3 DEF ModelFails, Ends
  <1>4. CASE FinalAnswer
    BY <1>4 DEF FinalAnswer, Ends
  <1>5. CASE AnswerRefused
    BY <1>5, GoesOnFacts DEF AnswerRefused
  <1>6. CASE OutOfCalls
    BY <1>6 DEF OutOfCalls, Ends
  <1>7. CASE NoTitle
    BY <1>7, GoesOnFacts DEF NoTitle, Ends
  <1>8. ASSUME NEW q \in Queries, SearchRepeated(q) PROVE CallConsistent'
    BY <1>8, GoesOnFacts DEF SearchRepeated, Ends
  <1>9. ASSUME NEW tool \in Allowed \cup {"unlisted"}, NEW arg \in Arguments(tool),
               UseTool(tool, arg)
        PROVE  CallConsistent'
    BY <1>9 DEF UseTool, Allowed, PublicTools
  <1>10. CASE ApprovalRefused
    BY <1>10 DEF ApprovalRefused, Ends
  <1>11. ASSUME NEW result \in ResultsOf(call.tool), ToolReturns(result)
         PROVE  CallConsistent'
    BY <1>11, GoesOnFacts DEF ToolReturns
  <1>12. ASSUME NEW result \in ResultsOf(call.tool), ErrorRepeated(result)
         PROVE  CallConsistent'
    BY <1>12 DEF ErrorRepeated, Ends
  <1>13. ASSUME NEW result \in ResultsOf(call.tool), LookupFailed(result)
         PROVE  CallConsistent'
    <2>1. /\ Len(calls) \in Nat /\ Len(calls') = Len(calls) + 1
          /\ calls'[Len(calls) + 1] =
               [tool |-> call.tool, arg |-> call.arg, result |-> result, own |-> FALSE]
      BY <1>13, CallTypes, RecordedFacts DEF LookupFailed
    <2>2. /\ calls'[Len(calls')].tool = "wikipedia_lookup"
          /\ calls'[Len(calls')].result # "ok"
      <3>1. call.tool = "wikipedia_lookup" /\ result # "ok"
        BY <1>13 DEF LookupFailed, FallsBack
      <3>2. QED
        BY <2>1, <3>1
    <2>3. Len(calls') \in 1 .. Len(calls')
      BY <2>1 DEF TypeOK
    <2>4. CASE pc' = "web"
      <3>1. call' = [call EXCEPT !.tool = "web_search"] /\ outcome' = "none"
            /\ Len(calls) + 1 < MaxToolCalls
        BY <1>13, <2>4 DEF LookupFailed, Ends
      <3>2. call \in [tool : Tools, arg : Queries \cup {"other"}]
        BY <1>13 DEF LookupFailed, TypeOK
      <3>3. call'.tool = "web_search"
        BY <3>1, <3>2
      <3>4. QED
        BY <2>1, <2>2, <2>3, <2>4, <3>1, <3>3
    <2>5. CASE pc' = "ended"
      BY <2>5
    <2>6. QED
      BY <1>13, <2>4, <2>5 DEF LookupFailed, Ends
  <1>14. ASSUME NEW result \in ResultsOf(call.tool), SearchedAgain(result)
         PROVE  CallConsistent'
    BY <1>14, GoesOnFacts DEF SearchedAgain
  <1>15. ASSUME NEW result \in ResultsOf(call.tool), WebSearched(result)
         PROVE  CallConsistent'
    BY <1>15 DEF WebSearched, Ends
  <1>16. CASE SearchedInVain
    <2>1. Len(calls) \in Nat /\ Len(calls') = Len(calls) + 1
      BY <1>16, RecordedFacts DEF SearchedInVain, Results
    <2>2. QED
      BY <1>16, <2>1 DEF SearchedInVain, TypeOK
  <1>17. CASE UNCHANGED vars
    BY <1>17 DEF vars
  <1>18. QED
    BY <1>1, <1>2, <1>3, <1>4, <1>5, <1>6, <1>7, <1>8, <1>9, <1>10, <1>11, <1>12,
       <1>13, <1>14, <1>15, <1>16, <1>17, StepCases

\* A recorded call keeps SearchedOnce if it is no search that was found before, or
\* the agent's own and last one.
LEMMA OncePreservedByRecord ==
  ASSUME AgentInv, call # NoCall, pc # "ended", NEW result \in Results, NEW own \in BOOLEAN,
         calls' = Recorded(result, own),
         \/ call.tool = "web_search" => ~Found(call.arg)
         \/ own /\ pc' = "ended"
  PROVE  SearchedOnce'
PROOF
  <1>1. /\ Len(calls) \in Nat /\ Len(calls') = Len(calls) + 1
        /\ \A i \in 1 .. Len(calls) : calls'[i] = calls[i]
        /\ calls'[Len(calls) + 1] =
             [tool |-> call.tool, arg |-> call.arg, result |-> result, own |-> own]
    BY RecordedFacts DEF AgentInv
  <1> SUFFICES ASSUME NEW i \in 1 .. Len(calls'), NEW j \in 1 .. Len(calls'),
                      i < j,
                      calls'[i].tool = "web_search", calls'[i].result = "ok",
                      calls'[j].tool = "web_search", calls'[j].arg = calls'[i].arg
               PROVE  calls'[j].own /\ j = Len(calls') /\ pc' = "ended"
    BY DEF SearchedOnce
  <1>2. i \in 1 .. Len(calls) /\ calls'[i] = calls[i]
    BY <1>1
  <1>3. CASE j = Len(calls) + 1
    <2>1. call.tool = "web_search" /\ Found(call.arg)
      BY <1>1, <1>2, <1>3 DEF Found
    <2>2. own /\ pc' = "ended"
      BY <2>1
    <2>3. calls'[j].own = own /\ j = Len(calls')
      BY <1>1, <1>3
    <2>4. QED
      BY <2>2, <2>3
  <1>4. CASE j # Len(calls) + 1
    <2>1. j \in 1 .. Len(calls) /\ calls'[j] = calls[j]
      BY <1>1, <1>4
    <2>2. pc = "ended"
      BY <1>2, <2>1 DEF AgentInv, SearchedOnce
    <2>3. QED
      BY <2>2
  <1>5. QED
    BY <1>3, <1>4

\* A web search that brought results is not made again.
LEMMA OncePreserved ==
  ASSUME AgentInv, [Next]_vars
  PROVE  SearchedOnce'
PROOF
  <1> USE DEF request, counters
  <1>1. /\ SearchedOnce
        /\ pc \in {"execute", "again", "web"} => call # NoCall
        /\ pc = "execute" /\ call.tool = "web_search" => ~Found(call.arg)
        /\ pc = "again" => call.tool = "search"
    BY DEF AgentInv, CallConsistent
  <1>2. ASSUME calls' = calls, pc' = pc \/ pc # "ended" PROVE SearchedOnce'
    BY <1>1, <1>2 DEF SearchedOnce
  <1>3. ASSUME OutputInvalid \/ OutputStaysInvalid \/ ModelFails \/ FinalAnswer
               \/ AnswerRefused \/ OutOfCalls \/ NoTitle \/ ApprovalRefused
        PROVE  SearchedOnce'
    BY <1>2, <1>3
       DEF OutputInvalid, OutputStaysInvalid, ModelFails, FinalAnswer, AnswerRefused,
           OutOfCalls, NoTitle, ApprovalRefused
  <1>4. ASSUME NEW q \in Queries, SearchRepeated(q) PROVE SearchedOnce'
    BY <1>2, <1>4 DEF SearchRepeated
  <1>5. ASSUME NEW tool, NEW arg, UseTool(tool, arg) PROVE SearchedOnce'
    BY <1>2, <1>5 DEF UseTool
  <1>6. ASSUME NEW result \in ResultsOf(call.tool),
               ToolReturns(result) \/ ErrorRepeated(result)
        PROVE  SearchedOnce'
    BY <1>1, <1>6, CallTypes, OncePreservedByRecord DEF ToolReturns, ErrorRepeated
  <1>7. ASSUME NEW result \in ResultsOf(call.tool), LookupFailed(result)
        PROVE  SearchedOnce'
    BY <1>1, <1>7, CallTypes, OncePreservedByRecord DEF LookupFailed
  <1>8. ASSUME NEW result \in ResultsOf(call.tool), SearchedAgain(result)
        PROVE  SearchedOnce'
    BY <1>1, <1>8, CallTypes, OncePreservedByRecord DEF SearchedAgain
  <1>9. ASSUME NEW result \in ResultsOf(call.tool), WebSearched(result)
        PROVE  SearchedOnce'
    BY <1>1, <1>9, CallTypes, OncePreservedByRecord DEF WebSearched, Ends
  <1>10. CASE SearchedInVain
    BY <1>1, <1>10, OncePreservedByRecord DEF SearchedInVain, Results
  <1>11. CASE UNCHANGED vars
    BY <1>2, <1>11 DEF vars
  <1>12. QED
    BY <1>3, <1>4, <1>5, <1>6, <1>7, <1>8, <1>9, <1>10, <1>11, StepCases

\* What the answers rest on is never taken back, and an answer is given only
\* when it is there.
LEMMA AnswersPreserved ==
  ASSUME AgentInv, [Next]_vars
  PROVE  AnswersRest'
PROOF
  <1> USE DEF request, counters
  <1>1. /\ TypeOK /\ LimitsKept /\ AnswersRest
        /\ pc \in {"decide", "execute", "again", "web"} => outcome = "none"
        /\ pc \in {"execute", "again", "web"} => call # NoCall
        /\ pc = "web" =>
             \E i \in 1 .. Len(calls) : /\ calls[i].tool = "wikipedia_lookup"
                                        /\ calls[i].result # "ok"
    BY DEF AgentInv, CallConsistent
  <1>2. ASSUME outcome' \in {"none", "steps", "calls", "repeated", "raised", "no_title"}
        PROVE  AnswersRest'
    BY <1>2 DEF AnswersRest
  <1>3. CASE OutputInvalid
    BY <1>1, <1>2, <1>3 DEF OutputInvalid
  <1>4. CASE OutputStaysInvalid
    BY <1>4 DEF OutputStaysInvalid, Ends, AnswersRest, Succeeded
  <1>5. CASE ModelFails \/ OutOfCalls \/ ApprovalRefused
    BY <1>2, <1>5 DEF ModelFails, OutOfCalls, ApprovalRefused, Ends
  <1>6. CASE FinalAnswer
    BY <1>6 DEF FinalAnswer, Ends, AnswersRest, Evidence, Unsearched, Untested, Unread,
                Succeeded
  <1>7. CASE AnswerRefused
    BY <1>1, <1>2, <1>7, GoesOnFacts DEF AnswerRefused
  <1>8. CASE NoTitle
    BY <1>1, <1>2, <1>8, GoesOnFacts DEF NoTitle, Ends
  <1>9. ASSUME NEW q \in Queries, SearchRepeated(q) PROVE AnswersRest'
    <2>1. CASE repeats[q] = 0
      BY <1>1, <1>2, <1>9, <2>1, GoesOnFacts DEF SearchRepeated
    <2>2. CASE repeats[q] # 0
      BY <1>9, <2>2 DEF SearchRepeated, Ends, AnswersRest, Found, Succeeded
    <2>3. QED
      BY <2>1, <2>2
  <1>10. ASSUME NEW tool, NEW arg, UseTool(tool, arg) PROVE AnswersRest'
    BY <1>1, <1>2, <1>10 DEF UseTool
  <1>11. ASSUME NEW result \in ResultsOf(call.tool),
                ToolReturns(result) \/ SearchedAgain(result)
         PROVE  AnswersRest'
    BY <1>1, <1>2, <1>11, GoesOnFacts DEF ToolReturns, SearchedAgain
  <1>12. ASSUME NEW result \in ResultsOf(call.tool), ErrorRepeated(result)
         PROVE  AnswersRest'
    BY <1>2, <1>12 DEF ErrorRepeated, Ends
  <1>13. ASSUME NEW result \in ResultsOf(call.tool), LookupFailed(result)
         PROVE  AnswersRest'
    <2>1. CASE pc' = "web"
      BY <1>1, <1>2, <1>13, <2>1 DEF LookupFailed, Ends
    <2>2. CASE pc' # "web"
      <3>1. /\ Len(calls) \in Nat /\ Len(calls') = Len(calls) + 1
            /\ calls'[Len(calls) + 1] =
                 [tool |-> call.tool, arg |-> call.arg, result |-> result, own |-> FALSE]
        BY <1>1, <1>13, CallTypes, RecordedFacts DEF LookupFailed
      <3>2. call.tool = "wikipedia_lookup" /\ result # "ok" /\ outcome' = "no_source"
        BY <1>13, <2>2 DEF LookupFailed, FallsBack, Ends
      <3>3. Len(calls') \in 1 .. Len(calls')
        BY <3>1
      <3>4. QED
        BY <3>1, <3>2, <3>3 DEF AnswersRest
    <2>3. QED
      BY <2>1, <2>2
  <1>14. ASSUME NEW result \in ResultsOf(call.tool), WebSearched(result)
         PROVE  AnswersRest'
    <2>1. /\ Len(calls) \in Nat /\ Len(calls') = Len(calls) + 1
          /\ \A i \in 1 .. Len(calls) : calls'[i] = calls[i]
          /\ calls'[Len(calls) + 1] =
               [tool |-> call.tool, arg |-> call.arg, result |-> result, own |-> TRUE]
      BY <1>1, <1>14, CallTypes, RecordedFacts DEF WebSearched
    <2>2. CASE result = "ok"
      <3>1. Len(calls') \in 1 .. Len(calls') /\ calls'[Len(calls')].result = "ok"
        BY <2>1, <2>2
      <3>2. calls'[Len(calls')].tool = "web_search" /\ outcome' = "web"
        <4>1. pc = "web" /\ outcome' = "web"
          BY <1>14, <2>2 DEF WebSearched, Ends
        <4>2. call.tool = "web_search"
          BY <4>1 DEF AgentInv, CallConsistent
        <4>3. QED
          BY <2>1, <4>1, <4>2
      <3>3. QED
        BY <3>1, <3>2 DEF AnswersRest, Succeeded
    <2>3. CASE result # "ok"
      <3>1. outcome' = "no_source"
        BY <1>14, <2>3 DEF WebSearched, Ends
      <3>2. PICK i \in 1 .. Len(calls) : /\ calls[i].tool = "wikipedia_lookup"
                                         /\ calls[i].result # "ok"
        BY <1>1, <1>14 DEF WebSearched
      <3>3. i \in 1 .. Len(calls') /\ calls'[i] = calls[i]
        BY <2>1
      <3>4. QED
        BY <3>1, <3>2, <3>3 DEF AnswersRest
    <2>4. QED
      BY <2>2, <2>3
  <1>15. CASE SearchedInVain
    BY <1>1, <1>2, <1>15 DEF SearchedInVain
  <1>16. CASE UNCHANGED vars
    BY <1>1, <1>16 DEF vars, AnswersRest, Evidence, Unsearched, Untested, Unread, Succeeded
  <1>17. QED
    BY <1>3, <1>4, <1>5, <1>6, <1>7, <1>8, <1>9, <1>10, <1>11, <1>12, <1>13, <1>14,
       <1>15, <1>16, StepCases

----------------------------------------------------------------------------
(* Repeated errors.                                                        *)

\* The failures of a kind, by their position.
Failed(e) == {i \in 1 .. Len(calls) : calls[i].result = e /\ ~calls[i].own}

LEMMA FailuresFinite ==
  ASSUME TypeOK, NEW e
  PROVE  IsFiniteSet(Failed(e)) /\ Failures(e) = Cardinality(Failed(e)) /\ Failures(e) \in Nat
<1>1. IsFiniteSet(1 .. Len(calls))
  BY FS_Interval DEF TypeOK
<1>2. IsFiniteSet(Failed(e))
  BY <1>1, FS_Subset DEF Failed
<1>3. Failures(e) = Cardinality(Failed(e))
  BY DEF Failures, Failed
<1> QED
  BY <1>2, <1>3, FS_CardinalityType

\* A recorded call adds one to the failures of its kind, if the model asked for it.
LEMMA FailuresCounted ==
  ASSUME TypeOK, call # NoCall, NEW result \in Results, NEW own \in BOOLEAN,
         calls' = Recorded(result, own), NEW e
  PROVE  /\ Failures(e) \in Nat
         /\ result = e /\ ~own => Failures(e)' = Failures(e) + 1
         /\ result # e \/ own => Failures(e)' = Failures(e)
<1> DEFINE n == Len(calls) + 1
<1>1. /\ Len(calls) \in Nat /\ Len(calls') = n
      /\ \A i \in 1 .. Len(calls) : calls'[i] = calls[i]
      /\ calls'[n] = [tool |-> call.tool, arg |-> call.arg, result |-> result, own |-> own]
  BY RecordedFacts
<1>2. Failures(e)' = Cardinality(Failed(e)') /\ n \notin Failed(e)
  BY <1>1 DEF Failures, Failed
<1>3. 1 .. n = 1 .. Len(calls) \cup {n}
  BY <1>1
<1>4. CASE result = e /\ ~own
  <2>1. Failed(e)' = Failed(e) \cup {n}
    BY <1>1, <1>3, <1>4 DEF Failed
  <2> QED
    BY <1>2, <1>4, <2>1, FailuresFinite, FS_AddElement
<1>5. CASE result # e \/ own
  <2>1. Failed(e)' = Failed(e)
    BY <1>1, <1>3, <1>5 DEF Failed
  <2> QED
    BY <1>2, <1>5, <2>1, FailuresFinite
<1> QED
  BY <1>4, <1>5

\* errors counts the failures as long as the model is asked again; what it does not
\* count is followed by the agent's last call or none.
ErrorsCounted ==
  /\ ErrorsStop
  /\ pc \in {"decide", "execute", "again"} =>
       \A e \in Errors : Failures(e) = errors[e] /\ errors[e] < Limit(e)
  /\ outcome = "repeated" => pc = "ended"

LEMMA InitCounted == Init => ErrorsCounted
<1> SUFFICES ASSUME Init PROVE ErrorsCounted
  OBVIOUS
<1>1. ASSUME NEW e \in Errors PROVE Failures(e) = 0
  <2>1. {i \in 1 .. Len(calls) : calls[i].result = e /\ ~calls[i].own} = {}
    BY DEF Init
  <2> QED
    BY <2>1, FS_EmptySet DEF Failures
<1>2. \A e \in Errors : Limit(e) > 0 /\ Limit(e) \in Nat
  BY DEF Limit
<1> QED
  BY <1>1, <1>2 DEF Init, ErrorsCounted, ErrorsStop

\* A step that records nothing and does not end the run for an error.
LEMMA CountedUnlessRecorded ==
  ASSUME ErrorsCounted, UNCHANGED <<calls, errors>>,
         pc \in {"decide", "execute"} \/ UNCHANGED <<pc, outcome>>,
         outcome' # "repeated" \/ UNCHANGED <<pc, outcome>>
  PROVE  ErrorsCounted'
<1>1. \A e : Failures(e)' = Failures(e)
  BY DEF Failures
<1>2. \A e \in Errors : Limit(e)' = Limit(e) /\ Limit(e) \in Nat
  BY DEF Limit
<1> QED
  BY <1>1, <1>2 DEF ErrorsCounted, ErrorsStop

LEMMA CountedPreserved ==
  ASSUME AgentInv, ErrorsCounted, [Next]_vars
  PROVE  ErrorsCounted'
<1>1. /\ TypeOK
      /\ outcome = "none" \/ pc \notin {"decide", "execute", "again", "web"}
      /\ pc \in {"execute", "again", "web"} => call # NoCall
  BY DEF AgentInv, CallConsistent
<1>2. /\ TypeOK /\ \A result \in ResultsOf(call.tool) : result \in Results
      /\ errors \in [Errors -> Nat]
  BY CallTypes DEF AgentInv, TypeOK
<1>3. \A e \in Errors : Limit(e)' = Limit(e) /\ Limit(e) \in Nat /\ Limit(e) > 0
  BY DEF Limit
<1>4. GoesOn /\ outcome = "none" => outcome' # "repeated" /\ pc' \in {"decide", "ended"}
  BY DEF GoesOn, Ends
<1>5. CASE \/ OutputInvalid \/ OutputStaysInvalid \/ ModelFails \/ FinalAnswer
           \/ AnswerRefused \/ OutOfCalls \/ NoTitle \/ ApprovalRefused
  BY <1>1, <1>4, <1>5, CountedUnlessRecorded
     DEF OutputInvalid, OutputStaysInvalid, ModelFails, FinalAnswer, AnswerRefused,
         OutOfCalls, NoTitle, ApprovalRefused, Ends, counters
<1>6. ASSUME NEW q \in Queries, SearchRepeated(q) PROVE ErrorsCounted'
  BY <1>1, <1>4, <1>6, CountedUnlessRecorded DEF SearchRepeated, Ends
<1>7. ASSUME NEW tool, NEW arg, UseTool(tool, arg) PROVE ErrorsCounted'
  BY <1>1, <1>7, CountedUnlessRecorded DEF UseTool, counters
<1>8. CASE UNCHANGED vars
  BY <1>8, CountedUnlessRecorded DEF vars, counters
<1>9. ASSUME NEW result \in ResultsOf(call.tool), ToolReturns(result) PROVE ErrorsCounted'
  <2>1. result \in Results /\ call # NoCall /\ calls' = Recorded(result, FALSE)
        /\ outcome' # "repeated" /\ pc' \in {"decide", "ended"} /\ pc = "execute"
    BY <1>1, <1>2, <1>4, <1>9 DEF ToolReturns
  <2>2. ASSUME NEW e \in Errors
        PROVE  Failures(e)' = errors'[e] /\ errors'[e] < Limit(e)
    <3>1. Failures(e) = errors[e] /\ errors[e] < Limit(e) /\ errors[e] \in Nat
      BY <1>2, <2>1 DEF ErrorsCounted
    <3>2. CASE result = e
      BY <1>2, <1>9, <2>1, <3>1, <3>2, FailuresCounted DEF ToolReturns
    <3>3. CASE result # e
      BY <1>2, <1>9, <2>1, <3>1, <3>3, FailuresCounted DEF ToolReturns
    <3> QED
      BY <3>2, <3>3
  <2>3. \A e \in Errors : errors'[e] \in Nat
    BY <1>2, <1>9 DEF ToolReturns
  <2> QED
    BY <1>3, <2>1, <2>2, <2>3 DEF ErrorsCounted, ErrorsStop
<1>10. ASSUME NEW result \in ResultsOf(call.tool), ErrorRepeated(result)
       PROVE  ErrorsCounted'
  <2>1. /\ result \in Errors /\ result \in Results /\ call # NoCall
        /\ calls' = Recorded(result, FALSE)
        /\ pc = "execute" /\ pc' = "ended" /\ errors[result] + 1 >= Limit(result)
    BY <1>1, <1>2, <1>10 DEF ErrorRepeated, Ends
  <2>2. \A e \in Errors : Failures(e) = errors[e] /\ errors[e] < Limit(e) /\ errors[e] \in Nat
    BY <1>2, <2>1 DEF ErrorsCounted
  <2>3. Failures(result)' = errors[result] + 1
    BY <1>2, <2>1, <2>2, FailuresCounted
  <2>4. \A e \in Errors \ {result} : Failures(e)' = errors[e]
    BY <1>2, <2>1, <2>2, FailuresCounted
  <2> QED
    BY <1>3, <2>1, <2>2, <2>3, <2>4 DEF ErrorsCounted, ErrorsStop
<1>11. ASSUME NEW result \in ResultsOf(call.tool), LookupFailed(result)
       PROVE  ErrorsCounted'
  <2>1. /\ result \in Results /\ call # NoCall
        /\ calls' = Recorded(result, FALSE)
        /\ pc = "execute" /\ pc' \in {"ended", "web"} /\ outcome' # "repeated"
    BY <1>1, <1>2, <1>11 DEF LookupFailed, Ends
  <2>2. \A e \in Errors : Failures(e) = errors[e] /\ errors[e] < Limit(e) /\ errors[e] \in Nat
    BY <1>2, <2>1 DEF ErrorsCounted
  <2>3. \A e \in Errors : Failures(e)' \in {Failures(e), Failures(e) + 1}
    BY <1>2, <2>1, FailuresCounted
  <2> QED
    BY <1>3, <2>1, <2>2, <2>3 DEF ErrorsCounted, ErrorsStop
<1>12. ASSUME NEW result \in ResultsOf(call.tool), SearchedAgain(result)
       PROVE  ErrorsCounted'
  <2>1. /\ result \in Results /\ call # NoCall
        /\ calls' = Recorded(result, TRUE) /\ errors' = errors
        /\ pc = "again" /\ pc' \in {"decide", "ended"} /\ outcome' # "repeated"
    BY <1>1, <1>2, <1>4, <1>12 DEF SearchedAgain, counters
  <2>2. \A e \in Errors : Failures(e)' = Failures(e)
    BY <1>2, <2>1, FailuresCounted
  <2> QED
    BY <1>2, <1>3, <2>1, <2>2 DEF ErrorsCounted, ErrorsStop
<1>13. ASSUME NEW result \in ResultsOf(call.tool), WebSearched(result)
       PROVE  ErrorsCounted'
  <2>1. /\ result \in Results /\ call # NoCall
        /\ calls' = Recorded(result, TRUE)
        /\ pc = "web" /\ pc' = "ended" /\ outcome' # "repeated"
    BY <1>1, <1>2, <1>13 DEF WebSearched, Ends
  <2>2. \A e \in Errors : Failures(e)' = Failures(e)
    BY <1>2, <2>1, FailuresCounted
  <2> QED
    BY <1>3, <2>1, <2>2 DEF ErrorsCounted, ErrorsStop
<1>14. CASE SearchedInVain
  <2>1. /\ "empty" \in Results \ Errors /\ call # NoCall
        /\ calls' = Recorded("empty", FALSE) /\ errors' = errors
        /\ pc = "execute" /\ pc' = "again" /\ outcome' # "repeated"
    BY <1>1, <1>14 DEF SearchedInVain, counters, Results, Errors
  <2>2. \A e \in Errors : Failures(e)' = Failures(e)
    BY <1>2, <2>1, FailuresCounted
  <2> QED
    BY <1>3, <2>1, <2>2 DEF ErrorsCounted, ErrorsStop
<1> QED
  BY <1>5, <1>6, <1>7, <1>8, <1>9, <1>10, <1>11, <1>12, <1>13, <1>14, StepCases

----------------------------------------------------------------------------

\* The inductive invariant of the tool loop.
THEOREM AgentInvariant == Spec => []AgentInv
PROOF
  <1>1. AgentInv /\ [Next]_vars => AgentInv'
    BY TypePreserved, LimitsPreserved, CallPreserved, OncePreserved, AnswersPreserved
       DEF AgentInv
  <1>2. QED
    BY <1>1, InitInv, PTL DEF Spec

\* The limits are kept, with the calls that the agent makes on its own.
THEOREM AgentLimits == Spec => []LimitsKept
PROOF
  <1>1. AgentInv => LimitsKept
    BY DEF AgentInv
  <1>2. QED
    BY <1>1, AgentInvariant, PTL

\* A search that brought results is made again at most by a failed lookup, last.
THEOREM NoSearchTwice == Spec => []SearchedOnce
PROOF
  <1>1. AgentInv => SearchedOnce
    BY DEF AgentInv
  <1>2. QED
    BY <1>1, AgentInvariant, PTL

\* Whatever path an answer comes by, what it is expected to rest on is there.
THEOREM AnswersAreFounded == Spec => []AnswersRest
PROOF
  <1>1. AgentInv => AnswersRest
    BY DEF AgentInv
  <1>2. QED
    BY <1>1, AgentInvariant, PTL

\* Two refused permissions or three other errors of a kind stop the agent, and
\* nothing but those is called a repetition.
THEOREM RepeatedErrorsStop == Spec => []ErrorsStop
PROOF
  <1>1. AgentInv /\ ErrorsCounted /\ [Next]_vars => ErrorsCounted'
    BY CountedPreserved
  <1>2. ErrorsCounted => ErrorsStop
    BY DEF ErrorsCounted
  <1>3. QED
    BY <1>1, <1>2, InitCounted, AgentInvariant, PTL DEF Spec

----------------------------------------------------------------------------
(* The run ends.                                                           *)

\* How many steps of the coroutine are left at most: in each step of the loop the
\* decision with its retries, the call of a tool, and the agent's own call.
Remaining ==
  CASE pc = "ended" -> 0
    [] pc = "decide" -> (MaxSteps - step) * (MaxJsonRetries + 4)
                        + (MaxJsonRetries - tries) + 3
    [] pc = "execute" -> (MaxSteps - step) * (MaxJsonRetries + 4) + 2
    [] OTHER -> (MaxSteps - step) * (MaxJsonRetries + 4) + 1

\* One step of the loop less is that many steps of the coroutine less.
LEMMA OneStepLess ==
  ASSUME NEW m \in Nat, NEW s \in Nat, s < m, NEW k \in Nat
  PROVE  /\ m - s \in Nat /\ m - (s + 1) \in Nat
         /\ (m - s) * k \in Nat /\ (m - (s + 1)) * k \in Nat
         /\ (m - s) * k = (m - (s + 1)) * k + k
PROOF
  <1>1. PICK d \in Nat : d = m - (s + 1)
    OBVIOUS
  <1>2. m - s = d + 1
    BY <1>1
  <1>3. d * k \in Nat /\ (d + 1) * k \in Nat
    BY <1>1
  <1>4. (d + 1) * k = d * k + k
    BY <1>1
  <1>5. QED
    BY <1>1, <1>2, <1>3, <1>4

\* What remains is a number, and it is at least one before the end.
LEMMA RemainingCounts ==
  ASSUME AgentInv
  PROVE  Remaining \in Nat /\ (pc # "ended" => Remaining >= 1)
PROOF
  <1>1. /\ step \in Nat /\ step <= MaxSteps /\ tries \in Nat /\ tries <= MaxJsonRetries
        /\ MaxSteps \in Nat /\ MaxJsonRetries \in Nat
        /\ pc \in {"decide", "execute", "again", "web", "ended"}
    BY AgentLimitsAssumption DEF AgentInv, TypeOK, LimitsKept
  <1>2. PICK d, k \in Nat : d = MaxSteps - step /\ k = MaxJsonRetries + 4
    BY <1>1
  <1>3. PICK p \in Nat : p = d * k
    BY <1>2
  <1>4. /\ pc = "ended" => Remaining = 0
        /\ pc = "decide" => Remaining = p + (MaxJsonRetries - tries) + 3
        /\ pc = "execute" => Remaining = p + 2
        /\ pc \in {"again", "web"} => Remaining = p + 1
    BY <1>2, <1>3 DEF Remaining
  <1>5. QED
    BY <1>1, <1>3, <1>4

\* The end is nearer, and so is the next step of the loop.
LEMMA EndIsNearer ==
  ASSUME AgentInv, pc # "ended", pc' = "ended"
  PROVE  Remaining' < Remaining
PROOF
  <1>1. Remaining' = 0
    BY DEF Remaining
  <1>2. QED
    BY <1>1, RemainingCounts

LEMMA NextStepIsNearer ==
  ASSUME AgentInv, pc # "ended", GoesOn
  PROVE  Remaining' < Remaining
PROOF
  <1>1. /\ step \in Nat /\ step <= MaxSteps /\ tries \in Nat /\ tries <= MaxJsonRetries
        /\ MaxSteps \in Nat /\ MaxJsonRetries \in Nat
        /\ pc \in {"decide", "execute", "again", "web"}
    BY AgentLimitsAssumption DEF AgentInv, TypeOK, LimitsKept
  <1>2. CASE step = MaxSteps
    BY <1>2, EndIsNearer DEF GoesOn, Ends
  <1>3. CASE step # MaxSteps
    <2>1. pc' = "decide" /\ step' = step + 1 /\ tries' = 0
      BY <1>3 DEF GoesOn
    <2>2. PICK k \in Nat : k = MaxJsonRetries + 4
      BY <1>1
    <2>3. PICK p, r \in Nat : /\ p = (MaxSteps - step) * k
                              /\ r = (MaxSteps - (step + 1)) * k
                              /\ p = r + k
      BY <1>1, <1>3, <2>2, OneStepLess
    <2>4. /\ pc = "decide" => Remaining = p + (MaxJsonRetries - tries) + 3
          /\ pc = "execute" => Remaining = p + 2
          /\ pc \in {"again", "web"} => Remaining = p + 1
      BY <2>2, <2>3 DEF Remaining
    <2>5. Remaining >= p + 1
      BY <1>1, <2>3, <2>4
    <2>6. Remaining' = r + (MaxJsonRetries - 0) + 3
      BY <2>1, <2>2, <2>3 DEF Remaining
    <2>7. QED
      BY <1>1, <2>2, <2>3, <2>5, <2>6, RemainingCounts
  <1>4. QED
    BY <1>2, <1>3

\* Within a step of the loop: from the decision to the tool to the agent's own call.
LEMMA CallIsNearer ==
  ASSUME AgentInv, step' = step,
         \/ pc = "decide" /\ pc' = "decide" /\ tries' = tries + 1
         \/ pc = "decide" /\ pc' = "execute"
         \/ pc = "execute" /\ pc' \in {"again", "web"}
  PROVE  Remaining' < Remaining
PROOF
  <1>1. /\ step \in Nat /\ step <= MaxSteps /\ tries \in Nat /\ tries <= MaxJsonRetries
        /\ MaxSteps \in Nat /\ MaxJsonRetries \in Nat
    BY AgentLimitsAssumption DEF AgentInv, TypeOK, LimitsKept
  <1>2. PICK d, k \in Nat : d = MaxSteps - step /\ k = MaxJsonRetries + 4
    BY <1>1
  <1>3. PICK p \in Nat : p = d * k
    BY <1>2
  <1>4. /\ pc = "decide" => Remaining = p + (MaxJsonRetries - tries) + 3
        /\ pc = "execute" => Remaining = p + 2
    BY <1>2, <1>3 DEF Remaining
  <1>5. /\ pc' = "decide" => Remaining' = p + (MaxJsonRetries - tries') + 3
        /\ pc' = "execute" => Remaining' = p + 2
        /\ pc' \in {"again", "web"} => Remaining' = p + 1
    BY <1>2, <1>3 DEF Remaining
  <1>6. QED
    BY <1>1, <1>3, <1>4, <1>5

\* Every step is one less.
LEMMA StepsRunOut ==
  ASSUME AgentInv, [Next]_vars
  PROVE  [Remaining' < Remaining]_vars
PROOF
  <1> USE DEF request, counters
  <1>1. CASE OutputInvalid
    BY <1>1, CallIsNearer DEF OutputInvalid
  <1>2. CASE OutputStaysInvalid
    BY <1>2, EndIsNearer DEF OutputStaysInvalid, Ends
  <1>3. CASE ModelFails
    BY <1>3, EndIsNearer DEF ModelFails, Ends
  <1>4. CASE FinalAnswer
    BY <1>4, EndIsNearer DEF FinalAnswer, Ends
  <1>5. CASE AnswerRefused
    BY <1>5, NextStepIsNearer DEF AnswerRefused
  <1>6. CASE OutOfCalls
    BY <1>6, EndIsNearer DEF OutOfCalls, Ends
  <1>7. CASE NoTitle
    BY <1>7, NextStepIsNearer, EndIsNearer DEF NoTitle, Ends
  <1>8. ASSUME NEW q \in Queries, SearchRepeated(q) PROVE Remaining' < Remaining
    BY <1>8, NextStepIsNearer, EndIsNearer DEF SearchRepeated, Ends
  <1>9. ASSUME NEW tool, NEW arg, UseTool(tool, arg) PROVE Remaining' < Remaining
    BY <1>9, CallIsNearer DEF UseTool
  <1>10. CASE ApprovalRefused
    BY <1>10, EndIsNearer DEF ApprovalRefused, Ends
  <1>11. ASSUME NEW result, ToolReturns(result) PROVE Remaining' < Remaining
    BY <1>11, NextStepIsNearer DEF ToolReturns
  <1>12. ASSUME NEW result, ErrorRepeated(result) PROVE Remaining' < Remaining
    BY <1>12, EndIsNearer DEF ErrorRepeated, Ends
  <1>13. ASSUME NEW result, LookupFailed(result) PROVE Remaining' < Remaining
    BY <1>13, CallIsNearer, EndIsNearer DEF LookupFailed, Ends
  <1>14. ASSUME NEW result, SearchedAgain(result) PROVE Remaining' < Remaining
    BY <1>14, NextStepIsNearer DEF SearchedAgain
  <1>15. ASSUME NEW result, WebSearched(result) PROVE Remaining' < Remaining
    BY <1>15, EndIsNearer DEF WebSearched, Ends
  <1>16. CASE SearchedInVain
    BY <1>16, CallIsNearer DEF SearchedInVain
  <1>17. QED
    BY <1>1, <1>2, <1>3, <1>4, <1>5, <1>6, <1>7, <1>8, <1>9, <1>10, <1>11, <1>12,
       <1>13, <1>14, <1>15, <1>16, StepCases

\* Every run of an agent ends: whatever the model answers and the tools return, it takes
\* fewer than MaxSteps * (MaxJsonRetries + 4) turns.
THEOREM AgentRunsOut ==
  Spec => /\ Remaining = MaxSteps * (MaxJsonRetries + 4) - 1
          /\ [](Remaining \in Nat)
          /\ [][Remaining' < Remaining]_vars
PROOF
  <1>1. Init => Remaining = MaxSteps * (MaxJsonRetries + 4) - 1
    <2>1. SUFFICES ASSUME Init PROVE Remaining = MaxSteps * (MaxJsonRetries + 4) - 1
      OBVIOUS
    <2>2. MaxSteps \in Nat /\ MaxSteps >= 1 /\ MaxJsonRetries \in Nat
      BY AgentLimitsAssumption
    <2>3. PICK k \in Nat : k = MaxJsonRetries + 4
      BY <2>2
    <2>4. PICK m \in Nat : MaxSteps = m + 1
      BY <2>2
    <2>5. MaxSteps - 1 = m /\ m * k \in Nat
      BY <2>3, <2>4
    <2>6. (m + 1) * k = m * k + k
      BY <2>3, <2>4
    <2>7. Remaining = (MaxSteps - 1) * k + (MaxJsonRetries - 0) + 3
      BY <2>1, <2>3 DEF Init, Remaining
    <2>8. PICK p \in Nat : p = m * k
      BY <2>5
    <2>9. QED
      BY <2>2, <2>3, <2>4, <2>5, <2>6, <2>7, <2>8
  <1>2. AgentInv => Remaining \in Nat
    BY RemainingCounts
  <1>3. AgentInv /\ [Next]_vars => [Remaining' < Remaining]_vars
    BY StepsRunOut
  <1>4. QED
    BY <1>1, <1>2, <1>3, AgentInvariant, PTL DEF Spec
=============================================================================
