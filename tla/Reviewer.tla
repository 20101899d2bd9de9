------------------------------- MODULE Reviewer -------------------------------
(***************************************************************************)
(* The review of one task (ReviewerAgent.review, app/agents/reviewer.py),  *)
(* attempt after attempt.  Before it asks a model, the reviewer looks for  *)
(* itself: it reads the files of the evidence again, recomputes the figures*)
(* of a report and runs the function tests again.  Each look is an await,  *)
(* and the owner of the workspace may edit files at any time.              *)
(*                                                                         *)
(* The evidence is the task's list of tool calls, which the calls of       *)
(* earlier workers, of this worker's earlier attempts and of the earlier   *)
(* reviews have joined.  A failed call is never evidence and is left out.  *)
(* A file is reduced to what a look finds in it: "wrong" and "right" code  *)
(* fails and passes its tests, a table has figures and a report states     *)
(* some, those that are incomplete being others than a table has.  A broken*)
(* module does not parse, and a broken table cannot be summarised.         *)
(***************************************************************************)
EXTENDS Naturals, Sequences, FiniteSets, SequencesExt

CONSTANTS
  Modules,      \* .py files
  Reports,      \* .md files
  Tables,       \* .csv files
  Figures,      \* what csv_summary makes of a table, and a report states
  MaxPaths,     \* the files that a review reads (3)
  MaxAttempts,  \* max_review_retries + 1
  MaxEarlier,   \* bound: successful calls of the workers of earlier tasks
  MaxCalls,     \* bound: successful calls of all workers
  MaxEdits      \* bound: edits by the owner

ASSUME PathsAssumption == MaxPaths \in Nat

VARIABLES
  role,     \* the worker under review
  ask,      \* whether the request has inline code, and asks for tests
  disk,     \* the files of the workspace
  tools,    \* state.tool_results: the evidence
  own,      \* how much of it is older than the attempt under review
  answer,   \* the worker's answer: claims, or one of the two abstentions
  pc,       \* who works, or the await the review is suspended at
  todo,     \* the paths still to be read
  read,     \* full_contents
  checks,   \* read_calls: the reviewer's own calls
  attempt,  \* the review attempt
  calls,    \* bound: the workers' calls so far
  edits,    \* bound: the owner's edits so far
  edited,   \* history variable: the files edited since the review began
  shown     \* history variable: the evidence that a review which passed began with

task == <<role, ask>>
vars == <<task, disk, tools, own, answer, pc, todo, read, checks, attempt,
          calls, edits, edited, shown>>

----------------------------------------------------------------------------

Files == Modules \cup Reports \cup Tables

Contents(f) ==
  {"absent"} \cup CASE f \in Modules -> {"broken", "wrong", "right"}
                    [] f \in Reports -> Figures
                    [] f \in Tables -> Figures \cup {"broken"}

\* The parser of Python (ast.parse) refuses a text.
Unparsable(f, text) == f \in Modules /\ text = "broken"

\* The tools of the roles that are reviewed, and of those that work before them
\* (their tests are no evidence for this task); web_search stands for both public
\* tools, and succeeds with a source that public_sources_from_tools accepts.
ToolsOf(r) ==
  CASE r = "coder" -> {"file_read", "file_write", "function_test"}
    [] r = "writer" -> {"file_read", "file_write"}
    [] r = "researcher" -> {"file_read", "web_search"}
    [] r = "earlier" -> {"file_read", "file_write", "csv_summary", "web_search"}

Call(tool, path, out) == [tool |-> tool, path |-> path, out |-> out]

Calls ==
  [tool : {"file_read", "file_write", "csv_summary", "function_test"}, path : Files,
   out : {"ok", "wrong", "right"} \cup Figures]
  \cup [tool : {"web_search"}, path : {"web"}, out : {"ok"}]

\* What the tools find: whether a table can be summarised (its figures are the
\* result) and whether the tests of a module run (whether they pass is the result).
Summarised(t) == disk[t] \in Figures
Runs(m) == disk[m] \in {"wrong", "right"}

\* The last call of a list with a tool, 0 if there is none.
LastOf(tool, list) == SelectLastInSeq(list, LAMBDA c : c.tool = tool)

\* worker_result.tool_results: the attempt's own calls, at the end of the evidence.
Own(list) == SubSeq(list, own + 1, Len(list))

WroteCode(list) ==
  \E i \in 1 .. Len(Own(list)) :
    Own(list)[i].tool = "file_write" /\ Own(list)[i].path \in Modules

\* Looking at call c after those that came later: a file that was written or read
\* joins the paths, once.
Joins(paths, c) ==
  IF c.tool \in {"file_write", "file_read"} /\ c.path \notin Range(paths)
  THEN Append(paths, c.path) ELSE paths

\* The files written or read, the latest first, without repetitions.
Latest(list) ==
  LET latest[i \in 0 .. Len(list)] ==
        IF i = 0 THEN <<>> ELSE Joins(latest[i - 1], list[Len(list) + 1 - i])
  IN  latest[Len(list)]

\* Those of them that are read again.
Paths(list) ==
  SubSeq(Latest(list), 1, IF Len(Latest(list)) < MaxPaths THEN Len(Latest(list)) ELSE MaxPaths)

\* report_file: the first of the paths that is a report.
ReportOf(paths) == SelectInSeq(paths, LAMBDA f : f \in Reports)

\* _report_metric_issues finds none: the text that was read states the figures.
States(report, figures) == read[report] = figures

Unread == [f \in Files |-> "absent"]

----------------------------------------------------------------------------

Init ==
  /\ role \in {"coder", "writer", "researcher"}
  /\ ask \in (IF role = "researcher" THEN {{}} ELSE SUBSET {"inline", "tests"})
  /\ disk \in {[f \in Files |-> IF f \in Tables THEN figures[f] ELSE "absent"] :
               figures \in [Tables -> Figures]}
  /\ tools = <<>>
  /\ own = 0
  /\ answer = "none"
  /\ pc = "before"
  /\ todo = <<>>
  /\ read = Unread
  /\ checks = <<>>
  /\ attempt = 1
  /\ calls = 0
  /\ edits = 0
  /\ edited = {}
  /\ shown = <<>>

----------------------------------------------------------------------------
(* Workers: those of earlier tasks, then the one under review.             *)

\* A call that succeeds joins the evidence (_record_worker_result does it for
\* all the calls of a worker at once, before the review begins).
Does(c) ==
  /\ \/ pc = "before" /\ c.tool \in ToolsOf("earlier") /\ calls < MaxEarlier
     \/ pc = "work" /\ c.tool \in ToolsOf(role)
  /\ calls < MaxCalls
  /\ calls' = calls + 1
  /\ tools' = Append(tools, c)
  /\ UNCHANGED <<task, own, answer, pc, todo, read, checks, attempt, edits,
                 edited, shown>>

Writes(f, content) ==
  /\ content \in Contents(f) \ {"absent"}
  /\ disk' = [disk EXCEPT ![f] = content]
  /\ Does(Call("file_write", f, "ok"))

Reads(f) ==
  /\ disk[f] # "absent"
  /\ Does(Call("file_read", f, "ok"))
  /\ UNCHANGED disk

Summarises(t) ==
  /\ Summarised(t)
  /\ Does(Call("csv_summary", t, disk[t]))
  /\ UNCHANGED disk

\* function_test succeeds whether or not the cases pass.
Tests(m) ==
  /\ Runs(m)
  /\ Does(Call("function_test", m, disk[m]))
  /\ UNCHANGED disk

Searches ==
  /\ Does(Call("web_search", "web", "ok"))
  /\ UNCHANGED disk

\* The earlier tasks are done and the reviewed one begins.
TaskBegins ==
  /\ pc = "before"
  /\ pc' = "work"
  /\ own' = Len(tools)
  /\ UNCHANGED <<task, disk, tools, answer, todo, read, checks, attempt, calls,
                 edits, edited, shown>>

\* The owner edits or deletes a file.
Edits(f, content) ==
  /\ pc \notin {"passed", "failed", "raised"}
  /\ edits < MaxEdits
  /\ content \in Contents(f) \ {disk[f]}
  /\ disk' = [disk EXCEPT ![f] = content]
  /\ edits' = edits + 1
  /\ edited' = IF pc \in {"before", "work"} THEN edited ELSE edited \cup {f}
  /\ UNCHANGED <<task, tools, own, answer, pc, todo, read, checks, attempt,
                 calls, shown>>

----------------------------------------------------------------------------
(* The review.  A stage is the await it comes to next, or its verdict.     *)

\* The review returns or raises: its locals are gone.
Over ==
  /\ todo' = <<>>
  /\ read' = Unread
  /\ checks' = <<>>

\* The verdict is "fail": the worker tries again on evidence that the review's
\* calls have joined, until the attempts are used (what a researcher is then
\* offered is in Supervisor).
Fails(done) ==
  /\ Over
  /\ tools' = tools \o done
  /\ edited' = {}
  /\ shown' = shown
  /\ IF attempt < MaxAttempts
     THEN /\ attempt' = attempt + 1
          /\ own' = Len(tools) + Len(done)
          /\ pc' = "work"
     ELSE /\ pc' = "failed"
          /\ UNCHANGED <<attempt, own>>

Passes(done) ==
  /\ Over
  /\ tools' = tools \o done
  /\ shown' = tools
  /\ pc' = "passed"
  /\ UNCHANGED <<own, attempt, edited>>

\* (Mutated) The result is not missed when tests are asked for.
StageOfCodeUnasked ==
  IF WroteCode(tools) /\ LastOf("function_test", Own(tools)) > 0
  THEN "retest" ELSE "model"

\* What comes after the report: tests again, or a complaint that there is none,
\* if this attempt has written code.
StageOfCode ==
  IF WroteCode(tools) /\ LastOf("function_test", Own(tools)) > 0 THEN "retest"
  ELSE IF WroteCode(tools) /\ "tests" \in ask THEN "fail"
  ELSE "model"

\* What comes after the last file.
StageOfReport ==
  IF LastOf("csv_summary", tools) > 0 /\ ReportOf(Paths(tools)) > 0
  THEN "recompute" ELSE StageOfCode

GoesTo(stage, done, contents) ==
  IF stage = "fail" THEN Fails(done)
  ELSE /\ pc' = stage
       /\ checks' = done
       /\ todo' = <<>>
       /\ read' = contents
       /\ UNCHANGED <<tools, own, attempt, edited, shown>>

\* The worker answers and the review begins: an abstention passes as it is, and
\* without any evidence there is nothing to review.  Research without a source
\* comes as an abstention.
WorkerAnswers(says) ==
  LET sources == LastOf("web_search", tools) > 0
      inline == "inline" \in ask
      paths == Paths(tools)
  IN  /\ pc = "work"
      /\ role # "researcher" => says = "claims"
      /\ role = "researcher" /\ ~sources => says = "abstains"
      /\ answer' = says
      /\ \/ /\ says = "abstains"
            /\ Passes(<<>>)
         \/ /\ says = "claims"
            /\ paths = <<>> /\ ~inline /\ ~sources
            /\ Fails(<<>>)
         \/ /\ says = "claims"
            /\ paths = <<>> /\ (inline \/ sources)
            /\ GoesTo(StageOfReport, <<>>, read)
         \/ /\ says = "claims"
            /\ paths # <<>>
            /\ todo' = paths
            /\ pc' = "read"
            /\ UNCHANGED <<tools, own, attempt, read, checks, edited, shown>>
      /\ UNCHANGED <<task, disk, calls, edits>>

\* The next file: it must be there, and parse if it is Python.
ReadAgain ==
  LET f == Head(todo)
      done == Append(checks, Call("file_read", f, "ok"))
      contents == [read EXCEPT ![f] = disk[f]]
  IN  /\ pc = "read"
      /\ \/ /\ disk[f] = "absent"
            /\ Fails(checks)
         \/ /\ Unparsable(f, disk[f])
            /\ Fails(done)
         \/ /\ disk[f] # "absent" /\ ~Unparsable(f, disk[f])
            /\ IF Len(todo) > 1
               THEN /\ todo' = Tail(todo)
                    /\ read' = contents
                    /\ checks' = done
                    /\ UNCHANGED <<pc, tools, own, attempt, edited, shown>>
               ELSE GoesTo(StageOfReport, done, contents)
      /\ UNCHANGED <<task, disk, answer, calls, edits>>

\* (Mutated) Figures that are still those of the analysis do not have to be in
\* the report.
RecomputeSourceOnly ==
  LET original == tools[LastOf("csv_summary", tools)]
      now == disk[original.path]
      done == Append(checks, Call("csv_summary", original.path, now))
  IN  /\ pc = "recompute"
      /\ \/ ~Summarised(original.path) /\ Fails(checks)
         \/ Summarised(original.path) /\ now # original.out /\ Fails(done)
         \/ Summarised(original.path) /\ now = original.out /\ GoesTo(StageOfCode, done, read)
      /\ UNCHANGED <<task, disk, answer, calls, edits>>

\* csv_summary again: the table must still have the figures of the latest
\* summary, and the report, as it was read, those of the table.
Recompute ==
  LET original == tools[LastOf("csv_summary", tools)]
      now == disk[original.path]
      done == Append(checks, Call("csv_summary", original.path, now))
      sound == now = original.out /\ States(Paths(tools)[ReportOf(Paths(tools))], now)
  IN  /\ pc = "recompute"
      /\ \/ ~Summarised(original.path) /\ Fails(checks)
         \/ Summarised(original.path) /\ ~sound /\ Fails(done)
         \/ Summarised(original.path) /\ sound /\ GoesTo(StageOfCode, done, read)
      /\ UNCHANGED <<task, disk, answer, calls, edits>>

\* function_test again: it must run, say what it said, and pass.
Retest ==
  LET original == Own(tools)[LastOf("function_test", Own(tools))]
      now == disk[original.path]
      done == Append(checks, Call("function_test", original.path, now))
      sound == now = original.out /\ now = "right"
  IN  /\ pc = "retest"
      /\ \/ ~Runs(original.path) /\ Fails(checks)
         \/ Runs(original.path) /\ ~sound /\ Fails(done)
         \/ Runs(original.path) /\ sound /\ GoesTo("model", done, read)
      /\ UNCHANGED <<task, disk, answer, calls, edits>>

\* The model sees the evidence and decides.
ModelDecides ==
  /\ pc = "model"
  /\ Passes(checks) \/ Fails(checks)
  /\ UNCHANGED <<task, disk, answer, calls, edits>>

\* It gives no valid verdict, times out, or its prompt does not fit: the calls of
\* the review are lost with it.
ModelRaises ==
  /\ pc = "model"
  /\ pc' = "raised"
  /\ Over
  /\ UNCHANGED <<task, disk, tools, own, answer, attempt, calls, edits, edited,
                 shown>>

----------------------------------------------------------------------------

Work ==
  \/ \E f \in Files : \/ \E content \in Contents(f) : Writes(f, content)
                      \/ Reads(f)
  \/ \E t \in Tables : Summarises(t)
  \/ \E m \in Modules : Tests(m)
  \/ Searches
  \/ TaskBegins

Review ==
  \/ \E says \in {"claims", "abstains"} : WorkerAnswers(says)
  \/ ReadAgain
  \/ Recompute
  \/ Retest
  \/ ModelDecides
  \/ ModelRaises

Next ==
  \/ Work
  \/ Review
  \/ \E f \in Files : \E content \in Contents(f) : Edits(f, content)

Spec == Init /\ [][Next]_vars

----------------------------------------------------------------------------
(* Properties.                                                             *)

Passed == pc = "passed" /\ answer = "claims"

\* A passed review vouches for the files as they are, unless the owner touched
\* them after it began: the latest MaxPaths of the evidence are there and parse,
\* whichever worker wrote them, and the latest report among them states the figures
\* that the analysed table has.
PassedFilesHold ==
  Passed =>
    LET paths == Paths(shown)
        summary == LastOf("csv_summary", shown)
        report == ReportOf(paths)
    IN  /\ \A i \in 1 .. Len(paths) :
             paths[i] \notin edited =>
               disk[paths[i]] # "absent" /\ ~Unparsable(paths[i], disk[paths[i]])
        /\ /\ summary > 0 /\ report > 0
           /\ {shown[summary].path, paths[report]} \cap edited = {}
           => disk[paths[report]] = disk[shown[summary].path]

\* An attempt that wrote code passes only with a test of its own, if tests are
\* asked for, and the code tested last is right, in whatever order it was tested
\* and written.
PassedCodeWorks ==
  Passed /\ WroteCode(shown) =>
    LET test == LastOf("function_test", Own(shown))
        tested == Own(shown)[test].path
    IN  /\ "tests" \in ask => test > 0
        /\ test > 0 /\ tested \notin edited => disk[tested] = "right"
=============================================================================
