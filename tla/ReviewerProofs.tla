---------------------------- MODULE ReviewerProofs ----------------------------
(***************************************************************************)
(* Proofs about Reviewer: what a passed review vouches for, for any files, *)
(* figures, attempts, calls and edits.                                     *)
(***************************************************************************)
EXTENDS Reviewer, SequenceTheorems, WellFoundedInduction, TLAPS

\* Every variable that the argument reads stays in its type.
ReviewTypes ==
  /\ disk = [f \in Files |-> disk[f]]
  /\ read = [f \in Files |-> read[f]]
  /\ tools \in Seq(Calls)
  /\ checks \in Seq(Calls)
  /\ own \in Nat
  /\ todo \in Seq(Files)

\* A file that the review has looked at: still as it was read, there and well formed, or
\* edited since.
Sound(f) ==
  f \in edited \/ (disk[f] # "absent" /\ ~Unparsable(f, disk[f]) /\ read[f] = disk[f])

\* The files are looked at in their order: those before the rest that is still to do, and
\* all of them once that is done.
FilesLooked ==
  LET paths == Paths(tools)
      looked == Len(paths) - Len(todo)
  IN  /\ pc = "read" =>
           /\ Len(todo) \in 1 .. Len(paths)
           /\ \A i \in 1 .. Len(todo) : todo[i] = paths[looked + i]
           /\ \A i \in 1 .. looked : Sound(paths[i])
      /\ pc \in {"recompute", "retest", "model"} =>
           \A i \in 1 .. Len(paths) : Sound(paths[i])

\* The report states the figures of the table, once they were recomputed.
ReportLooked(list) ==
  LET paths == Paths(list)
      summary == LastOf("csv_summary", list)
      report == ReportOf(paths)
  IN  /\ summary > 0 /\ report > 0
      /\ {list[summary].path, paths[report]} \cap edited = {}
      => disk[paths[report]] = disk[list[summary].path]

\* The code works, once it was tested again.
CodeLooked(list) ==
  LET test == LastOf("function_test", Own(list))
      tested == Own(list)[test].path
  IN  WroteCode(list) =>
        /\ "tests" \in ask => test > 0
        /\ test > 0 /\ tested \notin edited => disk[tested] = "right"

\* The inductive invariant of a review.
ReviewInv ==
  /\ ReviewTypes
  /\ FilesLooked
  /\ pc \in {"retest", "model"} => ReportLooked(tools)
  /\ pc = "recompute" => LastOf("csv_summary", tools) > 0
  /\ pc = "retest" => LastOf("function_test", Own(tools)) > 0
  /\ pc = "model" => CodeLooked(tools)
  /\ PassedFilesHold
  /\ PassedCodeWorks

----------------------------------------------------------------------------
(* The operators that choose from the evidence.                            *)

\* A set of natural numbers has a smallest element.
LEMMA SmallestOf ==
  ASSUME NEW T \in SUBSET Nat, T # {}
  PROVE  \E i \in T : \A j \in T : i <= j
PROOF
  <1>1. PICK i \in T : \A j \in T : ~(<<j, i>> \in OpToRel(<, Nat))
    BY NatLessThanWellFounded, WFMin
  <1>2. \A j \in T : ~(j < i)
    BY <1>1 DEF OpToRel
  <1>3. QED
    BY <1>2

\* The last call of a list with a tool is one of its calls, with that tool.
LEMMA LastOfIs ==
  ASSUME NEW list \in Seq(Calls), NEW tool
  PROVE  /\ LastOf(tool, list) \in 0 .. Len(list)
         /\ LastOf(tool, list) > 0 => list[LastOf(tool, list)].tool = tool
PROOF
  <1> DEFINE I == {i \in 1 .. Len(list) : list[i].tool = tool}
  <1>1. LastOf(tool, list) = IF I # {} THEN Max(I) ELSE 0
    BY DEF LastOf, SelectLastInSeq
  <1>2. Len(list) \in Nat
    OBVIOUS
  <1>3. CASE I # {}
    <2> DEFINE T == {Len(list) - i : i \in I}
    <2>1. T \in SUBSET Nat /\ T # {}
      BY <1>2, <1>3
    <2>2. PICK d \in T : \A e \in T : d <= e
      BY <2>1, SmallestOf
    <2>3. PICK i \in I : d = Len(list) - i
      BY <2>2
    <2>4. ASSUME NEW j \in I PROVE i >= j
      <3>1. Len(list) - i <= Len(list) - j
        BY <2>2, <2>3
      <3>2. i \in Nat /\ j \in Nat
        BY <2>3
      <3>3. QED
        BY <1>2, <3>1, <3>2
    <2>5. Max(I) \in I
      BY <2>4 DEF Max
    <2>6. QED
      BY <1>1, <1>2, <1>3, <2>5
  <1>4. CASE I = {}
    BY <1>1, <1>2, <1>4
  <1>5. QED
    BY <1>3, <1>4

\* The report is one of the paths.
LEMMA ReportOfIs ==
  ASSUME NEW paths \in Seq(Files)
  PROVE  ReportOf(paths) \in 0 .. Len(paths)
PROOF
  <1> DEFINE I == {i \in 1 .. Len(paths) : paths[i] \in Reports}
  <1>1. ReportOf(paths) = IF I # {} THEN Min(I) ELSE 0
    BY DEF ReportOf, SelectInSeq
  <1>2. CASE I # {}
    <2>1. I \in SUBSET Nat
      OBVIOUS
    <2>2. PICK i \in I : \A j \in I : i <= j
      BY <1>2, <2>1, SmallestOf
    <2>3. Min(I) \in I
      BY <2>2 DEF Min
    <2>4. QED
      BY <1>1, <1>2, <2>3
  <1>3. CASE I = {}
    BY <1>1, <1>3
  <1>4. QED
    BY <1>2, <1>3

\* A set that has 0, and i with i - 1, has everything up to n.
LEMMA UpTo ==
  ASSUME NEW n \in Nat, NEW P, 0 \in P, \A i \in 1 .. n : i - 1 \in P => i \in P
  PROVE  \A i \in 0 .. n : i \in P
PROOF
  <1> DEFINE T == {i \in 0 .. n : i \notin P}
  <1>1. SUFFICES ASSUME T # {} PROVE FALSE
    OBVIOUS
  <1>2. T \in SUBSET Nat
    OBVIOUS
  <1>3. PICK i \in T : \A j \in T : i <= j
    BY <1>1, <1>2, SmallestOf
  <1>4. i \in 1 .. n /\ i - 1 \in 0 .. n /\ ~(i <= i - 1)
    BY <1>3
  <1>5. i - 1 \in P
    BY <1>3, <1>4
  <1>6. QED
    BY <1>3, <1>4, <1>5

\* f is the function that Latest(list) defines, as far as n.
Chain(f, list, n) ==
  f = [i \in 0 .. n |-> IF i = 0 THEN <<>> ELSE Joins(f[i - 1], list[Len(list) + 1 - i])]

LEMMA ChainExists ==
  ASSUME NEW list, NEW n \in Nat
  PROVE  \E f : Chain(f, list, n)
PROOF
  <1> DEFINE P == {m \in Nat : \E f : Chain(f, list, m)}
  <1>1. 0 \in P
    <2> DEFINE f == [i \in 0 .. 0 |-> <<>>]
    <2>1. f = [i \in 0 .. 0 |->
                 IF i = 0 THEN <<>> ELSE Joins(f[i - 1], list[Len(list) + 1 - i])]
      OBVIOUS
    <2>2. Chain(f, list, 0)
      BY <2>1, Zenon DEF Chain
    <2>3. QED
      BY <2>2
  <1>2. ASSUME NEW m \in 1 .. n, m - 1 \in P
        PROVE  m \in P
    <2>1. PICK p : p = m - 1
      OBVIOUS
    <2>2. p \in Nat /\ m = p + 1 /\ m \notin 0 .. p /\ m \in 0 .. m /\ m \in Nat
      BY <2>1
    <2>3. PICK f : Chain(f, list, p)
      BY <1>2, <2>1
    <2>4. f = [i \in 0 .. p |->
                 IF i = 0 THEN <<>> ELSE Joins(f[i - 1], list[Len(list) + 1 - i])]
      BY <2>3, Zenon DEF Chain
    <2>5. PICK last : last = Joins(f[p], list[Len(list) + 1 - m])
      OBVIOUS
    <2>6. PICK g : g = [i \in 0 .. m |-> IF i = m THEN last ELSE f[i]]
      OBVIOUS
    <2>7. ASSUME NEW i \in 0 .. m
          PROVE  g[i] = IF i = 0 THEN <<>> ELSE Joins(g[i - 1], list[Len(list) + 1 - i])
      <3>1. CASE i = m
        <4>1. g[i] = last /\ i # 0 /\ i - 1 = p /\ p \in 0 .. m /\ p # m
          BY <2>2, <2>6, <3>1
        <4>2. g[p] = f[p]
          BY <2>6, <4>1
        <4>3. QED
          BY <2>5, <3>1, <4>1, <4>2
      <3>2. CASE i # m /\ i = 0
        <4>1. g[i] = f[i] /\ i \in 0 .. p
          BY <2>2, <2>6, <3>2
        <4>2. QED
          BY <2>4, <3>2, <4>1
      <3>3. CASE i # m /\ i # 0
        <4>1. g[i] = f[i] /\ i \in 0 .. p /\ i - 1 \in 0 .. m /\ i - 1 # m
          BY <2>2, <2>6, <3>3
        <4>2. g[i - 1] = f[i - 1]
          BY <2>6, <4>1
        <4>3. f[i] = Joins(f[i - 1], list[Len(list) + 1 - i])
          BY <2>4, <3>3, <4>1
        <4>4. QED
          BY <3>3, <4>1, <4>2, <4>3
      <3>4. QED
        BY <3>1, <3>2, <3>3
    <2>8. g = [i \in 0 .. m |->
                 IF i = 0 THEN <<>> ELSE Joins(g[i - 1], list[Len(list) + 1 - i])]
      BY <2>6, <2>7
    <2>9. Chain(g, list, m)
      BY <2>8, Zenon DEF Chain
    <2>10. QED
      BY <2>2, <2>9
  <1> HIDE DEF P
  <1>3. n \in P
    <2>1. n \in 0 .. n
      OBVIOUS
    <2>2. QED
      BY <1>1, <1>2, <2>1, UpTo
  <1>4. QED
    BY <1>3 DEF P

\* The paths of a list of calls are files.
LEMMA PathsType ==
  ASSUME NEW list \in Seq(Calls)
  PROVE  Paths(list) \in Seq(Files)
PROOF
  <1>1. PICK n : n = Len(list)
    OBVIOUS
  <1>2. n \in Nat
    BY <1>1
  <1>3. PICK f : f = CHOOSE g : Chain(g, list, Len(list))
    OBVIOUS
  <1>4. Latest(list) = f[n]
    <2>1. Latest(list) = f[Len(list)]
      BY <1>3, Zenon DEF Latest, Chain
    <2>2. QED
      BY <1>1, <2>1
  <1>5. Chain(f, list, n)
    BY <1>1, <1>2, <1>3, ChainExists
  <1>6. f = [i \in 0 .. n |->
               IF i = 0 THEN <<>> ELSE Joins(f[i - 1], list[Len(list) + 1 - i])]
    BY <1>5, Zenon DEF Chain
  <1>7. \A i \in 0 .. n :
          f[i] = IF i = 0 THEN <<>> ELSE Joins(f[i - 1], list[Len(list) + 1 - i])
    BY <1>6, Zenon
  <1> DEFINE P == {i \in Nat : f[i] \in Seq(Files)}
  <1>8. 0 \in P
    <2>1. 0 \in 0 .. n
      BY <1>2
    <2>2. f[0] = <<>>
      BY <1>7, <2>1
    <2>3. QED
      BY <2>2, EmptySeq
  <1>9. ASSUME NEW i \in 1 .. n, i - 1 \in P
        PROVE  i \in P
    <2>1. PICK q, c : q = f[i - 1] /\ c = list[Len(list) + 1 - i]
      OBVIOUS
    <2>2. i \in 0 .. n /\ i # 0 /\ Len(list) + 1 - i \in 1 .. Len(list)
      BY <1>1, <1>2
    <2>3. q \in Seq(Files) /\ c \in Calls /\ f[i] = Joins(q, c)
      BY <1>7, <1>9, <2>1, <2>2
    <2>4. CASE c.tool \in {"file_write", "file_read"} /\ c.path \notin Range(q)
      <3>1. c.path \in Files
        BY <2>3, <2>4 DEF Calls
      <3>2. Append(q, c.path) \in Seq(Files)
        BY <2>3, <3>1, AppendProperties
      <3>3. f[i] = Append(q, c.path)
        BY <2>3, <2>4 DEF Joins
      <3>4. QED
        BY <3>2, <3>3
    <2>5. CASE ~(c.tool \in {"file_write", "file_read"} /\ c.path \notin Range(q))
      <3>1. f[i] = q
        BY <2>3, <2>5 DEF Joins
      <3>2. QED
        BY <2>3, <3>1
    <2>6. QED
      BY <2>4, <2>5
  <1> HIDE DEF P
  <1>10. n \in P
    <2>1. n \in 0 .. n
      BY <1>2
    <2>2. QED
      BY <1>2, <1>8, <1>9, <2>1, UpTo
  <1>11. PICK q : q = f[n]
    OBVIOUS
  <1>12. q \in Seq(Files) /\ Len(q) \in Nat
    BY <1>10, <1>11 DEF P
  <1>13. PICK m : m = IF Len(q) < MaxPaths THEN Len(q) ELSE MaxPaths
    OBVIOUS
  <1>14. m \in Nat /\ m <= Len(q)
    BY <1>12, <1>13, PathsAssumption
  <1>15. SubSeq(q, 1, m) \in Seq(Files)
    <2>1. \A i \in 1 .. m : q[i] \in Files
      BY <1>12, <1>14
    <2>2. QED
      BY <1>14, <2>1, SubSeqProperties
  <1>16. QED
    BY <1>4, <1>11, <1>13, <1>15 DEF Paths

\* What the checks go back to are files.
LEMMA FilesOfCalls ==
  ASSUME ReviewTypes
  PROVE  /\ Paths(tools) \in Seq(Files) /\ Len(Paths(tools)) \in Nat
         /\ \A i \in 1 .. Len(Paths(tools)) : Paths(tools)[i] \in Files
         /\ ReportOf(Paths(tools)) \in 0 .. Len(Paths(tools))
         /\ LastOf("csv_summary", tools) \in Nat
         /\ LastOf("csv_summary", tools) > 0 =>
              tools[LastOf("csv_summary", tools)].path \in Files
         /\ LastOf("function_test", Own(tools)) \in Nat
         /\ LastOf("function_test", Own(tools)) > 0 =>
              Own(tools)[LastOf("function_test", Own(tools))].path \in Files
PROOF
  <1>1. tools \in Seq(Calls) /\ own \in Nat /\ Len(tools) \in Nat
    BY DEF ReviewTypes
  <1>2. Paths(tools) \in Seq(Files)
    BY <1>1, PathsType
  <1>3. PICK mine : mine = Own(tools)
    OBVIOUS
  <1>4. mine \in Seq(Calls)
    <2>1. mine = SubSeq(tools, own + 1, Len(tools))
      BY <1>3 DEF Own
    <2>2. \A i \in own + 1 .. Len(tools) : tools[i] \in Calls
      BY <1>1
    <2>3. own + 1 \in Int /\ Len(tools) \in Int
      BY <1>1
    <2>4. CASE own + 1 <= Len(tools)
      BY <1>1, <2>1, <2>2, <2>3, <2>4, SubSeqProperties
    <2>5. CASE ~(own + 1 <= Len(tools))
      <3>1. mine = <<>>
        BY <1>1, <2>1, <2>5
      <3>2. QED
        BY <3>1, EmptySeq
    <2>6. QED
      BY <2>4, <2>5
  <1>5. ASSUME NEW list \in Seq(Calls), NEW tool \in {"csv_summary", "function_test"},
               LastOf(tool, list) > 0
        PROVE  list[LastOf(tool, list)].path \in Files
    <2>1. PICK k : k = LastOf(tool, list)
      OBVIOUS
    <2>2. k \in 1 .. Len(list) /\ list[k].tool = tool
      BY <1>5, <2>1, LastOfIs
    <2>3. list[k] \in Calls
      BY <2>2
    <2>4. list[k].path \in Files
      BY <2>2, <2>3 DEF Calls
    <2>5. QED
      BY <2>1, <2>4
  <1>6. /\ LastOf("csv_summary", tools) \in Nat /\ LastOf("function_test", mine) \in Nat
    BY <1>1, <1>4, LastOfIs
  <1>7. ReportOf(Paths(tools)) \in 0 .. Len(Paths(tools))
    BY <1>2, ReportOfIs
  <1>8. QED
    BY <1>1, <1>2, <1>3, <1>4, <1>5, <1>6, <1>7

----------------------------------------------------------------------------
(* The inductive invariant.                                                *)

LEMMA InitReview == Init => ReviewInv
PROOF
  <1>1. ASSUME Init PROVE ReviewInv
    <2>1. /\ disk \in {[f \in Files |-> IF f \in Tables THEN figures[f] ELSE "absent"] :
                         figures \in [Tables -> Figures]}
          /\ tools = <<>> /\ checks = <<>> /\ todo = <<>> /\ own = 0 /\ pc = "before"
          /\ read = [f \in Files |-> "absent"]
      BY <1>1 DEF Init, Unread
    <2>2. ReviewTypes
      <3>1. disk = [f \in Files |-> disk[f]]
        BY <2>1
      <3>2. read = [f \in Files |-> read[f]]
        BY <2>1
      <3>3. QED
        BY <2>1, <3>1, <3>2, EmptySeq DEF ReviewTypes
    <2>3. QED
      BY <2>1, <2>2 DEF ReviewInv, FilesLooked, PassedFilesHold, PassedCodeWorks, Passed
  <1>2. QED
    BY <1>1

\* Outside a review, and before its verdict, there is nothing to vouch for.
LEMMA NothingVouched ==
  ASSUME ReviewTypes', pc' \in {"before", "work", "failed", "raised"}
  PROVE  ReviewInv'
  BY DEF ReviewInv, FilesLooked, PassedFilesHold, PassedCodeWorks, Passed

\* A verdict joins the evidence.
LEMMA VerdictTypes ==
  ASSUME ReviewTypes, NEW done \in Seq(Calls), Fails(done) \/ Passes(done), disk' = disk
  PROVE  ReviewTypes'
PROOF
  <1>1. /\ todo' = <<>> /\ checks' = <<>> /\ read' = [f \in Files |-> "absent"]
        /\ tools' = tools \o done
        /\ own' \in {own, Len(tools) + Len(done)}
    BY DEF Fails, Passes, Over, Unread
  <1>2. /\ tools \in Seq(Calls) /\ own \in Nat /\ disk = [f \in Files |-> disk[f]]
        /\ Len(tools) \in Nat /\ Len(done) \in Nat
    BY DEF ReviewTypes
  <1>3. tools' \in Seq(Calls)
    BY <1>1, <1>2, ConcatProperties
  <1>4. own' \in Nat
    BY <1>1, <1>2
  <1>5. read' = [f \in Files |-> read'[f]]
    BY <1>1
  <1>6. QED
    BY <1>1, <1>2, <1>3, <1>4, <1>5, EmptySeq DEF ReviewTypes

LEMMA FailsKeeps ==
  ASSUME ReviewInv, NEW done \in Seq(Calls), Fails(done), disk' = disk
  PROVE  ReviewInv'
PROOF
  <1>1. ReviewTypes'
    BY VerdictTypes DEF ReviewInv
  <1>2. pc' \in {"work", "failed"}
    BY DEF Fails
  <1>3. QED
    BY <1>1, <1>2, NothingVouched

\* A review that passes vouches for what it has looked at.
LEMMA PassesKeeps ==
  ASSUME ReviewInv, pc = "model", NEW done \in Seq(Calls), Passes(done),
         UNCHANGED <<task, disk, answer>>
  PROVE  ReviewInv'
PROOF
  <1>1. ReviewTypes'
    BY VerdictTypes DEF ReviewInv
  <1>2. /\ shown' = tools /\ edited' = edited /\ own' = own /\ pc' = "passed"
        /\ disk' = disk /\ ask' = ask
    BY DEF Passes, task
  <1>3. /\ \A i \in 1 .. Len(Paths(tools)) : Sound(Paths(tools)[i])
        /\ ReportLooked(tools) /\ CodeLooked(tools)
    BY DEF ReviewInv, FilesLooked
  <1>4. PassedFilesHold'
    BY <1>2, <1>3 DEF PassedFilesHold, ReportLooked, Sound
  <1>5. PassedCodeWorks'
    BY <1>2, <1>3 DEF PassedCodeWorks, CodeLooked, WroteCode, Own
  <1>6. QED
    BY <1>1, <1>2, <1>4, <1>5 DEF ReviewInv, FilesLooked

\* What is known where the review goes to next.
LEMMA StageIs ==
  /\ StageOfCode \in {"retest", "fail", "model"}
  /\ StageOfCode = "retest" => LastOf("function_test", Own(tools)) > 0
  /\ StageOfCode = "model" => CodeLooked(tools)
  /\ StageOfReport \in {"recompute", StageOfCode}
  /\ StageOfReport = "recompute" => LastOf("csv_summary", tools) > 0
  /\ StageOfReport # "recompute" => ReportLooked(tools)
PROOF
  <1>1. /\ StageOfCode \in {"retest", "fail", "model"}
        /\ StageOfCode = "retest" => LastOf("function_test", Own(tools)) > 0
    BY DEF StageOfCode
  <1>2. StageOfCode = "model" => CodeLooked(tools)
    BY DEF StageOfCode, CodeLooked
  <1>3. /\ StageOfReport \in {"recompute", StageOfCode}
        /\ StageOfReport = "recompute" => LastOf("csv_summary", tools) > 0
    BY <1>1 DEF StageOfReport
  <1>4. StageOfReport # "recompute" => ReportLooked(tools)
    BY DEF StageOfReport, ReportLooked
  <1>5. QED
    BY <1>1, <1>2, <1>3, <1>4

\* Going on after a check that found nothing wrong.
LEMMA GoesKeeps ==
  ASSUME ReviewInv, NEW stage \in {"recompute", "retest", "model", "fail"},
         NEW done \in Seq(Calls), NEW contents, contents = [f \in Files |-> contents[f]],
         GoesTo(stage, done, contents), UNCHANGED <<task, disk>>,
         \A i \in 1 .. Len(Paths(tools)) :
           LET f == Paths(tools)[i]
           IN  f \in edited \/ /\ disk[f] # "absent" /\ ~Unparsable(f, disk[f])
                               /\ contents[f] = disk[f],
         stage = "recompute" => LastOf("csv_summary", tools) > 0,
         stage = "retest" => LastOf("function_test", Own(tools)) > 0,
         stage \in {"retest", "model"} => ReportLooked(tools),
         stage = "model" => CodeLooked(tools)
  PROVE  ReviewInv'
PROOF
  <1>1. CASE stage = "fail"
    <2>1. Fails(done)
      BY <1>1 DEF GoesTo
    <2>2. QED
      BY <2>1, FailsKeeps
  <1>2. CASE stage # "fail"
    <2>1. /\ pc' = stage /\ checks' = done /\ todo' = <<>> /\ read' = contents
          /\ tools' = tools /\ own' = own /\ edited' = edited /\ shown' = shown
          /\ disk' = disk /\ ask' = ask
      BY <1>2 DEF GoesTo, task
    <2>2. ReviewTypes'
      BY <2>1, EmptySeq DEF ReviewInv, ReviewTypes
    <2>3. FilesLooked'
      BY <1>2, <2>1 DEF FilesLooked, Sound
    <2>4. pc' \in {"retest", "model"} => ReportLooked(tools)'
      BY <2>1 DEF ReportLooked
    <2>5. /\ pc' = "recompute" => LastOf("csv_summary", tools)' > 0
          /\ pc' = "retest" => LastOf("function_test", Own(tools))' > 0
      BY <2>1 DEF Own
    <2>6. pc' = "model" => CodeLooked(tools)'
      BY <2>1 DEF CodeLooked, WroteCode, Own
    <2>7. ~Passed'
      BY <1>2, <2>1 DEF Passed
    <2>8. QED
      BY <2>2, <2>3, <2>4, <2>5, <2>6, <2>7 DEF ReviewInv, PassedFilesHold, PassedCodeWorks
  <1>3. QED
    BY <1>1, <1>2

LEMMA WorkPreserved ==
  ASSUME ReviewInv, Work
  PROVE  ReviewInv'
PROOF
  <1>1. ReviewTypes
    BY DEF ReviewInv
  <1>2. ASSUME NEW c \in Calls, Does(c), disk' = [f \in Files |-> disk'[f]]
        PROVE  ReviewInv'
    <2>1. /\ pc' = pc /\ pc \in {"before", "work"} /\ tools' = Append(tools, c)
          /\ UNCHANGED <<own, todo, read, checks>>
      BY <1>2 DEF Does
    <2>2. tools' \in Seq(Calls)
      BY <1>1, <2>1, AppendProperties DEF ReviewTypes
    <2>3. ReviewTypes'
      BY <1>1, <1>2, <2>1, <2>2 DEF ReviewTypes
    <2>4. QED
      BY <2>1, <2>3, NothingVouched
  <1>3. ASSUME NEW f \in Files, NEW content \in Contents(f), Writes(f, content)
        PROVE  ReviewInv'
    <2>1. Does(Call("file_write", f, "ok")) /\ disk' = [disk EXCEPT ![f] = content]
      BY <1>3 DEF Writes
    <2>2. Call("file_write", f, "ok") \in Calls
      BY DEF Call, Calls
    <2>3. disk' = [g \in Files |-> disk'[g]]
      BY <1>1, <2>1 DEF ReviewTypes
    <2>4. QED
      BY <1>2, <2>1, <2>2, <2>3
  <1>4. ASSUME NEW f \in Files, Reads(f)
        PROVE  ReviewInv'
    <2>1. Does(Call("file_read", f, "ok")) /\ disk' = disk
      BY <1>4 DEF Reads
    <2>2. Call("file_read", f, "ok") \in Calls
      BY DEF Call, Calls
    <2>3. QED
      BY <1>1, <1>2, <2>1, <2>2 DEF ReviewTypes
  <1>5. ASSUME NEW t \in Tables, Summarises(t)
        PROVE  ReviewInv'
    <2>1. Does(Call("csv_summary", t, disk[t])) /\ disk' = disk /\ disk[t] \in Figures
      BY <1>5 DEF Summarises, Summarised
    <2>2. Call("csv_summary", t, disk[t]) \in Calls
      BY <2>1 DEF Call, Calls, Files
    <2>3. QED
      BY <1>1, <1>2, <2>1, <2>2 DEF ReviewTypes
  <1>6. ASSUME NEW m \in Modules, Tests(m)
        PROVE  ReviewInv'
    <2>1. Does(Call("function_test", m, disk[m])) /\ disk' = disk /\ disk[m] \in {"wrong", "right"}
      BY <1>6 DEF Tests, Runs
    <2>2. Call("function_test", m, disk[m]) \in Calls
      BY <2>1 DEF Call, Calls, Files
    <2>3. QED
      BY <1>1, <1>2, <2>1, <2>2 DEF ReviewTypes
  <1>7. ASSUME Searches
        PROVE  ReviewInv'
    <2>1. Does(Call("web_search", "web", "ok")) /\ disk' = disk
      BY <1>7 DEF Searches
    <2>2. Call("web_search", "web", "ok") \in Calls
      BY DEF Call, Calls
    <2>3. QED
      BY <1>1, <1>2, <2>1, <2>2 DEF ReviewTypes
  <1>8. ASSUME TaskBegins
        PROVE  ReviewInv'
    <2>1. /\ pc' = "work" /\ own' = Len(tools)
          /\ UNCHANGED <<disk, read, tools, checks, todo>>
      BY <1>8 DEF TaskBegins
    <2>2. ReviewTypes'
      BY <1>1, <2>1 DEF ReviewTypes
    <2>3. QED
      BY <2>1, <2>2, NothingVouched
  <1>9. QED
    BY <1>3, <1>4, <1>5, <1>6, <1>7, <1>8 DEF Work

\* A file that the owner edits is no longer vouched for; the others are as they were.
LEMMA EditsPreserved ==
  ASSUME ReviewInv, NEW f \in Files, NEW content \in Contents(f), Edits(f, content)
  PROVE  ReviewInv'
PROOF
  <1>1. /\ ReviewTypes /\ pc' = pc /\ pc \notin {"passed", "failed", "raised"}
        /\ disk' = [disk EXCEPT ![f] = content]
        /\ UNCHANGED <<ask, tools, own, todo, read, checks>>
    BY DEF ReviewInv, Edits, task
  <1>2. disk' = [g \in Files |-> disk'[g]]
    BY <1>1 DEF ReviewTypes
  <1>3. ReviewTypes'
    BY <1>1, <1>2 DEF ReviewTypes
  <1>4. CASE pc \in {"before", "work"}
    BY <1>1, <1>3, <1>4, NothingVouched
  <1>5. CASE pc \notin {"before", "work"}
    <2>1. /\ edited' = edited \cup {f}
          /\ \A g \in Files : g # f => disk'[g] = disk[g]
      BY <1>1, <1>5 DEF Edits, ReviewTypes
    <2>2. ASSUME NEW g \in Files, Sound(g)
          PROVE  Sound(g)'
      BY <1>1, <2>1, <2>2 DEF Sound
    <2>3. FilesLooked'
      <3>1. /\ Paths(tools)' = Paths(tools)
            /\ \A i \in 1 .. Len(Paths(tools)) : Paths(tools)[i] \in Files
            /\ Len(Paths(tools)) \in Nat
        BY <1>1, FilesOfCalls
      <3>2. FilesLooked /\ todo' = todo /\ pc' = pc
        BY <1>1 DEF ReviewInv
      <3>3. todo \in Seq(Files)
        BY <1>1 DEF ReviewTypes
      <3>4. \A i \in 1 .. Len(Paths(tools)) :
              Sound(Paths(tools)[i]) => Sound(Paths(tools)[i])'
        <4>1. SUFFICES ASSUME NEW i \in 1 .. Len(Paths(tools)), Sound(Paths(tools)[i])
                       PROVE  Sound(Paths(tools)[i])'
          OBVIOUS
        <4>2. PICK g \in Files : g = Paths(tools)[i]
          BY <3>1
        <4>3. Sound(g)'
          BY <2>2, <4>1, <4>2
        <4>4. QED
          BY <3>1, <4>2, <4>3 DEF Sound
      <3>5. QED
        BY <3>1, <3>2, <3>3, <3>4 DEF FilesLooked
    <2>4. pc' \in {"retest", "model"} => ReportLooked(tools)'
      <3>1. SUFFICES ASSUME pc \in {"retest", "model"} PROVE ReportLooked(tools)'
        BY <1>1
      <3>2. ReportLooked(tools)
        BY <3>1 DEF ReviewInv
      <3>3. /\ LastOf("csv_summary", tools) > 0 =>
                 tools[LastOf("csv_summary", tools)].path \in Files
            /\ ReportOf(Paths(tools)) > 0 =>
                 Paths(tools)[ReportOf(Paths(tools))] \in Files
        BY <1>1, FilesOfCalls
      <3>4. QED
        BY <1>1, <2>1, <3>2, <3>3 DEF ReportLooked
    <2>5. /\ pc' = "recompute" => LastOf("csv_summary", tools)' > 0
          /\ pc' = "retest" => LastOf("function_test", Own(tools))' > 0
      BY <1>1 DEF ReviewInv, Own
    <2>6. pc' = "model" => CodeLooked(tools)'
      <3>1. SUFFICES ASSUME pc = "model" PROVE CodeLooked(tools)'
        BY <1>1
      <3>2. CodeLooked(tools)
        BY <3>1 DEF ReviewInv
      <3>3. LastOf("function_test", Own(tools)) > 0 =>
              Own(tools)[LastOf("function_test", Own(tools))].path \in Files
        BY <1>1, FilesOfCalls
      <3>4. QED
        BY <1>1, <2>1, <3>2, <3>3 DEF CodeLooked, WroteCode, Own
    <2>7. QED
      BY <1>1, <1>3, <2>3, <2>4, <2>5, <2>6
      DEF ReviewInv, PassedFilesHold, PassedCodeWorks, Passed
  <1>6. QED
    BY <1>4, <1>5

LEMMA WorkerAnswersPreserved ==
  ASSUME ReviewInv, NEW says, WorkerAnswers(says)
  PROVE  ReviewInv'
PROOF
  <1>1. /\ ReviewTypes /\ pc = "work" /\ answer' = says /\ UNCHANGED <<task, disk>>
        /\ <<>> \in Seq(Calls) /\ Paths(tools) \in Seq(Files)
    BY EmptySeq, FilesOfCalls DEF ReviewInv, WorkerAnswers
  <1>2. CASE says = "abstains" /\ Passes(<<>>)
    <2>1. ReviewTypes'
      BY <1>1, <1>2, VerdictTypes
    <2>2. pc' = "passed" /\ answer' # "claims"
      BY <1>1, <1>2 DEF Passes
    <2>3. QED
      BY <2>1, <2>2 DEF ReviewInv, FilesLooked, PassedFilesHold, PassedCodeWorks, Passed
  <1>3. CASE Fails(<<>>)
    BY <1>1, <1>3, FailsKeeps
  <1>4. CASE Paths(tools) = <<>> /\ GoesTo(StageOfReport, <<>>, read)
    <2>1. Len(Paths(tools)) = 0
      BY <1>4
    <2>2. read = [f \in Files |-> read[f]]
      BY <1>1 DEF ReviewTypes
    <2>3. PICK stage : stage = StageOfReport
      OBVIOUS
    <2>4. /\ stage \in {"recompute", "retest", "model", "fail"}
          /\ stage = "recompute" => LastOf("csv_summary", tools) > 0
          /\ stage = "retest" => LastOf("function_test", Own(tools)) > 0
          /\ stage \in {"retest", "model"} => ReportLooked(tools)
          /\ stage = "model" => CodeLooked(tools)
      BY <2>3, StageIs
    <2>5. GoesTo(stage, <<>>, read)
      BY <1>4, <2>3
    <2>6. \A i \in 1 .. Len(Paths(tools)) :
            LET f == Paths(tools)[i]
            IN  f \in edited \/ /\ disk[f] # "absent" /\ ~Unparsable(f, disk[f])
                                /\ read[f] = disk[f]
      BY <2>1
    <2>7. QED
      BY <1>1, <2>2, <2>4, <2>5, <2>6, GoesKeeps
  <1>5. CASE /\ Paths(tools) # <<>>
             /\ todo' = Paths(tools)
             /\ pc' = "read"
             /\ UNCHANGED <<tools, own, attempt, read, checks, edited, shown>>
    <2>1. ReviewTypes'
      BY <1>1, <1>5 DEF ReviewTypes
    <2>2. Len(Paths(tools)) \in Nat \ {0}
      BY <1>1, <1>5, EmptySeq
    <2>3. FilesLooked'
      BY <1>5, <2>2 DEF FilesLooked
    <2>4. QED
      BY <1>5, <2>1, <2>3 DEF ReviewInv, PassedFilesHold, PassedCodeWorks, Passed
  <1>6. QED
    BY <1>2, <1>3, <1>4, <1>5 DEF WorkerAnswers

\* The file at hand joins those that were looked at.
LEMMA ReadAgainPreserved ==
  ASSUME ReviewInv, ReadAgain
  PROVE  ReviewInv'
PROOF
  <1>1. /\ ReviewTypes /\ pc = "read" /\ UNCHANGED <<task, disk, answer>>
        /\ todo \in Seq(Files) /\ checks \in Seq(Calls)
        /\ read = [g \in Files |-> read[g]] /\ disk = [g \in Files |-> disk[g]]
    BY DEF ReviewInv, ReviewTypes, ReadAgain
  <1>2. PICK paths, n, m : paths = Paths(tools) /\ n = Len(paths) /\ m = Len(todo)
    OBVIOUS
  <1>3. /\ paths \in Seq(Files) /\ n \in Nat /\ m \in Nat
        /\ \A i \in 1 .. n : paths[i] \in Files
    BY <1>1, <1>2, FilesOfCalls
  <1>4. /\ m >= 1 /\ m <= n
        /\ \A i \in 1 .. m : todo[i] = paths[(n - m) + i]
        /\ \A i \in 1 .. n - m : Sound(paths[i])
    BY <1>1, <1>2, <1>3 DEF ReviewInv, FilesLooked
  <1>5. PICK f, done, contents :
          /\ f = Head(todo)
          /\ done = Append(checks, Call("file_read", f, "ok"))
          /\ contents = [read EXCEPT ![f] = disk[f]]
    OBVIOUS
  <1>6. f \in Files /\ f = paths[(n - m) + 1]
    <2>1. todo # <<>> /\ 1 \in 1 .. m
      BY <1>1, <1>2, <1>3, <1>4
    <2>2. f = todo[1] /\ f \in Files
      BY <1>1, <1>5, <2>1, HeadTailProperties
    <2>3. QED
      BY <1>4, <2>1, <2>2
  <1>7. done \in Seq(Calls) /\ contents = [g \in Files |-> contents[g]]
    <2>1. Call("file_read", f, "ok") \in Calls
      BY <1>6 DEF Call, Calls
    <2>2. done \in Seq(Calls)
      BY <1>1, <1>5, <2>1, AppendProperties
    <2>3. contents = [g \in Files |-> IF g = f THEN disk[f] ELSE read[g]]
      BY <1>1, <1>5
    <2>4. QED
      BY <2>2, <2>3
  <1>8. \/ Fails(checks)
        \/ Fails(done)
        \/ /\ disk[f] # "absent" /\ ~Unparsable(f, disk[f])
           /\ m > 1 /\ todo' = Tail(todo) /\ read' = contents /\ checks' = done
           /\ UNCHANGED <<pc, tools, own, attempt, edited, shown>>
        \/ /\ disk[f] # "absent" /\ ~Unparsable(f, disk[f])
           /\ ~(m > 1) /\ GoesTo(StageOfReport, done, contents)
    BY <1>2, <1>5 DEF ReadAgain
  <1>9. CASE Fails(checks) \/ Fails(done)
    BY <1>1, <1>7, <1>9, FailsKeeps
  <1>10. ASSUME disk[f] # "absent" /\ ~Unparsable(f, disk[f]),
                NEW i \in 1 .. (n - m) + 1
         PROVE  \/ paths[i] \in edited
                \/ /\ disk[paths[i]] # "absent" /\ ~Unparsable(paths[i], disk[paths[i]])
                   /\ contents[paths[i]] = disk[paths[i]]
    <2>1. PICK g \in Files : g = paths[i]
      BY <1>3, <1>4
    <2>2. CASE g = f
      <3>1. contents[g] = disk[g]
        BY <1>1, <1>5, <1>6, <2>2
      <3>2. QED
        BY <1>10, <2>1, <2>2, <3>1
    <2>3. CASE g # f
      <3>1. i \in 1 .. n - m
        <4>1. i # (n - m) + 1
          BY <1>6, <2>1, <2>3
        <4>2. QED
          BY <1>3, <4>1
      <3>2. Sound(g)
        BY <1>4, <2>1, <3>1
      <3>3. contents[g] = read[g]
        BY <1>1, <1>5, <2>1, <2>3
      <3>4. QED
        BY <2>1, <3>2, <3>3 DEF Sound
    <2>4. QED
      BY <2>2, <2>3
  <1>11. CASE /\ disk[f] # "absent" /\ ~Unparsable(f, disk[f])
              /\ m > 1 /\ todo' = Tail(todo) /\ read' = contents /\ checks' = done
              /\ UNCHANGED <<pc, tools, own, attempt, edited, shown>>
    <2>1. /\ Tail(todo) \in Seq(Files) /\ Len(Tail(todo)) = m - 1
          /\ \A i \in 1 .. m - 1 : Tail(todo)[i] = todo[i + 1]
      <3>1. todo # <<>>
        BY <1>2, <1>11, EmptySeq
      <3>2. QED
        BY <1>1, <1>2, <3>1, HeadTailProperties
    <2>2. ReviewTypes'
      BY <1>1, <1>7, <1>11, <2>1 DEF ReviewTypes
    <2>3. /\ m - 1 \in 1 .. n
          /\ n - (m - 1) = (n - m) + 1
          /\ \A i \in 1 .. m - 1 : i + 1 \in 1 .. m /\ (n - m) + (i + 1) = ((n - m) + 1) + i
      BY <1>3, <1>4, <1>11
    <2>4. \A i \in 1 .. m - 1 : Tail(todo)[i] = paths[((n - m) + 1) + i]
      BY <1>4, <2>1, <2>3
    <2>5. \A i \in 1 .. (n - m) + 1 : Sound(paths[i])'
      <3>1. SUFFICES ASSUME NEW i \in 1 .. (n - m) + 1, NEW g, g = paths[i]
                     PROVE  Sound(g)'
        BY DEF Sound
      <3>2. edited' = edited /\ disk' = disk /\ read' = contents
        BY <1>1, <1>11
      <3>3. QED
        BY <1>10, <1>11, <3>1, <3>2 DEF Sound
    <2>6. FilesLooked'
      <3>1. /\ Paths(tools)' = paths /\ Len(todo)' = m - 1 /\ pc' = "read"
            /\ todo' = Tail(todo)
        BY <1>1, <1>2, <1>11, <2>1
      <3>2. n - (m - 1) = (n - m) + 1 /\ Len(paths) = n
        BY <1>2, <2>3
      <3>3. QED
        BY <2>3, <2>4, <2>5, <3>1, <3>2 DEF FilesLooked
    <2>7. QED
      BY <1>1, <1>11, <2>2, <2>6 DEF ReviewInv, PassedFilesHold, PassedCodeWorks, Passed
  <1>12. CASE /\ disk[f] # "absent" /\ ~Unparsable(f, disk[f])
              /\ ~(m > 1) /\ GoesTo(StageOfReport, done, contents)
    <2>1. (n - m) + 1 = n
      BY <1>3, <1>4, <1>12
    <2>2. PICK stage : stage = StageOfReport
      OBVIOUS
    <2>3. /\ stage \in {"recompute", "retest", "model", "fail"}
          /\ stage = "recompute" => LastOf("csv_summary", tools) > 0
          /\ stage = "retest" => LastOf("function_test", Own(tools)) > 0
          /\ stage \in {"retest", "model"} => ReportLooked(tools)
          /\ stage = "model" => CodeLooked(tools)
      BY <2>2, StageIs
    <2>4. GoesTo(stage, done, contents)
      BY <1>12, <2>2
    <2>5. \A i \in 1 .. Len(Paths(tools)) :
            LET g == Paths(tools)[i]
            IN  g \in edited \/ /\ disk[g] # "absent" /\ ~Unparsable(g, disk[g])
                                /\ contents[g] = disk[g]
      BY <1>2, <1>10, <1>12, <2>1
    <2>6. QED
      BY <1>1, <1>7, <2>3, <2>4, <2>5, GoesKeeps
  <1>13. QED
    BY <1>8, <1>9, <1>11, <1>12

\* The report states the figures that the table has now, as both were looked at.
LEMMA RecomputePreserved ==
  ASSUME ReviewInv, Recompute
  PROVE  ReviewInv'
PROOF
  <1>1. /\ ReviewTypes /\ pc = "recompute" /\ UNCHANGED <<task, disk, answer>>
        /\ checks \in Seq(Calls) /\ read = [g \in Files |-> read[g]]
        /\ LastOf("csv_summary", tools) > 0
    BY DEF ReviewInv, ReviewTypes, Recompute
  <1>2. PICK table, report, now, done :
          /\ table = tools[LastOf("csv_summary", tools)].path
          /\ report = Paths(tools)[ReportOf(Paths(tools))]
          /\ now = disk[table]
          /\ done = Append(checks, Call("csv_summary", table, now))
    OBVIOUS
  <1>3. \/ Fails(checks)
        \/ now \in Figures /\ Fails(done)
        \/ now \in Figures /\ read[report] = now /\ GoesTo(StageOfCode, done, read)
    BY <1>2 DEF Recompute, Summarised, States
  <1>4. now \in Figures => done \in Seq(Calls)
    <2>1. table \in Files
      BY <1>1, <1>2, FilesOfCalls
    <2>2. now \in Figures => Call("csv_summary", table, now) \in Calls
      BY <2>1 DEF Call, Calls
    <2>3. QED
      BY <1>1, <1>2, <2>2, AppendProperties
  <1>5. CASE Fails(checks) \/ (now \in Figures /\ Fails(done))
    BY <1>1, <1>4, <1>5, FailsKeeps
  <1>6. CASE now \in Figures /\ read[report] = now /\ GoesTo(StageOfCode, done, read)
    <2>1. \A i \in 1 .. Len(Paths(tools)) : Sound(Paths(tools)[i])
      BY <1>1 DEF ReviewInv, FilesLooked
    <2>2. ReportLooked(tools)
      <3>1. SUFFICES ASSUME ReportOf(Paths(tools)) > 0, {table, report} \cap edited = {}
                     PROVE  disk[report] = disk[table]
        BY <1>2 DEF ReportLooked
      <3>2. ReportOf(Paths(tools)) \in 1 .. Len(Paths(tools))
        BY <1>1, <3>1, FilesOfCalls
      <3>3. Sound(report)
        BY <1>2, <2>1, <3>2
      <3>4. read[report] = disk[report]
        BY <3>1, <3>3 DEF Sound
      <3>5. QED
        BY <1>2, <1>6, <3>4
    <2>3. PICK stage : stage = StageOfCode
      OBVIOUS
    <2>4. /\ stage \in {"retest", "model", "fail"}
          /\ stage = "retest" => LastOf("function_test", Own(tools)) > 0
          /\ stage = "model" => CodeLooked(tools)
      BY <2>3, StageIs
    <2>5. GoesTo(stage, done, read)
      BY <1>6, <2>3
    <2>6. \A i \in 1 .. Len(Paths(tools)) :
            LET f == Paths(tools)[i]
            IN  f \in edited \/ /\ disk[f] # "absent" /\ ~Unparsable(f, disk[f])
                                /\ read[f] = disk[f]
      BY <2>1 DEF Sound
    <2>7. QED
      BY <1>1, <1>4, <1>6, <2>2, <2>4, <2>5, <2>6, GoesKeeps
  <1>7. QED
    BY <1>3, <1>5, <1>6

\* The code tested last passes its tests now.
LEMMA RetestPreserved ==
  ASSUME ReviewInv, Retest
  PROVE  ReviewInv'
PROOF
  <1>1. /\ ReviewTypes /\ pc = "retest" /\ UNCHANGED <<task, disk, answer>>
        /\ checks \in Seq(Calls) /\ read = [g \in Files |-> read[g]]
        /\ LastOf("function_test", Own(tools)) > 0 /\ ReportLooked(tools)
    BY DEF ReviewInv, ReviewTypes, Retest
  <1>2. PICK tested, now, done :
          /\ tested = Own(tools)[LastOf("function_test", Own(tools))].path
          /\ now = disk[tested]
          /\ done = Append(checks, Call("function_test", tested, now))
    OBVIOUS
  <1>3. \/ Fails(checks)
        \/ now \in {"wrong", "right"} /\ Fails(done)
        \/ now = "right" /\ GoesTo("model", done, read)
    BY <1>2 DEF Retest, Runs
  <1>4. now \in {"wrong", "right"} => done \in Seq(Calls)
    <2>1. tested \in Files
      BY <1>1, <1>2, FilesOfCalls
    <2>2. now \in {"wrong", "right"} => Call("function_test", tested, now) \in Calls
      BY <2>1 DEF Call, Calls
    <2>3. QED
      BY <1>1, <1>2, <2>2, AppendProperties
  <1>5. CASE Fails(checks) \/ (now \in {"wrong", "right"} /\ Fails(done))
    BY <1>1, <1>4, <1>5, FailsKeeps
  <1>6. CASE now = "right" /\ GoesTo("model", done, read)
    <2>1. \A i \in 1 .. Len(Paths(tools)) :
            LET f == Paths(tools)[i]
            IN  f \in edited \/ /\ disk[f] # "absent" /\ ~Unparsable(f, disk[f])
                                /\ read[f] = disk[f]
      BY <1>1 DEF ReviewInv, FilesLooked, Sound
    <2>2. CodeLooked(tools)
      BY <1>1, <1>2, <1>6 DEF CodeLooked
    <2>3. done \in Seq(Calls)
      BY <1>4, <1>6
    <2>4. PICK stage : stage = "model"
      OBVIOUS
    <2>5. /\ stage \in {"recompute", "retest", "model", "fail"}
          /\ stage # "recompute" /\ stage # "retest"
          /\ GoesTo(stage, done, read)
      BY <1>6, <2>4
    <2>6. QED
      BY <1>1, <2>1, <2>2, <2>3, <2>5, GoesKeeps
  <1>7. QED
    BY <1>3, <1>5, <1>6

LEMMA ReviewPreserved ==
  ASSUME ReviewInv, [Next]_vars
  PROVE  ReviewInv'
PROOF
  <1>1. CASE ModelDecides
    <2>1. pc = "model" /\ UNCHANGED <<task, disk, answer>> /\ (Passes(checks) \/ Fails(checks))
      BY <1>1 DEF ModelDecides
    <2>2. checks \in Seq(Calls)
      BY DEF ReviewInv, ReviewTypes
    <2>3. QED
      BY <2>1, <2>2, PassesKeeps, FailsKeeps
  <1>2. CASE ModelRaises
    <2>1. /\ pc' = "raised" /\ UNCHANGED <<disk, tools, own>>
          /\ todo' = <<>> /\ checks' = <<>> /\ read' = [f \in Files |-> "absent"]
      BY <1>2 DEF ModelRaises, Over, Unread
    <2>2. read' = [f \in Files |-> read'[f]]
      BY <2>1
    <2>3. ReviewTypes'
      BY <2>1, <2>2, EmptySeq DEF ReviewInv, ReviewTypes
    <2>4. QED
      BY <2>1, <2>3, NothingVouched
  <1>3. CASE UNCHANGED vars
    <2>1. /\ ReviewTypes' /\ FilesLooked'
      BY <1>3 DEF vars, task, ReviewInv, ReviewTypes, FilesLooked, Sound
    <2>2. /\ pc' \in {"retest", "model"} => ReportLooked(tools)'
          /\ pc' = "recompute" => LastOf("csv_summary", tools)' > 0
          /\ pc' = "retest" => LastOf("function_test", Own(tools))' > 0
          /\ pc' = "model" => CodeLooked(tools)'
      BY <1>3 DEF vars, task, ReviewInv, ReportLooked, CodeLooked, WroteCode, Own
    <2>3. PassedFilesHold' /\ PassedCodeWorks'
      BY <1>3 DEF vars, task, ReviewInv, PassedFilesHold, PassedCodeWorks, Passed, WroteCode, Own
    <2>4. QED
      BY <2>1, <2>2, <2>3 DEF ReviewInv
  <1>4. QED
    BY <1>1, <1>2, <1>3, WorkPreserved, EditsPreserved, WorkerAnswersPreserved,
       ReadAgainPreserved, RecomputePreserved, RetestPreserved DEF Next, Review

----------------------------------------------------------------------------
(* The theorems.                                                           *)

\* The inductive invariant of a review holds in every reachable state.
THEOREM ReviewInvariant == Spec => []ReviewInv
PROOF
  <1>1. ReviewInv /\ [Next]_vars => ReviewInv'
    BY ReviewPreserved
  <1>2. QED
    BY <1>1, InitReview, PTL DEF Spec

\* The files that a passed review has looked at are there and well formed, and the latest
\* report states the figures of the table, unless the owner touched them meanwhile.
THEOREM PassedFilesAreThere == Spec => []PassedFilesHold
PROOF
  <1>1. ReviewInv => PassedFilesHold
    BY DEF ReviewInv
  <1>2. QED
    BY <1>1, ReviewInvariant, PTL

\* Code that was written in an attempt that passed was tested if tests are asked for, and
\* what was tested last works.
THEOREM PassedCodeIsTested == Spec => []PassedCodeWorks
PROOF
  <1>1. ReviewInv => PassedCodeWorks
    BY DEF ReviewInv
  <1>2. QED
    BY <1>1, ReviewInvariant, PTL

=============================================================================
