--------------------------- MODULE SupervisorProofs ---------------------------
(***************************************************************************)
(* The safety of Supervisor for any limits, any wording and any plan: the  *)
(* books of a task, what a completed task rests on, and what is derived    *)
(* from the result.  Books(s, top) says of a state s of the task that it   *)
(* is in order; each way of changing s keeps it so, and a batch of results *)
(* is recorded by induction on how many.                                   *)
(***************************************************************************)
EXTENDS Supervisor, SequenceTheorems, FiniteSetTheorems, WellFoundedInduction, TLAPS

----------------------------------------------------------------------------
(* Sets of numbers and sequences.                                          *)

\* A set of natural numbers has a smallest element.
LEMMA SmallestOf ==
  ASSUME NEW T \in SUBSET Nat, T # {}
  PROVE  /\ Min(T) \in T
         /\ \A j \in T : Min(T) <= j
<1>1. PICK i \in T : \A j \in T : ~(<<j, i>> \in OpToRel(<, Nat))
  BY NatLessThanWellFounded, WFMin
<1>2. \A j \in T : ~(j < i)
  BY <1>1 DEF OpToRel
<1>3. \A j \in T : i <= j
  BY <1>2
<1> QED
  BY <1>3 DEF Min

\* A set of natural numbers with a bound has a largest.
LEMMA LargestOf ==
  ASSUME NEW n \in Nat, NEW T \in SUBSET (0 .. n), T # {}
  PROVE  /\ Max(T) \in T
         /\ \A j \in T : j <= Max(T)
<1> DEFINE U == {n - j : j \in T}
<1>1. U \in SUBSET Nat /\ U # {}
  <2>1. \A j \in T : n - j \in Nat
    OBVIOUS
  <2> QED
    BY <2>1
<1>2. Min(U) \in U /\ \A j \in U : Min(U) <= j
  BY <1>1, SmallestOf
<1>3. PICK i \in T : Min(U) = n - i
  BY <1>2
<1>4. \A j \in T : j <= i
  <2>1. ASSUME NEW j \in T PROVE j <= i
    <3>1. n - i <= n - j
      BY <1>2, <1>3
    <3> QED
      BY <3>1
  <2> QED
    BY <2>1
<1> QED
  BY <1>4 DEF Max

\* LastAbout finds the last entry about a task, if there is one.
LEMMA LastAboutFound ==
  ASSUME NEW S, NEW list \in Seq(S), NEW i
  PROVE  /\ About(list, i) = {} => LastAbout(list, i) = 0
         /\ About(list, i) # {} => /\ LastAbout(list, i) \in About(list, i)
                                   /\ LastAbout(list, i) \in 1 .. Len(list)
                                   /\ \A j \in About(list, i) : j <= LastAbout(list, i)
<1>1. DOMAIN list = 1 .. Len(list) /\ Len(list) \in Nat
  OBVIOUS
<1>2. About(list, i) = {k \in 1 .. Len(list) : list[k].nr = i}
  BY <1>1 DEF About
<1>3. LastAbout(list, i) = IF About(list, i) # {} THEN Max(About(list, i)) ELSE 0
  BY <1>2 DEF LastAbout, SelectLastInSeq
<1>4. About(list, i) \in SUBSET (0 .. Len(list)) /\ About(list, i) \subseteq 1 .. Len(list)
  BY <1>1, <1>2
<1> QED
  BY <1>1, <1>3, <1>4, LargestOf

\* It is the only entry about the task with none after it.
LEMMA LastAboutIs ==
  ASSUME NEW S, NEW list \in Seq(S), NEW i, NEW k \in 1 .. Len(list),
         list[k].nr = i,
         \A j \in k + 1 .. Len(list) : list[j].nr # i
  PROVE  LastAbout(list, i) = k
<1>1. DOMAIN list = 1 .. Len(list) /\ Len(list) \in Nat
  OBVIOUS
<1>2. k \in About(list, i)
  BY <1>1 DEF About
<1>3. \A j \in About(list, i) : j \in 1 .. Len(list) /\ ~(j \in k + 1 .. Len(list))
  BY <1>1 DEF About
<1>4. \A j \in About(list, i) : j <= k
  BY <1>1, <1>3
<1> QED
  BY <1>1, <1>2, <1>4, LastAboutFound

\* The entries about a task are finitely many.
LEMMA AboutFinite ==
  ASSUME NEW S, NEW list \in Seq(S), NEW i
  PROVE  /\ IsFiniteSet(About(list, i))
         /\ Cardinality(About(list, i)) \in Nat
         /\ About(list, i) = {} => Cardinality(About(list, i)) = 0
<1>1. Len(list) \in Nat /\ About(list, i) \subseteq 1 .. Len(list)
  BY DEF About
<1>2. IsFiniteSet(1 .. Len(list))
  BY <1>1, FS_Interval
<1>3. IsFiniteSet(About(list, i))
  BY <1>1, <1>2, FS_Subset
<1> QED
  BY <1>3, FS_CardinalityType, FS_EmptySet

\* A new entry joins those about its task and leaves the others alone.
LEMMA AboutAppend ==
  ASSUME NEW S, NEW list \in Seq(S), NEW e \in S, NEW i
  PROVE  LET t == Append(list, e)
         IN  /\ About(t, i) = IF e.nr = i THEN About(list, i) \cup {Len(list) + 1}
                              ELSE About(list, i)
             /\ LastAbout(t, i) = IF e.nr = i THEN Len(list) + 1 ELSE LastAbout(list, i)
             /\ Cardinality(About(t, i)) = Cardinality(About(list, i))
                                           + IF e.nr = i THEN 1 ELSE 0
<1> DEFINE t == Append(list, e)
<1>1. /\ t \in Seq(S) /\ Len(t) = Len(list) + 1 /\ Len(list) \in Nat
      /\ \A j \in 1 .. Len(list) : t[j] = list[j]
      /\ t[Len(list) + 1] = e
      /\ DOMAIN t = 1 .. Len(list) + 1 /\ DOMAIN list = 1 .. Len(list)
  BY AppendProperties
<1> HIDE DEF t
<1>2. About(t, i) = IF e.nr = i THEN About(list, i) \cup {Len(list) + 1} ELSE About(list, i)
  BY <1>1 DEF About
<1>3. Len(list) + 1 \notin About(list, i)
  BY <1>1 DEF About
<1>4. Cardinality(About(t, i)) = Cardinality(About(list, i)) + IF e.nr = i THEN 1 ELSE 0
  <2>1. IsFiniteSet(About(list, i)) /\ Cardinality(About(list, i)) \in Nat
    BY AboutFinite
  <2>2. Cardinality(About(list, i) \cup {Len(list) + 1}) = Cardinality(About(list, i)) + 1
    BY <1>3, <2>1, FS_AddElement
  <2> QED
    BY <1>2, <2>1, <2>2
<1>5. LastAbout(t, i) = IF e.nr = i THEN Len(list) + 1 ELSE LastAbout(list, i)
  <2>1. CASE e.nr = i
    BY <1>1, <2>1, LastAboutIs
  <2>2. CASE e.nr # i /\ About(list, i) = {}
    BY <1>1, <1>2, <2>2, LastAboutFound
  <2>3. CASE e.nr # i /\ About(list, i) # {}
    <3> DEFINE k == LastAbout(list, i)
    <3>1. k \in 1 .. Len(list) /\ list[k].nr = i /\ \A j \in About(list, i) : j <= k
      BY <2>3, LastAboutFound DEF About
    <3> HIDE DEF k
    <3>2. \A j \in k + 1 .. Len(t) : t[j].nr # i
      <4>1. ASSUME NEW j \in k + 1 .. Len(t), t[j].nr = i PROVE FALSE
        <5>1. j \in About(t, i)
          BY <1>1, <3>1, <4>1 DEF About
        <5>2. j \in About(list, i)
          BY <1>2, <2>3, <5>1
        <5> QED
          BY <1>1, <3>1, <5>2
      <4> QED
        BY <4>1
    <3>3. k \in 1 .. Len(t) /\ t[k].nr = i
      BY <1>1, <3>1
    <3>4. LastAbout(t, i) = k
      BY <1>1, <3>2, <3>3, LastAboutIs
    <3> QED
      BY <2>3, <3>4 DEF k
  <2> QED
    BY <2>1, <2>2, <2>3
<1> QED
  BY <1>2, <1>4, <1>5 DEF t

\* The last entry is determined by which entries there are.
LEMMA SameAbout ==
  ASSUME NEW S, NEW list \in Seq(S), NEW R, NEW other \in Seq(R), NEW i,
         About(list, i) = About(other, i)
  PROVE  LastAbout(list, i) = LastAbout(other, i)
<1>1. /\ About(list, i) = {k \in 1 .. Len(list) : list[k].nr = i}
      /\ About(other, i) = {k \in 1 .. Len(other) : other[k].nr = i}
  BY DEF About
<1>2. /\ LastAbout(list, i) = IF About(list, i) # {} THEN Max(About(list, i)) ELSE 0
      /\ LastAbout(other, i) = IF About(other, i) # {} THEN Max(About(other, i)) ELSE 0
  BY <1>1 DEF LastAbout, SelectLastInSeq
<1> QED
  BY <1>2

----------------------------------------------------------------------------
(* What each way of changing a state does to it.                           *)

\* What WithOutput appends.
OutputOf(i, answer) ==
  [agent |-> accepted[i].agent, id |-> PlannedId(i), answer |-> answer, nr |-> i]

LEMMA OutputFields ==
  ASSUME accepted \in Seq(Tasks), NEW s \in States, NEW i \in 1 .. Len(accepted),
         NEW answer \in Answers
  PROVE  LET t == WithOutput(s, i, answer)
         IN  /\ OutputOf(i, answer) \in Outputs
             /\ t \in States
             /\ t.outputs = Append(s.outputs, OutputOf(i, answer))
             /\ t.pending = s.pending /\ t.completed = s.completed /\ t.steps = s.steps
             /\ t.reviews = s.reviews /\ t.sources = s.sources /\ t.final = s.final
<1>1. accepted[i] \in Tasks
  OBVIOUS
<1>2. OutputOf(i, answer) \in Outputs
  BY <1>1 DEF OutputOf, Outputs, Tasks, PlannedId
<1>3. Append(s.outputs, OutputOf(i, answer)) \in Seq(Outputs)
  BY <1>2, AppendProperties DEF States
<1> QED
  BY <1>2, <1>3 DEF WithOutput, OutputOf, States

LEMMA ReviewFields ==
  ASSUME NEW s \in States, NEW i \in Nat, NEW n \in Nat, NEW status \in Statuses,
         result \in Answers
  PROVE  LET t == WithReview(s, i, n, status)
             r == [nr |-> i, attempt |-> n, status |-> status, seen |-> result]
         IN  /\ r \in Reviews
             /\ t \in States
             /\ t.reviews = Append(s.reviews, r)
             /\ t.pending = s.pending /\ t.completed = s.completed /\ t.steps = s.steps
             /\ t.outputs = s.outputs /\ t.sources = s.sources /\ t.final = s.final
<1> DEFINE r == [nr |-> i, attempt |-> n, status |-> status, seen |-> result]
<1>1. r \in Reviews
  BY DEF Reviews
<1>2. Append(s.reviews, r) \in Seq(Reviews)
  BY <1>1, AppendProperties DEF States
<1> QED
  BY <1>1, <1>2 DEF WithReview, States

LEMMA FailedReview ==
  ASSUME NEW s \in States, NEW i \in Nat, NEW n \in Nat, result \in Answers
  PROVE  LET t == WithReview(s, i, n, "fail")
         IN  /\ t \in States /\ t.pending = s.pending
             /\ t.completed = s.completed /\ t.steps = s.steps
<1>1. "fail" \in Statuses
  BY DEF Statuses
<1> QED
  BY <1>1, ReviewFields

LEMMA JobFields ==
  ASSUME accepted \in Seq(Tasks), NEW i \in 1 .. Len(accepted)
  PROVE  /\ accepted[i] \in Tasks
         /\ accepted[i].text \in Texts
         /\ accepted[i].agent \in Agents
<1>1. accepted[i] \in Tasks
  OBVIOUS
<1> QED
  BY <1>1 DEF Tasks

LEMMA TailPart ==
  ASSUME NEW S, NEW b \in Seq(S), Len(b) >= 1, NEW rest, rest = SubSeq(b, 2, Len(b))
  PROVE  /\ rest \in Seq(S) /\ Len(rest) = Len(b) - 1
         /\ \A k \in 1 .. Len(b) - 1 : rest[k] = b[k + 1]
<1>1. /\ Len(b) \in Nat /\ 2 \in Int /\ Len(b) \in Int
      /\ \A k \in 2 .. Len(b) : b[k] \in S
  OBVIOUS
<1>2. /\ rest \in Seq(S)
      /\ Len(rest) = IF 2 <= Len(b) THEN Len(b) - 2 + 1 ELSE 0
      /\ \A k \in 1 .. Len(b) - 2 + 1 : rest[k] = b[2 + k - 1]
  BY <1>1, SubSeqProperties
<1>3. Len(b) - 2 + 1 = Len(b) - 1 /\ \A k \in 1 .. Len(b) - 1 : 2 + k - 1 = k + 1
  BY <1>1
<1> QED
  BY <1>1, <1>2, <1>3

\* Taking the head off by its value leaves the tail.
LEMMA HeadRemoved ==
  ASSUME NEW S, NEW b \in Seq(S), Len(b) >= 1, NEW e, e = b[1],
         NEW rest, rest = RemoveFirst(b, e)
  PROVE  /\ rest \in Seq(S) /\ Len(rest) = Len(b) - 1
         /\ \A k \in 1 .. Len(b) - 1 : rest[k] = b[k + 1]
<1>1. PICK c : c = SubSeq(b, 2, Len(b))
  OBVIOUS
<1>2. /\ c \in Seq(S) /\ Len(c) = Len(b) - 1
      /\ \A k \in 1 .. Len(b) - 1 : c[k] = b[k + 1]
  BY <1>1, TailPart
<1>3. Len(b) \in Nat /\ 1 \in 1 .. Len(b)
  OBVIOUS
<1>4. SelectInSeq(b, LAMBDA v : v = e) = 1
  <2> DEFINE I == {k \in 1 .. Len(b) : b[k] = e}
  <2>1. I \in SUBSET Nat /\ I # {} /\ 1 \in I
    BY <1>3
  <2>2. Min(I) \in I /\ Min(I) <= 1
    BY <2>1, SmallestOf
  <2>3. Min(I) = 1
    BY <1>3, <2>2
  <2> QED
    BY <2>1, <2>3 DEF SelectInSeq
<1>5. RemoveFirst(b, e) = RemoveAt(b, 1)
  BY <1>3, <1>4, Zenon DEF RemoveFirst
<1>6. RemoveAt(b, 1) = <<>> \o c
  BY <1>1, <1>3, SubSeqEmpty DEF RemoveAt
<1>7. rest = c
  BY <1>2, <1>5, <1>6, ConcatEmptySeq
<1> QED
  BY <1>2, <1>7

\* Completing the task whose turn it is takes it from the head of what is pending.
LEMMA CompletedFields ==
  ASSUME accepted \in Seq(Tasks), NEW s \in States, NEW i \in 1 .. Len(accepted),
         i = Turn(s), Listed(s)
  PROVE  LET t == Completed(s, i)
         IN  /\ t \in States
             /\ Count(t) = i
             /\ Listed(t)
             /\ t.outputs = s.outputs /\ t.reviews = s.reviews /\ t.steps = s.steps
             /\ t.sources = s.sources /\ t.final = s.final
<1>1. PICK a, b, text : /\ a = s.completed /\ b = s.pending /\ text = accepted[i].text
  OBVIOUS
<1>2. PICK c, rest : c = Append(a, text) /\ rest = RemoveFirst(b, text)
  OBVIOUS
<1>3. /\ a \in Seq(Texts) /\ b \in Seq(Texts) /\ text \in Texts
      /\ Len(a) \in Nat /\ Len(b) \in Nat /\ i = Len(a) + 1
      /\ Len(a) + Len(b) = Len(accepted)
      /\ \A k \in 1 .. Len(a) : a[k] = accepted[k].text
      /\ \A k \in 1 .. Len(b) : b[k] = accepted[Len(a) + k].text
  <2>1. a \in Seq(Texts) /\ b \in Seq(Texts)
    BY <1>1 DEF States
  <2>2. text \in Texts
    BY <1>1, JobFields
  <2>3. Len(a) \in Nat /\ Len(b) \in Nat
    BY <2>1
  <2> QED
    BY <1>1, <2>1, <2>2, <2>3 DEF Turn, Count, Listed
<1>4. Len(b) >= 1 /\ b[1] = text
  <2>1. Len(accepted) \in Nat
    OBVIOUS
  <2>2. Len(b) >= 1
    BY <1>3, <2>1
  <2>3. 1 \in 1 .. Len(b)
    BY <1>3, <2>2
  <2> QED
    BY <1>1, <1>3, <2>2, <2>3
<1>5. /\ rest \in Seq(Texts) /\ Len(rest) = Len(b) - 1
      /\ \A k \in 1 .. Len(b) - 1 : rest[k] = b[k + 1]
  BY <1>2, <1>3, <1>4, HeadRemoved
<1>6. /\ c \in Seq(Texts) /\ Len(c) = i
      /\ \A k \in 1 .. i : c[k] = accepted[k].text
  <2>1. /\ c \in Seq(Texts) /\ Len(c) = Len(a) + 1
        /\ \A k \in 1 .. Len(a) : c[k] = a[k]
        /\ c[Len(a) + 1] = text
    BY <1>2, <1>3, AppendProperties
  <2>2. ASSUME NEW k \in 1 .. i PROVE c[k] = accepted[k].text
    <3>1. k \in 1 .. Len(a) \/ k = i
      BY <1>3
    <3> QED
      BY <1>1, <1>3, <2>1, <3>1
  <2> QED
    BY <1>3, <2>1, <2>2
<1>7. LET t == Completed(s, i)
      IN  /\ t \in States
          /\ t.completed = c /\ t.pending = rest
          /\ t.outputs = s.outputs /\ t.reviews = s.reviews /\ t.steps = s.steps
          /\ t.sources = s.sources /\ t.final = s.final
  BY <1>1, <1>2, <1>5, <1>6 DEF Completed, States
<1>8. \A k \in 1 .. Len(rest) : rest[k] = accepted[Len(c) + k].text
  <2>1. ASSUME NEW k \in 1 .. Len(rest) PROVE rest[k] = accepted[Len(c) + k].text
    <3>1. k + 1 \in 1 .. Len(b) /\ Len(a) + (k + 1) = Len(c) + k /\ k \in 1 .. Len(b) - 1
      BY <1>3, <1>5, <1>6
    <3> QED
      BY <1>3, <1>5, <3>1
  <2> QED
    BY <2>1
<1>9. Len(c) + Len(rest) = Len(accepted)
  <2>1. Len(c) = Len(a) + 1 /\ Len(rest) = Len(b) - 1
    BY <1>3, <1>5, <1>6
  <2>2. Len(a) \in Nat /\ Len(b) \in Nat /\ Len(a) + Len(b) = Len(accepted)
    BY <1>3
  <2> QED
    BY <2>1, <2>2
<1> QED
  BY <1>6, <1>7, <1>8, <1>9 DEF Count, Listed

\* The last entry about the current task, if it is the last of all, is the one
\* WithAnswer replaces.
LEMMA AnswerFields ==
  ASSUME accepted \in Seq(Tasks), NEW s \in States, NEW i \in 1 .. Len(accepted),
         NEW answer \in Answers, s.outputs # <<>>,
         Last(s.outputs).agent = accepted[i].agent, Last(s.outputs).id = PlannedId(i)
  PROVE  LET t == WithAnswer(s, i, answer)
         IN  /\ t \in States
             /\ Len(t.outputs) = Len(s.outputs)
             /\ \A k \in 1 .. Len(s.outputs) :
                  /\ t.outputs[k].nr = s.outputs[k].nr
                  /\ t.outputs[k].agent = s.outputs[k].agent
                  /\ t.outputs[k].id = s.outputs[k].id
                  /\ k < Len(s.outputs) => t.outputs[k] = s.outputs[k]
             /\ t.outputs[Len(s.outputs)].answer = answer
             /\ t.pending = s.pending /\ t.completed = s.completed /\ t.steps = s.steps
             /\ t.reviews = s.reviews /\ t.sources = s.sources /\ t.final = s.final
<1>1. PICK list, n : list = s.outputs /\ n = Len(s.outputs)
  OBVIOUS
<1>2. /\ list \in Seq(Outputs) /\ n \in Nat /\ n >= 1 /\ DOMAIN list = 1 .. n /\ Len(list) = n
      /\ list[n].agent = accepted[i].agent /\ list[n].id = PlannedId(i)
      /\ list[n] \in Outputs
  BY <1>1 DEF States, Last
<1>3. SelectLastInSeq(list, LAMBDA o : o.agent = accepted[i].agent /\ o.id = PlannedId(i)) = n
  <2> DEFINE I == {k \in 1 .. n : list[k].agent = accepted[i].agent /\ list[k].id = PlannedId(i)}
  <2>1. I \in SUBSET (0 .. n) /\ n \in I /\ I # {}
    BY <1>2
  <2>2. Max(I) \in I /\ n <= Max(I)
    BY <1>2, <2>1, LargestOf, Zenon
  <2>3. Max(I) = n
    <3>1. Max(I) \in 1 .. n
      BY <2>2
    <3> QED
      BY <1>2, <2>2, <3>1
  <2> QED
    BY <1>2, <2>1, <2>3 DEF SelectLastInSeq
<1>4. PICK e : e = [list[n] EXCEPT !.answer = answer]
  OBVIOUS
<1>5. e \in Outputs /\ e.answer = answer /\ e.nr = list[n].nr /\ e.agent = list[n].agent
      /\ e.id = list[n].id
  BY <1>2, <1>4 DEF Outputs
<1>6. PICK other : other = [list EXCEPT ![n] = e]
  OBVIOUS
<1>7. /\ other \in Seq(Outputs) /\ Len(other) = n
      /\ other[n] = e /\ \A k \in 1 .. n : k < n => other[k] = list[k]
  BY <1>2, <1>5, <1>6
<1>8. WithAnswer(s, i, answer) = [s EXCEPT !.outputs = other]
  <2>1. WithAnswer(s, i, answer) = [s EXCEPT !.outputs[n].answer = answer]
    BY <1>1, <1>3, Zenon DEF WithAnswer
  <2> QED
    BY <1>1, <1>4, <1>6, <2>1
<1>9. LET t == WithAnswer(s, i, answer)
      IN  /\ t \in States
          /\ t.outputs = other
          /\ t.pending = s.pending /\ t.completed = s.completed /\ t.steps = s.steps
          /\ t.reviews = s.reviews /\ t.sources = s.sources /\ t.final = s.final
  BY <1>7, <1>8 DEF States
<1>10. \A k \in 1 .. n : /\ other[k].nr = list[k].nr /\ other[k].agent = list[k].agent
                         /\ other[k].id = list[k].id
  <2>1. ASSUME NEW k \in 1 .. n
        PROVE  /\ other[k].nr = list[k].nr /\ other[k].agent = list[k].agent
               /\ other[k].id = list[k].id
    <3>1. CASE k = n
      BY <1>5, <1>7, <3>1
    <3>2. CASE k < n
      BY <1>7, <3>2
    <3> QED
      BY <1>2, <3>1, <3>2
  <2> QED
    BY <2>1
<1> QED
  BY <1>1, <1>2, <1>5, <1>7, <1>9, <1>10

----------------------------------------------------------------------------
(* What is in order stays so.                                              *)

\* s and t have the same entries about task i, at the same places.
Agree(s, t, i) ==
  /\ About(t.outputs, i) = About(s.outputs, i)
  /\ \A k \in About(s.outputs, i) : t.outputs[k] = s.outputs[k]
  /\ About(t.reviews, i) = About(s.reviews, i)
  /\ \A k \in About(s.reviews, i) : t.reviews[k] = s.reviews[k]

LEMMA StateFields ==
  ASSUME NEW s \in States
  PROVE  /\ s.outputs \in Seq(Outputs) /\ s.reviews \in Seq(Reviews)
         /\ s.completed \in Seq(Texts) /\ s.pending \in Seq(Texts)
         /\ s.steps \in Nat /\ s.sources \in BOOLEAN
         /\ Count(s) \in Nat /\ Turn(s) \in Nat /\ Turn(s) = Count(s) + 1
<1>1. /\ s.outputs \in Seq(Outputs) /\ s.reviews \in Seq(Reviews)
      /\ s.completed \in Seq(Texts) /\ s.pending \in Seq(Texts)
      /\ s.steps \in Nat /\ s.sources \in BOOLEAN
  BY DEF States
<1>2. Len(s.completed) \in Nat
  BY <1>1
<1> QED
  BY <1>1, <1>2 DEF Count, Turn

\* A task whose entries are the same rests on the same.
LEMMA AgreeKept ==
  ASSUME NEW s \in States, NEW t \in States, NEW i, Agree(s, t, i)
  PROVE  /\ Vouched(s, i) => Vouched(t, i)
         /\ \A n, m : Tried(s, i, n, m) => Tried(t, i, n, m)
         /\ About(t.outputs, i) = About(s.outputs, i)
<1>1. /\ LastAbout(t.outputs, i) = LastAbout(s.outputs, i)
      /\ LastAbout(t.reviews, i) = LastAbout(s.reviews, i)
  BY StateFields, SameAbout DEF Agree
<1>2. /\ LastAbout(s.outputs, i) # 0 => LastAbout(s.outputs, i) \in About(s.outputs, i)
      /\ LastAbout(s.reviews, i) # 0 => LastAbout(s.reviews, i) \in About(s.reviews, i)
  BY StateFields, LastAboutFound
<1>3. Vouched(s, i) => Vouched(t, i)
  BY <1>1, <1>2 DEF Agree, Vouched
<1>4. \A n, m : Tried(s, i, n, m) => Tried(t, i, n, m)
  BY Zenon DEF Agree, Tried
<1> QED
  BY <1>3, <1>4 DEF Agree

LEMMA AppendFacts ==
  ASSUME NEW S, NEW q \in Seq(S), NEW e \in S
  PROVE  LET r == Append(q, e)
         IN  /\ Len(q) \in Nat /\ Len(r) = Len(q) + 1
             /\ DOMAIN q = 1 .. Len(q) /\ DOMAIN r = 1 .. Len(q) + 1
             /\ \A k \in 1 .. Len(q) : r[k] = q[k]
             /\ r[Len(q) + 1] = e
  BY AppendProperties

LEMMA DoneKept ==
  ASSUME NEW s \in States, NEW t \in States, DoneInOrder(s), Count(t) = Count(s),
         \A i \in 1 .. Count(s) : Agree(s, t, i)
  PROVE  DoneInOrder(t)
<1>1. ASSUME NEW i \in 1 .. Count(t)
      PROVE  /\ About(t.outputs, i) # {}
             /\ Gated(accepted[i].agent) => Vouched(t, i)
             /\ Tried(t, i, MaxReviewRetries + 1, MaxReviewRetries + 2)
  <2>1. Agree(s, t, i)
    BY <1>1
  <2>2. /\ About(s.outputs, i) # {}
        /\ Gated(accepted[i].agent) => Vouched(s, i)
        /\ Tried(s, i, MaxReviewRetries + 1, MaxReviewRetries + 2)
    BY <1>1, Zenon DEF DoneInOrder
  <2> QED
    BY <2>1, <2>2, AgreeKept
<1> QED
  BY <1>1 DEF DoneInOrder

\* A new entry is not about another task.
LEMMA AppendAgrees ==
  ASSUME NEW S, NEW list \in Seq(S), NEW e \in S, NEW i, e.nr # i
  PROVE  LET t == Append(list, e)
         IN  /\ About(t, i) = About(list, i)
             /\ \A k \in About(list, i) : k \in 1 .. Len(list)
<1>1. About(Append(list, e), i) = About(list, i)
  BY AboutAppend
<1>2. \A k \in About(list, i) : k \in 1 .. Len(list)
  BY DEF About
<1> QED
  BY <1>1, <1>2

\* Nothing is known of a task beyond the top.
LEMMA NothingBeyond ==
  ASSUME NEW top \in Nat, NEW s, Books(s, top), NEW i \in Nat, i > top
  PROVE  /\ About(s.outputs, i) = {} /\ About(s.reviews, i) = {}
         /\ Tried(s, i, 0, 0)
<1>1. s \in States /\ OutputsInOrder(s, top)
      /\ \A k \in DOMAIN s.reviews : s.reviews[k].nr \in 1 .. top
  BY DEF Books
<1>2. About(s.outputs, i) = {}
  BY <1>1 DEF OutputsInOrder, About
<1>3. About(s.reviews, i) = {}
  BY <1>1 DEF About
<1>4. Cardinality(About(s.outputs, i)) = 0 /\ Cardinality(About(s.reviews, i)) = 0
  BY <1>1, <1>2, <1>3, StateFields, AboutFinite
<1> QED
  BY <1>2, <1>3, <1>4 DEF Tried

LEMMA BooksHigher ==
  ASSUME NEW s, NEW low \in Nat, NEW top \in Nat, low <= top, Books(s, low)
  PROVE  Books(s, top)
<1>1. OutputsInOrder(s, top)
  BY DEF Books, OutputsInOrder
<1> QED
  BY <1>1 DEF Books

\* The fields Books does not look at, and sources that turn up.
LEMMA BooksSame ==
  ASSUME NEW s, NEW top, Books(s, top), NEW t \in States,
         t.completed = s.completed, t.pending = s.pending,
         t.outputs = s.outputs, t.reviews = s.reviews, s.sources => t.sources
  PROVE  Books(t, top)
<1>1. OutputsInOrder(t, top)
  BY DEF Books, OutputsInOrder
<1>2. DoneInOrder(t)
  BY DEF Books, DoneInOrder, Count, Vouched, Tried
<1>3. Listed(t)
  BY DEF Books, Listed, Count
<1> QED
  BY <1>1, <1>2, <1>3 DEF Books

\* Tried is a bound.
LEMMA TriedMore ==
  ASSUME NEW s \in States, NEW i, NEW n \in Nat, NEW m \in Nat, Tried(s, i, n, m),
         NEW p \in Nat, NEW q \in Nat, n <= p, m <= q
  PROVE  Tried(s, i, p, q)
  BY StateFields, AboutFinite DEF Tried

----------------------------------------------------------------------------
(* The steps of a task.                                                    *)

\* The output of the task whose turn it is.
LEMMA OutputBooked ==
  ASSUME accepted \in Seq(Tasks), NEW s, NEW top \in Nat, Books(s, top),
         NEW i \in 1 .. Len(accepted), i = Turn(s), top <= i,
         NEW answer \in Answers,
         Gated(accepted[i].agent) /\ MayAbstain(accepted[i].agent) /\ answer = "claims"
           => s.sources
  PROVE  LET t == WithOutput(s, i, answer)
         IN  /\ Books(t, i)
             /\ t.outputs # <<>>
             /\ Last(t.outputs).nr = i /\ Last(t.outputs).answer = answer
             /\ \A n, m \in Nat : Tried(s, i, n, m) => Tried(t, i, n + 1, m)
<1> DEFINE t == WithOutput(s, i, answer)
           e == OutputOf(i, answer)
<1>1. s \in States /\ Listed(s) /\ OutputsInOrder(s, top) /\ DoneInOrder(s)
      /\ \A k \in DOMAIN s.reviews : s.reviews[k].nr \in 1 .. top
  BY DEF Books
<1>2. /\ e \in Outputs /\ t \in States
      /\ t.outputs = Append(s.outputs, e)
      /\ t.pending = s.pending /\ t.completed = s.completed
      /\ t.reviews = s.reviews /\ t.sources = s.sources
  BY <1>1, OutputFields
<1>3. /\ e.nr = i /\ e.agent = accepted[i].agent /\ e.id = PlannedId(i) /\ e.answer = answer
  BY DEF OutputOf
<1> HIDE DEF t, e
<1>4. /\ Len(s.outputs) \in Nat /\ Len(t.outputs) = Len(s.outputs) + 1
      /\ DOMAIN s.outputs = 1 .. Len(s.outputs) /\ DOMAIN t.outputs = 1 .. Len(s.outputs) + 1
      /\ \A k \in 1 .. Len(s.outputs) : t.outputs[k] = s.outputs[k]
      /\ t.outputs[Len(s.outputs) + 1] = e
  <2>1. s.outputs \in Seq(Outputs)
    BY <1>1, StateFields
  <2> QED
    BY <1>2, <2>1, AppendFacts
<1>5. Count(t) = Count(s) /\ Count(s) \in Nat /\ i = Count(s) + 1
  BY <1>1, <1>2, StateFields DEF Count
<1>6. Listed(t)
  BY <1>1, <1>2, <1>5 DEF Listed
<1>7. OutputsInOrder(t, i)
  <2>1. ASSUME NEW k \in 1 .. Len(s.outputs)
        PROVE  LET o == t.outputs[k]
               IN  /\ o.nr \in 1 .. i
                   /\ o.agent = accepted[o.nr].agent
                   /\ o.id = PlannedId(o.nr)
                   /\ \A j \in 1 .. k : t.outputs[j].nr <= o.nr
                   /\ Gated(o.agent) /\ MayAbstain(o.agent) /\ o.answer = "claims" => t.sources
    <3>1. LET o == s.outputs[k]
          IN  /\ o.nr \in 1 .. top
              /\ o.agent = accepted[o.nr].agent
              /\ o.id = PlannedId(o.nr)
              /\ \A j \in 1 .. k : s.outputs[j].nr <= o.nr
              /\ Gated(o.agent) /\ MayAbstain(o.agent) /\ o.answer = "claims" => s.sources
      BY <1>1, <1>4, <2>1, Zenon DEF OutputsInOrder
    <3>2. \A j \in 1 .. k : t.outputs[j] = s.outputs[j]
      BY <1>4
    <3> QED
      BY <1>2, <1>4, <3>1, <3>2
  <2>2. \A j \in 1 .. Len(s.outputs) : t.outputs[j].nr \in 1 .. i
    BY <2>1
  <2>3. ASSUME NEW k, k = Len(s.outputs) + 1
        PROVE  LET o == t.outputs[k]
               IN  /\ o.nr \in 1 .. i
                   /\ o.agent = accepted[o.nr].agent
                   /\ o.id = PlannedId(o.nr)
                   /\ \A j \in 1 .. k : t.outputs[j].nr <= o.nr
                   /\ Gated(o.agent) /\ MayAbstain(o.agent) /\ o.answer = "claims" => t.sources
    <3>1. t.outputs[k] = e
      BY <1>4, <2>3
    <3>2. \A j \in 1 .. k : t.outputs[j].nr <= i
      <4>1. \A j \in 1 .. k : j \in 1 .. Len(s.outputs) \/ j = k
        BY <1>4, <2>3
      <4> QED
        BY <1>3, <2>2, <3>1, <4>1
    <3>3. e.nr \in 1 .. i /\ e.agent = accepted[e.nr].agent /\ e.id = PlannedId(e.nr)
      BY <1>3
    <3>4. Gated(e.agent) /\ MayAbstain(e.agent) /\ e.answer = "claims" => t.sources
      BY <1>2, <1>3
    <3> QED
      BY <1>3, <3>1, <3>2, <3>3, <3>4
  <2>4. \A k \in DOMAIN t.outputs : k \in 1 .. Len(s.outputs) \/ k = Len(s.outputs) + 1
    BY <1>4
  <2> QED
    BY <2>1, <2>3, <2>4 DEF OutputsInOrder
<1>8. \A k \in DOMAIN t.reviews : t.reviews[k].nr \in 1 .. i
  BY <1>1, <1>2
<1>9. DoneInOrder(t)
  <2>1. ASSUME NEW j \in 1 .. Count(s) PROVE Agree(s, t, j)
    <3>1. e.nr # j
      BY <1>3, <1>5
    <3>2. s.outputs \in Seq(Outputs)
      BY <1>1, StateFields
    <3>3. /\ About(t.outputs, j) = About(s.outputs, j)
          /\ \A k \in About(s.outputs, j) : k \in 1 .. Len(s.outputs)
      BY <1>2, <3>1, <3>2, AppendAgrees
    <3> QED
      BY <1>2, <1>4, <3>3 DEF Agree
  <2> QED
    BY <1>1, <1>2, <1>5, <2>1, DoneKept
<1>10. ASSUME NEW n \in Nat, NEW m \in Nat, Tried(s, i, n, m) PROVE Tried(t, i, n + 1, m)
  <2>1. s.outputs \in Seq(Outputs)
    BY <1>1, StateFields
  <2>2. Cardinality(About(s.outputs, i)) \in Nat
    BY <2>1, AboutFinite
  <2>3. Cardinality(About(Append(s.outputs, e), i)) = Cardinality(About(s.outputs, i)) + 1
    BY <1>2, <1>3, <2>1, AboutAppend
  <2>4. Cardinality(About(t.outputs, i)) = Cardinality(About(s.outputs, i)) + 1
    BY <1>2, <2>3
  <2> QED
    BY <1>2, <1>10, <2>2, <2>4 DEF Tried
<1>11. t.outputs # <<>> /\ Last(t.outputs) = e
  BY <1>4 DEF Last
<1> QED
  BY <1>2, <1>3, <1>6, <1>7, <1>8, <1>9, <1>10, <1>11 DEF Books, t

\* Its review.
LEMMA ReviewBooked ==
  ASSUME accepted \in Seq(Tasks), NEW s, NEW i \in 1 .. Len(accepted), Books(s, i),
         i = Turn(s), NEW a \in Nat, NEW status \in Statuses, result \in Answers
  PROVE  LET t == WithReview(s, i, a, status)
         IN  /\ Books(t, i)
             /\ t.outputs = s.outputs
             /\ t.completed = s.completed /\ t.steps = s.steps
             /\ t.reviews # <<>>
             /\ Last(t.reviews).status = status
             /\ t.reviews[LastAbout(t.reviews, i)].status = status
             /\ t.reviews[LastAbout(t.reviews, i)].seen = result
             /\ LastAbout(t.reviews, i) # 0
             /\ \A n, m \in Nat : Tried(s, i, n, m) => Tried(t, i, n, m + 1)
<1> DEFINE t == WithReview(s, i, a, status)
           e == [nr |-> i, attempt |-> a, status |-> status, seen |-> result]
<1>1. s \in States /\ Listed(s) /\ OutputsInOrder(s, i) /\ DoneInOrder(s)
      /\ \A k \in DOMAIN s.reviews : s.reviews[k].nr \in 1 .. i
  BY DEF Books
<1>2. /\ e \in Reviews /\ t \in States
      /\ t.reviews = Append(s.reviews, e)
      /\ t.pending = s.pending /\ t.completed = s.completed
      /\ t.outputs = s.outputs /\ t.sources = s.sources /\ t.steps = s.steps
  BY <1>1, ReviewFields
<1>3. e.nr = i /\ e.status = status /\ e.seen = result
  OBVIOUS
<1> HIDE DEF t, e
<1>4. /\ Len(s.reviews) \in Nat /\ Len(t.reviews) = Len(s.reviews) + 1
      /\ DOMAIN s.reviews = 1 .. Len(s.reviews) /\ DOMAIN t.reviews = 1 .. Len(s.reviews) + 1
      /\ \A k \in 1 .. Len(s.reviews) : t.reviews[k] = s.reviews[k]
      /\ t.reviews[Len(s.reviews) + 1] = e
  <2>1. s.reviews \in Seq(Reviews)
    BY <1>1, StateFields
  <2> QED
    BY <1>2, <2>1, AppendFacts
<1>5. Count(t) = Count(s) /\ Count(s) \in Nat /\ i = Count(s) + 1
  BY <1>1, <1>2, StateFields DEF Count
<1>6. Listed(t)
  BY <1>1, <1>2, <1>5 DEF Listed
<1>7. OutputsInOrder(t, i)
  BY <1>1, <1>2 DEF OutputsInOrder
<1>8. \A k \in DOMAIN t.reviews : t.reviews[k].nr \in 1 .. i
  <2>1. \A k \in DOMAIN t.reviews : k \in DOMAIN s.reviews \/ k = Len(s.reviews) + 1
    BY <1>4
  <2>2. ASSUME NEW k \in DOMAIN s.reviews PROVE t.reviews[k].nr \in 1 .. i
    <3>1. t.reviews[k] = s.reviews[k]
      BY <1>4, <2>2
    <3> QED
      BY <1>1, <3>1
  <2>3. t.reviews[Len(s.reviews) + 1].nr \in 1 .. i
    <3>1. i \in 1 .. i
      BY <1>5
    <3> QED
      BY <1>3, <1>4, <3>1
  <2> QED
    BY <2>1, <2>2, <2>3
<1>9. DoneInOrder(t)
  <2>1. ASSUME NEW j \in 1 .. Count(s) PROVE Agree(s, t, j)
    <3>1. e.nr # j
      BY <1>3, <1>5
    <3>2. s.reviews \in Seq(Reviews)
      BY <1>1, StateFields
    <3>3. /\ About(t.reviews, j) = About(s.reviews, j)
          /\ \A k \in About(s.reviews, j) : k \in 1 .. Len(s.reviews)
      BY <1>2, <3>1, <3>2, AppendAgrees
    <3> QED
      BY <1>2, <1>4, <3>3 DEF Agree
  <2> QED
    BY <1>1, <1>2, <1>5, <2>1, DoneKept
<1>10. LastAbout(t.reviews, i) = Len(s.reviews) + 1
  <2>1. s.reviews \in Seq(Reviews)
    BY <1>1, StateFields
  <2> QED
    BY <1>2, <1>3, <2>1, AboutAppend
<1>11. ASSUME NEW n \in Nat, NEW m \in Nat, Tried(s, i, n, m) PROVE Tried(t, i, n, m + 1)
  <2>1. /\ Cardinality(About(t.reviews, i)) = Cardinality(About(s.reviews, i)) + 1
        /\ Cardinality(About(s.reviews, i)) \in Nat
    <3>1. s.reviews \in Seq(Reviews)
      BY <1>1, StateFields
    <3>2. Cardinality(About(s.reviews, i)) \in Nat
      BY <3>1, AboutFinite
    <3> QED
      BY <1>2, <1>3, <3>1, <3>2, AboutAppend
  <2> QED
    BY <1>2, <1>11, <2>1 DEF Tried
<1>12. t.reviews # <<>> /\ Last(t.reviews) = e
  BY <1>4 DEF Last
<1> QED
  BY <1>2, <1>3, <1>4, <1>6, <1>7, <1>8, <1>9, <1>10, <1>11, <1>12 DEF Books, t

\* It is complete.
LEMMA CompletionBooked ==
  ASSUME accepted \in Seq(Tasks), NEW s, NEW i \in 1 .. Len(accepted), Books(s, i),
         i = Turn(s), About(s.outputs, i) # {},
         Gated(accepted[i].agent) => Vouched(s, i),
         Tried(s, i, MaxReviewRetries + 1, MaxReviewRetries + 2)
  PROVE  LET t == Completed(s, i)
         IN  /\ Books(t, i) /\ Count(t) = i
             /\ t.steps = s.steps /\ t.outputs = s.outputs /\ t.reviews = s.reviews
             /\ t.final = s.final
<1> DEFINE t == Completed(s, i)
<1>1. s \in States /\ Listed(s) /\ OutputsInOrder(s, i) /\ DoneInOrder(s)
      /\ \A k \in DOMAIN s.reviews : s.reviews[k].nr \in 1 .. i
  BY DEF Books
<1>2. /\ t \in States /\ Count(t) = i /\ Listed(t)
      /\ t.outputs = s.outputs /\ t.reviews = s.reviews /\ t.steps = s.steps
      /\ t.sources = s.sources /\ t.final = s.final
  BY <1>1, CompletedFields
<1> HIDE DEF t
<1>3. OutputsInOrder(t, i)
  BY <1>1, <1>2 DEF OutputsInOrder
<1>4. DoneInOrder(t)
  <2>1. \A j : (Vouched(s, j) => Vouched(t, j)) /\ About(t.outputs, j) = About(s.outputs, j)
               /\ \A n, m : Tried(s, j, n, m) => Tried(t, j, n, m)
    BY <1>2, Zenon DEF Vouched, Tried
  <2>2. \A j \in 1 .. Count(t) : j \in 1 .. Count(s) \/ j = i
    BY <1>1, <1>2, StateFields
  <2> QED
    BY <1>1, <2>1, <2>2, Zenon DEF DoneInOrder
<1> QED
  BY <1>1, <1>2, <1>3, <1>4 DEF Books, t

\* Its answer is replaced by an abstention.
LEMMA AbstentionBooked ==
  ASSUME accepted \in Seq(Tasks), NEW s, NEW i \in 1 .. Len(accepted), Books(s, i),
         i = Turn(s), s.outputs # <<>>, Last(s.outputs).nr = i
  PROVE  LET t == WithAnswer(s, i, "unverified")
         IN  /\ Books(t, i) /\ Turn(t) = i
             /\ t.steps = s.steps /\ t.reviews = s.reviews
             /\ t.outputs # <<>>
             /\ Last(t.outputs).nr = i /\ Last(t.outputs).answer = "unverified"
             /\ \A n, m : Tried(s, i, n, m) => Tried(t, i, n, m)
<1> DEFINE t == WithAnswer(s, i, "unverified")
<1>1. s \in States /\ Listed(s) /\ OutputsInOrder(s, i) /\ DoneInOrder(s)
      /\ \A k \in DOMAIN s.reviews : s.reviews[k].nr \in 1 .. i
  BY DEF Books
<1>2. /\ Len(s.outputs) \in Nat /\ Len(s.outputs) >= 1
      /\ DOMAIN s.outputs = 1 .. Len(s.outputs)
  BY <1>1, StateFields
<1>3. Last(s.outputs).agent = accepted[i].agent /\ Last(s.outputs).id = PlannedId(i)
  <2>1. Len(s.outputs) \in DOMAIN s.outputs
    BY <1>2
  <2> QED
    BY <1>1, <2>1 DEF OutputsInOrder, Last
<1>4. "unverified" \in Answers
  BY DEF Answers
<1>5. /\ t \in States
      /\ Len(t.outputs) = Len(s.outputs)
      /\ \A k \in 1 .. Len(s.outputs) :
           /\ t.outputs[k].nr = s.outputs[k].nr
           /\ t.outputs[k].agent = s.outputs[k].agent
           /\ t.outputs[k].id = s.outputs[k].id
           /\ k < Len(s.outputs) => t.outputs[k] = s.outputs[k]
      /\ t.outputs[Len(s.outputs)].answer = "unverified"
      /\ t.pending = s.pending /\ t.completed = s.completed /\ t.steps = s.steps
      /\ t.reviews = s.reviews /\ t.sources = s.sources
  BY <1>1, <1>3, <1>4, AnswerFields
<1> HIDE DEF t
<1>6. DOMAIN t.outputs = 1 .. Len(s.outputs)
  BY <1>5, StateFields
<1>7. Count(t) = Count(s) /\ Count(s) \in Nat /\ i = Count(s) + 1 /\ Turn(t) = i
  BY <1>1, <1>5, StateFields DEF Count, Turn
<1>8. Listed(t)
  BY <1>1, <1>5, <1>7 DEF Listed
<1>9. \A j : About(t.outputs, j) = About(s.outputs, j)
  BY <1>2, <1>5, <1>6 DEF About
<1>10. OutputsInOrder(t, i)
  <2>1. ASSUME NEW k \in 1 .. Len(s.outputs)
        PROVE  LET o == t.outputs[k]
               IN  /\ o.nr \in 1 .. i
                   /\ o.agent = accepted[o.nr].agent
                   /\ o.id = PlannedId(o.nr)
                   /\ \A j \in 1 .. k : t.outputs[j].nr <= o.nr
                   /\ Gated(o.agent) /\ MayAbstain(o.agent) /\ o.answer = "claims" => t.sources
    <3>1. LET o == s.outputs[k]
          IN  /\ o.nr \in 1 .. i
              /\ o.agent = accepted[o.nr].agent
              /\ o.id = PlannedId(o.nr)
              /\ \A j \in 1 .. k : s.outputs[j].nr <= o.nr
              /\ Gated(o.agent) /\ MayAbstain(o.agent) /\ o.answer = "claims" => s.sources
      BY <1>1, <1>2, <2>1, Zenon DEF OutputsInOrder
    <3>2. \A j \in 1 .. k : t.outputs[j].nr = s.outputs[j].nr
      BY <1>2, <1>5
    <3>3. t.outputs[k].answer = s.outputs[k].answer \/ t.outputs[k].answer = "unverified"
      BY <1>2, <1>5
    <3> QED
      BY <1>5, <3>1, <3>2, <3>3
  <2> QED
    BY <1>6, <2>1 DEF OutputsInOrder
<1>11. Last(t.outputs) = t.outputs[Len(s.outputs)] /\ Last(s.outputs) = s.outputs[Len(s.outputs)]
  BY <1>5 DEF Last
<1>12. DoneInOrder(t)
  <2>1. ASSUME NEW j \in 1 .. Count(s) PROVE Agree(s, t, j)
    <3>1. \A k \in About(s.outputs, j) : k \in 1 .. Len(s.outputs) /\ k # Len(s.outputs)
      BY <1>2, <1>7, <1>11 DEF About
    <3>2. \A k \in About(s.outputs, j) : t.outputs[k] = s.outputs[k]
      BY <1>2, <1>5, <3>1
    <3> QED
      BY <1>5, <1>9, <3>2 DEF Agree
  <2> QED
    BY <1>1, <1>5, <1>7, <2>1, DoneKept
<1>13. \A n, m : Tried(s, i, n, m) => Tried(t, i, n, m)
  BY <1>5, <1>9, Zenon DEF Tried
<1>14. t.outputs # <<>> /\ Last(t.outputs).nr = i /\ Last(t.outputs).answer = "unverified"
  <2>1. Len(s.outputs) \in 1 .. Len(s.outputs)
    BY <1>2
  <2> QED
    BY <1>2, <1>5, <1>6, <1>11, <2>1
<1> QED
  BY <1>1, <1>5, <1>7, <1>8, <1>10, <1>12, <1>13, <1>14 DEF Books, t

----------------------------------------------------------------------------
(* The books, from one state of the behaviour to the next.                 *)

\* The rows that Books depends on are read from variables that a step leaves alone.
LEMMA Carried ==
  ASSUME NEW t, NEW top, Books(t, top), UNCHANGED <<setup, accepted>>, state' = t
  PROVE  /\ at' = top => Books(state, at)'
         /\ Count(t) = top => Books(state, Count(state))'
         /\ Len(accepted) = top => Books(state, Len(accepted))'
<1>1. /\ mode' = mode /\ kind' = kind /\ reviewer' = reviewer /\ accepted' = accepted
  BY DEF setup
<1>2. /\ t \in States /\ Listed(t) /\ OutputsInOrder(t, top) /\ DoneInOrder(t)
      /\ \A k \in DOMAIN t.reviews : t.reviews[k].nr \in 1 .. top
  BY DEF Books
<1>3. Listed(state)'
  BY <1>1, <1>2 DEF Listed, Count
<1>4. DoneInOrder(state)'
  BY <1>1, <1>2, SMT DEF DoneInOrder, Count, Gated, Vouched, Tried
<1>5. at' = top => OutputsInOrder(state, at)'
  BY <1>1, <1>2, Zenon DEF OutputsInOrder, PlannedId, Gated, MayAbstain
<1>6. Count(t) = top => OutputsInOrder(state, Count(state))'
  BY <1>1, <1>2, Zenon DEF OutputsInOrder, PlannedId, Gated, MayAbstain, Count
<1>7. Len(accepted) = top => OutputsInOrder(state, Len(accepted))'
  BY <1>1, <1>2, Zenon DEF OutputsInOrder, PlannedId, Gated, MayAbstain
<1>8. at' = top => Books(state, at)'
  BY <1>1, <1>2, <1>3, <1>4, <1>5 DEF Books
<1>9. Count(t) = top => Books(state, Count(state))'
  BY <1>1, <1>2, <1>3, <1>4, <1>6 DEF Books, Count
<1>10. Len(accepted) = top => Books(state, Len(accepted))'
  BY <1>1, <1>2, <1>3, <1>4, <1>7 DEF Books
<1> QED
  BY <1>8, <1>9, <1>10

\* No task was tried more often than it may be.
LEMMA AllTried ==
  ASSUME accepted \in Seq(Tasks), NEW s, NEW top \in Nat, Books(s, top), top <= Turn(s),
         top = Turn(s) => Tried(s, top, MaxReviewRetries + 1, MaxReviewRetries + 2)
  PROVE  \A i \in DOMAIN accepted : Tried(s, i, MaxReviewRetries + 1, MaxReviewRetries + 2)
<1>1. /\ s \in States /\ DoneInOrder(s)
      /\ Count(s) \in Nat /\ Turn(s) = Count(s) + 1
  BY StateFields DEF Books
<1>2. ASSUME NEW i \in DOMAIN accepted
      PROVE  Tried(s, i, MaxReviewRetries + 1, MaxReviewRetries + 2)
  <2>1. i \in Nat /\ i >= 1
    OBVIOUS
  <2>2. CASE i \in 1 .. Count(s)
    BY <1>1, <2>2, Zenon DEF DoneInOrder
  <2>3. CASE i = top /\ top = Turn(s)
    BY <2>3, Zenon
  <2>4. CASE i > top
    <3>1. Tried(s, i, 0, 0)
      BY <2>1, <2>4, NothingBeyond
    <3>2. MaxReviewRetries + 1 \in Nat /\ MaxReviewRetries + 2 \in Nat
          /\ 0 <= MaxReviewRetries + 1 /\ 0 <= MaxReviewRetries + 2
      BY LimitsAssumption
    <3> QED
      BY <1>1, <3>1, <3>2, TriedMore
  <2> QED
    BY <1>1, <2>1, <2>2, <2>3, <2>4
<1> QED
  BY <1>2

\* A task at the end of which everything is done: nothing is left to do.
LEMMA FinishBooked ==
  ASSUME NEW s, NEW top \in Nat, Books(s, top), Count(s) = Len(accepted), NEW answer,
         answer \in {"model", "outputs"}
  PROVE  LET t == Finished(s, answer)
         IN  /\ Books(t, top) /\ Count(t) = Count(s)
             /\ t.pending = <<>> /\ t.final = answer
             /\ t.steps = s.steps /\ t.outputs = s.outputs /\ t.reviews = s.reviews
<1> DEFINE t == Finished(s, answer)
<1>1. /\ s \in States /\ s.pending \in Seq(Texts) /\ s.completed \in Seq(Texts)
      /\ Count(s) \in Nat
  BY StateFields DEF Books
<1>2. Len(s.pending) = 0
  BY <1>1 DEF Books, Listed
<1>3. s.pending = <<>>
  BY <1>1, <1>2, EmptySeq
<1>4. s.completed \o s.pending = s.completed
  BY <1>1, <1>3, ConcatEmptySeq
<1>5. /\ t \in States
      /\ t.completed = s.completed /\ t.pending = s.pending /\ t.final = answer
      /\ t.steps = s.steps /\ t.outputs = s.outputs /\ t.reviews = s.reviews
      /\ t.sources = s.sources
  BY <1>1, <1>3, <1>4 DEF Finished, States
<1> HIDE DEF t
<1>6. Books(t, top)
  BY <1>5, BooksSame
<1> QED
  BY <1>3, <1>5, <1>6 DEF Count, t

\* The fields that the books do not look at.
LEMMA RoundFields ==
  ASSUME state \in States
  PROVE  /\ Round \in States /\ Round.steps = state.steps + 1
         /\ Round.completed = state.completed /\ Round.pending = state.pending
         /\ Round.outputs = state.outputs /\ Round.reviews = state.reviews
         /\ Round.sources = state.sources /\ Round.final = state.final
<1>1. state.steps + 1 \in Nat
  BY DEF States
<1> QED
  BY <1>1 DEF Round, States

LEMMA FailedFields ==
  ASSUME NEW s \in States
  PROVE  LET t == Failed(s)
         IN  /\ t \in States /\ t.steps = s.steps
             /\ t.completed = s.completed /\ t.pending = s.pending
             /\ t.outputs = s.outputs /\ t.reviews = s.reviews
             /\ t.sources = s.sources /\ t.final = "failure"
  BY DEF Failed, States

LEMMA ToolsFields ==
  ASSUME NEW s \in States, NEW source \in BOOLEAN
  PROVE  LET t == WithTools(s, source)
         IN  /\ t \in States /\ t.steps = s.steps
             /\ t.completed = s.completed /\ t.pending = s.pending
             /\ t.outputs = s.outputs /\ t.reviews = s.reviews
             /\ (s.sources => t.sources) /\ t.final = s.final
  BY DEF WithTools, States

----------------------------------------------------------------------------
(* The ways on from an await.                                              *)

\* The task worked on is in hand.
LEMMA InHand ==
  ASSUME SupervisorInv, pc \in Busy
  PROVE  /\ accepted \in Seq(Tasks) /\ Books(state, at) /\ state \in States
         /\ at = Turn(state) /\ at = Count(state) + 1
         /\ at \in 1 .. Len(accepted) /\ at \in Nat /\ Len(accepted) \in Nat
         /\ Count(state) \in Nat
         /\ state.steps = at /\ at <= MaxRounds
         /\ attempt \in 1 .. MaxReviewRetries + 1
         /\ batch = NoBatch /\ outcome = "none"
<1>1. accepted \in Seq(Tasks) /\ Books(state, at) /\ state \in States /\ at \in Nat
      /\ at = Turn(state) /\ at <= Len(accepted) /\ state.steps = at
      /\ attempt \in 1 .. MaxReviewRetries + 1 /\ Len(accepted) <= MaxRounds
  BY DEF SupervisorInv, TypeOK, Position, AtTask
<1>2. Count(state) \in Nat /\ at = Count(state) + 1
  BY <1>1, StateFields
<1>3. batch = NoBatch /\ outcome = "none"
  BY DEF SupervisorInv, BatchInOrder, Position, Busy, Reviewing
<1>4. Len(accepted) \in Nat
  BY <1>1
<1> QED
  BY <1>1, <1>2, <1>3, <1>4, LimitsAssumption

\* It stays in hand.
LEMMA StillBusy ==
  ASSUME SupervisorInv, pc \in Busy, pc' \in Busy, NEW t, state' = t, Books(t, at),
         Count(t) = Count(state),
         UNCHANGED <<setup, accepted, at, done, batch, outcome>>,
         attempt' \in Nat, result' \in Answers \cup {"none"}, AtTask'
  PROVE  SupervisorInv'
<1>1. /\ mode' = mode /\ kind' = kind /\ reviewer' = reviewer /\ accepted' = accepted
      /\ at' = at /\ done' = done /\ batch' = batch /\ outcome' = outcome
  BY DEF setup
<1>2. TypeOK'
  BY <1>1 DEF SupervisorInv, TypeOK, Books
<1>3. Position'
  BY <1>1 DEF SupervisorInv, Position, Busy, Reviewing, Turn, Count
<1>4. PlanInOrder'
  BY <1>1 DEF SupervisorInv, PlanInOrder, Count
<1>5. BatchInOrder'
  <2>1. batch = NoBatch
    BY InHand
  <2> QED
    BY <1>1, <2>1 DEF SupervisorInv, BatchInOrder, Running
<1>6. BetweenTasks' /\ AtEnd'
  BY DEF BetweenTasks, AtEnd, Busy, Reviewing
<1>7. HonestResult'
  BY <1>1, InHand DEF HonestResult
<1> QED
  BY <1>2, <1>3, <1>4, <1>5, <1>6, <1>7 DEF SupervisorInv

\* It is complete, and the next is on.
LEMMA Advancing ==
  ASSUME SupervisorInv, pc \in Busy, NEW t, Books(t, at), Count(t) = at, t.steps = at,
         NoFailure(t), Advances(t), UNCHANGED <<setup, accepted, batch>>,
         attempt' = attempt, result' \in Answers \cup {"none"}
  PROVE  SupervisorInv'
<1>1. /\ mode' = mode /\ kind' = kind /\ reviewer' = reviewer /\ accepted' = accepted
      /\ batch' = batch /\ state' = t /\ outcome' = outcome
  BY DEF setup, Advances
<1>2. /\ batch = NoBatch /\ outcome = "none" /\ at \in 1 .. Len(accepted) /\ at \in Nat
      /\ Len(accepted) \in Nat /\ accepted \in Seq(Tasks)
      /\ at = Count(state) + 1
  BY InHand
<1>3. mode \in {"run", "plan"}
  BY DEF SupervisorInv, TypeOK
<1>4. /\ mode = "run" => pc' = "decide" /\ at' = at /\ done' = done /\ at = Len(accepted)
      /\ mode = "plan" => /\ at' = at + 1 /\ done' = done \cup {at}
                          /\ pc' = IF at = Len(accepted) THEN "synthesize" ELSE "next"
  BY <1>3 DEF Advances, SupervisorInv, Position
<1>5. pc' \in {"decide", "next", "synthesize"}
  BY <1>3, <1>4
<1>6. Turn(t) = at + 1
  BY DEF Turn
<1>7. TypeOK'
  <2>1. at' \in Nat /\ done' \in SUBSET Nat
    <3>1. at \in Nat /\ done \in SUBSET Nat /\ at + 1 \in Nat
      BY <1>2 DEF SupervisorInv, TypeOK
    <3> QED
      BY <1>3, <1>4, <3>1
  <2>2. state' \in States
    BY <1>1 DEF Books
  <2> QED
    BY <1>1, <1>5, <2>1, <2>2 DEF SupervisorInv, TypeOK
<1>8. Position'
  <2>1. pc' = "next" => at' = Turn(state)' /\ at' <= Len(accepted)'
    BY <1>1, <1>2, <1>3, <1>4, <1>6 DEF Turn, Count
  <2>2. Len(accepted) <= MaxRounds
    BY DEF SupervisorInv, Position
  <2>3. pc' \in {"decide", "synthesize"} => Count(state)' = Len(accepted)'
    BY <1>1, <1>3, <1>4 DEF Count
  <2>4. /\ pc' = "decide" => mode' = "run"
        /\ pc' \in {"next", "synthesize"} => mode' = "plan"
    BY <1>1, <1>3, <1>4
  <2> QED
    BY <1>1, <1>2, <1>5, <2>1, <2>2, <2>3, <2>4 DEF Position, Busy, Reviewing
<1>9. PlanInOrder'
  <2>1. mode = "plan" => done = 1 .. Count(state)
    BY DEF SupervisorInv, PlanInOrder
  <2>2. mode = "plan" => done' = 1 .. at
    <3>1. 1 .. at = (1 .. Count(state)) \cup {at}
      <4>1. Count(state) \in Nat
        BY InHand
      <4> QED
        BY <1>2, <4>1
    <3> QED
      BY <1>4, <2>1, <3>1
  <2> QED
    BY <1>1, <2>2 DEF SupervisorInv, PlanInOrder, Count
<1>10. BatchInOrder'
  BY <1>1, <1>2 DEF SupervisorInv, BatchInOrder, Running
<1>11. BetweenTasks'
  <2>1. Books(state, Count(state))'
    BY <1>1, Carried
  <2> QED
    BY <1>1, <2>1 DEF BetweenTasks, Count, NoFailure
<1>12. AtTask' /\ AtEnd'
  BY <1>5 DEF AtTask, AtEnd, Busy, Reviewing
<1>13. HonestResult'
  BY <1>1, <1>2 DEF HonestResult
<1> QED
  BY <1>7, <1>8, <1>9, <1>10, <1>11, <1>12, <1>13 DEF SupervisorInv

\* The end, with or without a result.
LEMMA Ending ==
  ASSUME SupervisorInv, NEW t, NEW top \in Nat, Books(t, top), top <= Turn(t),
         top <= Len(accepted), Turn(t) = Turn(state),
         top = Turn(t) => Tried(t, top, MaxReviewRetries + 1, MaxReviewRetries + 2),
         t.steps <= MaxRounds,
         state' = t, pc' = "ended",
         UNCHANGED <<setup, accepted, at, done, attempt, batch>>,
         result' \in Answers \cup {"none"},
         outcome' \in {"returned", "state", "worker", "lost"},
         HonestResult'
  PROVE  SupervisorInv'
<1>1. /\ mode' = mode /\ kind' = kind /\ reviewer' = reviewer /\ accepted' = accepted
      /\ at' = at /\ done' = done /\ batch' = batch /\ attempt' = attempt
  BY DEF setup
<1>2. accepted \in Seq(Tasks) /\ Len(accepted) \in Nat
  BY DEF SupervisorInv, TypeOK
<1>3. Count(t) = Count(state)
  <2>1. Count(t) \in Nat /\ Turn(t) = Count(t) + 1
    BY StateFields DEF Books
  <2>2. Count(state) \in Nat /\ Turn(state) = Count(state) + 1
    BY StateFields DEF SupervisorInv, TypeOK
  <2>3. \A x, y \in Nat : x + 1 = y + 1 => x = y
    OBVIOUS
  <2>4. Count(t) + 1 = Count(state) + 1
    BY <2>1, <2>2
  <2> QED
    BY <2>1, <2>2, <2>3, <2>4
<1>4. TypeOK'
  BY <1>1 DEF SupervisorInv, TypeOK, Books
<1>5. Position'
  BY <1>1 DEF SupervisorInv, Position, Busy, Reviewing
<1>6. PlanInOrder'
  BY <1>1, <1>3 DEF SupervisorInv, PlanInOrder, Count
<1>7. BatchInOrder'
  BY <1>1, <1>3 DEF SupervisorInv, BatchInOrder, Running, Gated, Turn, Count
<1>8. BetweenTasks' /\ AtTask'
  BY DEF BetweenTasks, AtTask, Busy, Reviewing
<1>9. AtEnd'
  <2>1. Books(t, Len(accepted))
    BY <1>2, BooksHigher
  <2>2. Books(state, Len(accepted))'
    BY <2>1, Carried
  <2>3. \A i \in DOMAIN accepted : Tried(t, i, MaxReviewRetries + 1, MaxReviewRetries + 2)
    BY <1>2, AllTried
  <2> QED
    BY <1>1, <2>2, <2>3 DEF AtEnd, Tried
<1> QED
  BY <1>4, <1>5, <1>6, <1>7, <1>8, <1>9 DEF SupervisorInv

\* Between tasks.
LEMMA AtRest ==
  ASSUME SupervisorInv, pc \in {"decide", "plan", "next", "batch", "synthesize"}
  PROVE  /\ accepted \in Seq(Tasks) /\ Books(state, Count(state)) /\ state \in States
         /\ Count(state) \in Nat /\ Turn(state) = Count(state) + 1
         /\ Len(accepted) \in Nat /\ Count(state) <= Len(accepted)
         /\ Len(accepted) <= MaxRounds /\ MaxRounds \in Nat
         /\ state.steps = Count(state) /\ NoFailure(state) /\ outcome = "none"
<1>1. /\ accepted \in Seq(Tasks) /\ Books(state, Count(state)) /\ state \in States
      /\ Len(accepted) <= MaxRounds
      /\ state.steps = Count(state) /\ NoFailure(state) /\ outcome = "none"
  BY DEF SupervisorInv, TypeOK, BetweenTasks, Position
<1>2. Count(state) \in Nat /\ Turn(state) = Count(state) + 1 /\ state.pending \in Seq(Texts)
  BY <1>1, StateFields
<1>3. Len(accepted) \in Nat /\ Len(state.pending) \in Nat
  BY <1>1, <1>2
<1>4. Count(state) + Len(state.pending) = Len(accepted)
  BY <1>1 DEF Books, Listed
<1>5. Count(state) <= Len(accepted)
  BY <1>2, <1>3, <1>4
<1> QED
  BY <1>1, <1>2, <1>3, <1>5, LimitsAssumption

\* No task in hand was tried more often than it may be.
LEMMA TriedInHand ==
  ASSUME SupervisorInv, pc \in Busy
  PROVE  Tried(state, at, MaxReviewRetries + 1, MaxReviewRetries + 2)
<1>1. \E n \in 0 .. MaxReviewRetries + 1, m \in 0 .. MaxReviewRetries + 2 :
        Tried(state, at, n, m)
  <2>1. CASE pc = "work"
    <3>1. Tried(state, at, attempt - 1, attempt - 1)
      BY <2>1 DEF SupervisorInv, AtTask
    <3>2. attempt - 1 \in 0 .. MaxReviewRetries + 1
          /\ attempt - 1 \in 0 .. MaxReviewRetries + 2
      BY InHand, LimitsAssumption
    <3> QED
      BY <3>1, <3>2
  <2>2. CASE pc \in {"review", "rereview"}
    <3>1. Tried(state, at, attempt, attempt - 1)
      BY <2>2 DEF SupervisorInv, AtTask
    <3>2. attempt \in 0 .. MaxReviewRetries + 1
          /\ attempt - 1 \in 0 .. MaxReviewRetries + 2
      BY InHand, LimitsAssumption
    <3> QED
      BY <3>1, <3>2
  <2>3. CASE pc = "abstain"
    <3>1. Tried(state, at, MaxReviewRetries + 1, MaxReviewRetries + 1)
      BY <2>3 DEF SupervisorInv, AtTask
    <3>2. MaxReviewRetries + 1 \in 0 .. MaxReviewRetries + 1
          /\ MaxReviewRetries + 1 \in 0 .. MaxReviewRetries + 2
      BY LimitsAssumption
    <3> QED
      BY <3>1, <3>2
  <2> QED
    BY <2>1, <2>2, <2>3 DEF Busy, Reviewing
<1>2. PICK n \in 0 .. MaxReviewRetries + 1, m \in 0 .. MaxReviewRetries + 2 :
        Tried(state, at, n, m)
  BY <1>1
<1>3. /\ n \in Nat /\ m \in Nat /\ MaxReviewRetries + 1 \in Nat
      /\ MaxReviewRetries + 2 \in Nat
      /\ n <= MaxReviewRetries + 1 /\ m <= MaxReviewRetries + 2
  BY LimitsAssumption
<1> QED
  BY <1>2, <1>3, InHand, TriedMore

\* An error ends it and leaves the state.
LEMMA Failing ==
  ASSUME SupervisorInv, pc # "ended", NEW passing \in {"state", "worker", "lost"},
         Raises(passing),
         UNCHANGED <<setup, result, accepted, at, done, attempt, state, batch>>
  PROVE  SupervisorInv'
<1>1. /\ pc' = "ended" /\ outcome' = passing /\ state' = state /\ result' = result
      /\ result \in Answers \cup {"none"}
  BY DEF Raises, SupervisorInv, TypeOK
<1>2. HonestResult'
  BY <1>1 DEF HonestResult
<1>3. CASE pc \in Busy
  <2>1. Tried(state, at, MaxReviewRetries + 1, MaxReviewRetries + 2)
    BY <1>3, TriedInHand
  <2>2. /\ Books(state, at) /\ at \in Nat /\ at <= Turn(state) /\ at <= Len(accepted)
        /\ state.steps <= MaxRounds
    BY <1>3, InHand
  <2> QED
    BY <1>1, <1>2, <2>1, <2>2, Ending
<1>4. CASE pc \notin Busy
  <2>1. pc \in {"decide", "plan", "next", "batch", "synthesize"}
    BY <1>4 DEF SupervisorInv, TypeOK
  <2>2. PICK top : top = Count(state)
    OBVIOUS
  <2>3. /\ Books(state, top) /\ top \in Nat /\ top <= Turn(state) /\ top # Turn(state)
        /\ top <= Len(accepted) /\ state.steps <= MaxRounds
    BY <2>1, <2>2, AtRest
  <2> QED
    BY <1>1, <1>2, <2>3, Ending
<1> QED
  BY <1>3, <1>4

----------------------------------------------------------------------------
(* Init and the steps of run.                                              *)

LEMMA InitBooked ==
  ASSUME Init
  PROVE  SupervisorInv
<1>1. /\ state = NewState /\ accepted = <<>> /\ batch = <<>> /\ at = 0 /\ done = {}
      /\ attempt = 0 /\ result = "none" /\ outcome = "none"
      /\ mode \in {"run", "plan"} /\ kind \in Kinds /\ reviewer \in BOOLEAN
      /\ mode = "run" => pc = "decide"
      /\ mode = "plan" => pc = "plan"
  BY DEF Init, NoBatch
<1>2. /\ state.steps = 0 /\ state.pending = <<>> /\ state.completed = <<>>
      /\ state.outputs = <<>> /\ state.reviews = <<>>
      /\ state \in States
  BY <1>1 DEF NewState, States
<1>3. TypeOK
  BY <1>1, <1>2 DEF TypeOK
<1>4. Count(state) = 0 /\ Len(accepted) = 0
  BY <1>1, <1>2 DEF Count
<1>5. Position
  BY <1>1, <1>4, LimitsAssumption DEF Position, Busy, Reviewing
<1>6. PlanInOrder
  BY <1>1, <1>4 DEF PlanInOrder
<1>7. BatchInOrder
  <2>1. Running = {}
    BY <1>1 DEF Running
  <2> QED
    BY <1>1, <2>1, FS_EmptySet DEF BatchInOrder, NoBatch
<1>8. Books(state, Count(state))
  BY <1>1, <1>2, <1>4 DEF Books, Listed, OutputsInOrder, DoneInOrder
<1>9. BetweenTasks
  BY <1>2, <1>4, <1>8 DEF BetweenTasks, NoFailure
<1>10. AtTask /\ AtEnd /\ HonestResult
  BY <1>1 DEF AtTask, AtEnd, HonestResult, Busy, Reviewing
<1> QED
  BY <1>3, <1>5, <1>6, <1>7, <1>9, <1>10 DEF SupervisorInv

LEMMA DelegateStep ==
  ASSUME SupervisorInv, pc = "decide", state.steps < MaxRounds,
         NEW agent \in Agents, Delegate(agent)
  PROVE  SupervisorInv'
<1> DEFINE n == Len(accepted) + 1
<1>1. /\ accepted \in Seq(Tasks) /\ Books(state, Count(state)) /\ state \in States
      /\ Count(state) = Len(accepted) /\ Len(accepted) \in Nat
      /\ state.steps = Len(accepted) /\ NoFailure(state) /\ outcome = "none"
      /\ mode = "run" /\ batch = NoBatch
  BY AtRest DEF SupervisorInv, Position, BatchInOrder
<1>2. /\ mode' = mode /\ kind' = kind /\ reviewer' = reviewer
      /\ accepted' = Append(accepted, [agent |-> agent, text |-> Wording[n], deps |-> {}])
      /\ at' = n /\ attempt' = 1 /\ pc' = "work"
      /\ state' = [Round EXCEPT !.pending = Append(@, Wording[n])]
      /\ result' = result /\ done' = done /\ batch' = batch /\ outcome' = outcome
  BY DEF Delegate, setup
<1>3. n \in 1 .. MaxRounds /\ n \in Nat /\ n # 0
  BY <1>1, LimitsAssumption
<1>4. Wording[n] \in Texts
  BY <1>3, LimitsAssumption DEF Texts, Range
<1>5. PICK task : task = [agent |-> agent, text |-> Wording[n], deps |-> {}]
  OBVIOUS
<1>6. task \in Tasks /\ task.text = Wording[n]
  BY <1>4, <1>5 DEF Tasks
<1>7. /\ accepted' \in Seq(Tasks) /\ Len(accepted') = n
      /\ \A j \in 1 .. Len(accepted) : accepted'[j] = accepted[j]
      /\ accepted'[n] = task
  BY <1>1, <1>2, <1>5, <1>6, AppendProperties
<1>8. state.pending = <<>> /\ state.pending \in Seq(Texts)
  <2>1. state.pending \in Seq(Texts) /\ Len(state.pending) = 0
    BY <1>1, StateFields DEF Books, Listed
  <2> QED
    BY <2>1, EmptySeq
<1>9. PICK work : work = <<Wording[n]>>
  OBVIOUS
<1>10. work \in Seq(Texts) /\ Len(work) = 1 /\ work[1] = Wording[n]
  BY <1>4, <1>9
<1>11. Append(state.pending, Wording[n]) = work
  BY <1>8, <1>9
<1>12. /\ state' \in States /\ state'.steps = n
       /\ state'.pending = work /\ state'.completed = state.completed
       /\ state'.outputs = state.outputs /\ state'.reviews = state.reviews
       /\ state'.sources = state.sources
  BY <1>1, <1>2, <1>10, <1>11, RoundFields DEF States
<1> HIDE DEF n
<1>13. Count(state)' = Count(state) /\ Turn(state)' = n
  BY <1>1, <1>12 DEF Count, Turn, n
<1>14. Listed(state)'
  <2>1. \A k \in 1 .. Count(state) : state.completed[k] = accepted[k].text
    BY <1>1 DEF Books, Listed
  <2>2. \A k \in 1 .. Count(state) : state'.completed[k] = accepted'[k].text
    BY <1>1, <1>7, <1>12, <2>1
  <2>3. \A k \in 1 .. Len(work) : work[k] = accepted'[Count(state) + k].text
    <3>1. ASSUME NEW k \in 1 .. Len(work) PROVE k = 1
      BY <1>10
    <3>2. accepted'[Count(state) + 1].text = Wording[n]
      BY <1>1, <1>6, <1>7 DEF n
    <3> QED
      BY <1>10, <3>1, <3>2
  <2>4. Count(state) + Len(work) = Len(accepted')
    BY <1>1, <1>7, <1>10 DEF n
  <2> QED
    BY <1>12, <1>13, <2>2, <2>3, <2>4 DEF Listed
<1>15. OutputsInOrder(state, at)'
  <2>1. ASSUME NEW k \in DOMAIN state.outputs
        PROVE  LET o == state.outputs[k]
               IN  /\ o.nr \in 1 .. n
                   /\ o.agent = accepted'[o.nr].agent
                   /\ o.id = PlannedId(o.nr)
                   /\ \A j \in 1 .. k : state.outputs[j].nr <= o.nr
                   /\ Gated(o.agent) /\ MayAbstain(o.agent) /\ o.answer = "claims"
                        => state.sources
    <3>1. LET o == state.outputs[k]
          IN  /\ o.nr \in 1 .. Count(state)
              /\ o.agent = accepted[o.nr].agent
              /\ o.id = PlannedId(o.nr)
              /\ \A j \in 1 .. k : state.outputs[j].nr <= o.nr
              /\ Gated(o.agent) /\ MayAbstain(o.agent) /\ o.answer = "claims"
                   => state.sources
      BY <1>1, <2>1, Zenon DEF Books, OutputsInOrder
    <3>2. state.outputs[k].nr \in 1 .. n
      BY <1>1, <3>1 DEF n
    <3>3. accepted'[state.outputs[k].nr] = accepted[state.outputs[k].nr]
      BY <1>1, <1>7, <3>1
    <3> QED
      BY <3>1, <3>2, <3>3
  <2> QED
    BY <1>2, <1>12, <2>1 DEF OutputsInOrder, PlannedId, Gated, MayAbstain, n
<1>16. DoneInOrder(state)'
  <2>1. DoneInOrder(state)
    BY <1>1 DEF Books
  <2>2. ASSUME NEW i \in 1 .. Count(state)
        PROVE  /\ About(state.outputs, i) # {}
               /\ Gated(accepted[i].agent)' => Vouched(state, i)
               /\ Tried(state, i, MaxReviewRetries + 1, MaxReviewRetries + 2)
    <3>1. accepted'[i] = accepted[i]
      BY <1>1, <1>7
    <3>2. Gated(accepted[i].agent)' => Gated(accepted[i].agent)
      BY <1>2, <3>1 DEF Gated
    <3> QED
      BY <2>1, <3>2, Zenon DEF DoneInOrder
  <2>3. state'.outputs = state.outputs /\ state'.reviews = state.reviews
        /\ Count(state)' = Count(state)
    BY <1>12 DEF Count
  <2>4. ASSUME NEW i \in 1 .. Count(state)
        PROVE  /\ About(state'.outputs, i) # {}
               /\ Gated(accepted[i].agent)' => Vouched(state, i)'
               /\ Tried(state, i, MaxReviewRetries + 1, MaxReviewRetries + 2)'
    BY <2>2, <2>3 DEF Vouched, Tried
  <2> QED
    BY <2>3, <2>4 DEF DoneInOrder
<1>17. Books(state, at)'
  <2>1. \A k \in DOMAIN state'.reviews : state'.reviews[k].nr \in 1 .. n
    <3>1. \A k \in DOMAIN state.reviews : state.reviews[k].nr \in 1 .. Count(state)
      BY <1>1, Zenon DEF Books
    <3>2. 1 .. Count(state) \subseteq 1 .. n
      BY <1>1 DEF n
    <3> QED
      BY <1>12, <3>1, <3>2
  <2> QED
    BY <1>2, <1>12, <1>14, <1>15, <1>16, <2>1 DEF Books, n
<1>18. Tried(state, at, attempt - 1, attempt - 1)'
  <2>1. Tried(state, n, 0, 0)
    BY <1>1, <1>3, NothingBeyond DEF n
  <2> QED
    BY <1>2, <1>12, <2>1 DEF Tried, n
<1>19. AtTask'
  <2>1. attempt' \in 1 .. MaxReviewRetries + 1
    BY <1>2, LimitsAssumption
  <2>2. NoFailure(state)'
    BY <1>1, <1>12 DEF NoFailure
  <2> QED
    BY <1>2, <1>12, <1>17, <1>18, <2>1, <2>2 DEF AtTask, Busy, Reviewing, n
<1>20. TypeOK'
  BY <1>2, <1>3, <1>7, <1>12 DEF SupervisorInv, TypeOK, Busy, n
<1>21. Position'
  BY <1>1, <1>2, <1>3, <1>7, <1>13 DEF Position, Busy, Reviewing, n
<1>22. PlanInOrder' /\ BetweenTasks' /\ AtEnd' /\ HonestResult'
  BY <1>1, <1>2 DEF PlanInOrder, BetweenTasks, AtEnd, HonestResult
<1>23. BatchInOrder'
  BY <1>1, <1>2 DEF SupervisorInv, BatchInOrder, Running
<1> QED
  BY <1>19, <1>20, <1>21, <1>22, <1>23 DEF SupervisorInv

\* The result of a task of which everything is done.
LEMMA FinishStep ==
  ASSUME SupervisorInv, pc \in {"decide", "synthesize"}, state.steps < MaxRounds,
         NEW answer \in {"model", "outputs"}, Returns(Finished(Round, answer)),
         UNCHANGED <<setup, result, accepted, at, done, attempt, batch>>
  PROVE  SupervisorInv'
<1> DEFINE t == Finished(Round, answer)
<1>1. /\ accepted \in Seq(Tasks) /\ Books(state, Count(state)) /\ state \in States
      /\ Count(state) = Len(accepted) /\ Len(accepted) \in Nat
      /\ state.steps = Len(accepted)
  BY AtRest DEF SupervisorInv, Position
<1>2. PICK top : top = Len(accepted)
  OBVIOUS
<1>3. Books(Round, top) /\ Count(Round) = top /\ Round.steps = top + 1
  <2>1. Books(Round, top)
    BY <1>1, <1>2, RoundFields, BooksSame
  <2> QED
    BY <1>1, <1>2, <2>1, RoundFields DEF Count
<1>4. /\ Books(t, top) /\ Count(t) = top /\ t.steps = top + 1
      /\ t.pending = <<>> /\ t.final = answer
  BY <1>1, <1>2, <1>3, FinishBooked
<1>5. state' = t /\ pc' = "ended" /\ outcome' = "returned" /\ result' = result
      /\ accepted' = accepted
  BY DEF Returns
<1> HIDE DEF t
<1>6. HonestResult'
  <2>1. ASSUME NEW i \in DOMAIN accepted PROVE \E o \in Range(t.outputs) : o.nr = i
    <3>1. About(t.outputs, i) # {}
      BY <1>1, <1>2, <1>4 DEF Books, DoneInOrder
    <3> QED
      BY <3>1 DEF About, Range
  <2> QED
    BY <1>4, <1>5, <2>1 DEF HonestResult
<1>7. top \in Nat /\ top <= Len(accepted) /\ Turn(t) = top + 1 /\ Turn(state) = top + 1
  BY <1>1, <1>2, <1>4 DEF Turn
<1>8. t.steps <= MaxRounds
  BY <1>1, <1>2, <1>4, LimitsAssumption
<1>9. result' \in Answers \cup {"none"}
  BY <1>5 DEF SupervisorInv, TypeOK
<1>10. top <= Turn(t) /\ top # Turn(t)
  BY <1>7
<1> QED
  BY <1>4, <1>5, <1>6, <1>7, <1>8, <1>9, <1>10, Ending

LEMMA RunStep ==
  ASSUME SupervisorInv, Run
  PROVE  SupervisorInv'
<1>1. ASSUME NEW agent \in Agents, DecideDelegates(agent) PROVE SupervisorInv'
  <2>1. PICK forced \in ForcedAgents : Delegate(SentTo(agent, forced))
    BY <1>1 DEF DecideDelegates
  <2>2. SentTo(agent, forced) \in Agents
    BY DEF SentTo, ForcedAgents, Agents
  <2> QED
    BY <1>1, <2>1, <2>2, DelegateStep DEF DecideDelegates
<1>2. CASE DecideFinal
  BY <1>2, FinishStep DEF DecideFinal
<1>3. CASE DecideFallsBack
  BY <1>3, FinishStep DEF DecideFallsBack
<1>4. CASE DecideOverflowDelegates
  <2>1. PICK forced \in ForcedAgents \ {"none"} : Delegate(forced)
    BY <1>4 DEF DecideOverflowDelegates
  <2>2. forced \in Agents
    BY DEF ForcedAgents, Agents
  <2>3. pc = "decide" /\ state.steps < MaxRounds
    BY <1>4, LimitsAssumption DEF DecideOverflowDelegates
  <2> QED
    BY <2>1, <2>2, <2>3, DelegateStep
<1>5. CASE DecideOverflowFails
  <2>1. pc = "decide" /\ state.steps = 0 /\ Returns(Failed(Round))
        /\ UNCHANGED <<setup, result, accepted, at, done, attempt, batch>>
    BY <1>5 DEF DecideOverflowFails
  <2>2. /\ accepted \in Seq(Tasks) /\ Books(state, 0) /\ state \in States
        /\ Count(state) = 0 /\ Len(accepted) = 0 /\ Turn(state) = 1
    BY <2>1, AtRest DEF SupervisorInv, Position
  <2>3. PICK t : t = Failed(Round)
    OBVIOUS
  <2>4. /\ t \in States /\ t.steps = 1 /\ t.final = "failure"
        /\ t.completed = state.completed /\ t.pending = state.pending
        /\ t.outputs = state.outputs /\ t.reviews = state.reviews
        /\ t.sources = state.sources
    BY <2>1, <2>2, <2>3, RoundFields, FailedFields
  <2>5. Books(t, 0)
    BY <2>2, <2>4, BooksSame
  <2>6. Turn(t) = 1
    BY <2>2, <2>4 DEF Turn, Count
  <2>7. accepted = <<>>
    BY <2>2, EmptySeq
  <2>8. state' = t /\ pc' = "ended" /\ outcome' = "returned" /\ accepted' = <<>>
        /\ result' = result
    BY <2>1, <2>3, <2>7 DEF Returns
  <2>9. HonestResult'
    BY <2>4, <2>8 DEF HonestResult
  <2>10. t.steps <= MaxRounds /\ 0 <= Turn(t) /\ 0 # Turn(t) /\ 0 <= Len(accepted)
         /\ Turn(t) = Turn(state) /\ 0 \in Nat
    BY <2>2, <2>4, <2>6, LimitsAssumption
  <2>11. result' \in Answers \cup {"none"}
    BY <2>8 DEF SupervisorInv, TypeOK
  <2> QED
    BY <2>1, <2>5, <2>8, <2>9, <2>10, <2>11, Ending
<1>6. CASE DecideRaises
  BY <1>6, Failing DEF DecideRaises
<1> QED
  BY <1>1, <1>2, <1>3, <1>4, <1>5, <1>6 DEF Run

----------------------------------------------------------------------------
(* The steps of run_planned but for the batches.                           *)

\* A sequence of tasks whose dependencies are earlier ones.
Orderly(plan) ==
  /\ plan \in Seq(Tasks) /\ Len(plan) >= 1
  /\ \A i \in 1 .. Len(plan) : plan[i].deps \subseteq 1 .. i - 1

LEMMA PlansOrderly ==
  ASSUME NEW plan \in Plans
  PROVE  Orderly(plan)
<1>1. PICK n \in 1 .. MaxTasks : plan \in PlansOf(n)
  BY DEF Plans
<1>2. PICK a \in [1 .. n -> Agents],
           d \in {f \in [1 .. n -> SUBSET (1 .. n)] : \A i \in 1 .. n : f[i] \subseteq 1 .. i - 1} :
        plan = Planned(n, a, d)
  BY <1>1 DEF PlansOf
<1>3. n \in Nat /\ n >= 1
  BY LimitsAssumption
<1>4. ASSUME NEW i \in 1 .. n
      PROVE  plan[i] \in Tasks /\ plan[i].deps \subseteq 1 .. i - 1
  <2>1. Wording[i] \in Texts
    <3>1. i \in 1 .. MaxTasks
      BY <1>3, LimitsAssumption
    <3> QED
      BY <3>1, LimitsAssumption DEF Texts, Range
  <2>2. a[i] \in Agents /\ d[i] \in SUBSET Nat /\ d[i] \subseteq 1 .. i - 1
    BY <1>3, <1>2
  <2>3. plan[i] = [agent |-> a[i], text |-> Wording[i], deps |-> d[i]]
    BY <1>2 DEF Planned
  <2> QED
    BY <2>1, <2>2, <2>3 DEF Tasks
<1>5. DOMAIN plan = 1 .. n /\ plan \in [1 .. n -> Tasks]
  BY <1>2, <1>4 DEF Planned
<1>6. plan \in Seq(Tasks)
  BY <1>3, <1>5, SeqDef
<1>7. Len(plan) = n
  BY <1>3, <1>5, <1>6
<1> QED
  BY <1>3, <1>4, <1>6, <1>7 DEF Orderly

LEMMA PrunedOrderly ==
  ASSUME NEW plan \in Plans, NEW checks
  PROVE  Orderly(Pruned(plan, checks))
<1> DEFINE Spare(k) == /\ k \in checks
                       /\ plan[k].agent # "coder"
                       /\ \E j \in 1 .. k - 1 : plan[j].agent = "coder"
           Last1(n) == ~Spare(n) /\ \A k \in n + 1 .. Len(plan) : Spare(k)
<1>1. /\ plan \in Seq(Tasks) /\ Len(plan) \in Nat /\ Len(plan) >= 1 /\ DOMAIN plan = 1 .. Len(plan)
      /\ \A i \in 1 .. Len(plan) : plan[i].deps \subseteq 1 .. i - 1
  BY PlansOrderly DEF Orderly
<1>2. ~Spare(1)
  OBVIOUS
<1> HIDE DEF Spare
<1>3. \E n \in DOMAIN plan : Last1(n)
  <2> DEFINE I == {n \in 1 .. Len(plan) : ~Spare(n)}
  <2>1. I \in SUBSET (0 .. Len(plan)) /\ I # {}
    <3>1. 1 \in I
      BY <1>1, <1>2
    <3>2. \A n \in I : n \in 0 .. Len(plan)
      BY <1>1
    <3> QED
      BY <3>1, <3>2
  <2>2. Max(I) \in I /\ \A n \in I : n <= Max(I)
    BY <1>1, <2>1, LargestOf
  <2>3. PICK m : m = Max(I)
    OBVIOUS
  <2>4. m \in 1 .. Len(plan) /\ ~Spare(m) /\ \A n \in 1 .. Len(plan) : ~Spare(n) => n <= m
    BY <2>2, <2>3
  <2>5. \A k \in m + 1 .. Len(plan) : Spare(k)
    <3>1. ASSUME NEW k \in m + 1 .. Len(plan) PROVE k \in 1 .. Len(plan) /\ ~(k <= m)
      BY <1>1, <2>4
    <3> QED
      BY <2>4, <3>1
  <2> QED
    BY <1>1, <2>4, <2>5
<1>4. PICK n : n = CHOOSE m \in DOMAIN plan : Last1(m)
  OBVIOUS
<1>5. n \in 1 .. Len(plan)
  BY <1>1, <1>3, <1>4
<1>6. Pruned(plan, checks) = SubSeq(plan, 1, n)
  BY <1>4 DEF Pruned, Spare
<1>7. PICK kept : kept = SubSeq(plan, 1, n)
  OBVIOUS
<1>8. /\ kept \in Seq(Tasks) /\ Len(kept) = n
      /\ \A i \in 1 .. n : kept[i] = plan[i]
  BY <1>1, <1>5, <1>7
<1> QED
  BY <1>1, <1>5, <1>6, <1>7, <1>8 DEF Orderly

LEMMA PlansMadeOrderly ==
  ASSUME NEW plan \in PlansMade
  PROVE  Orderly(plan)
  BY PlansOrderly, PrunedOrderly DEF PlansMade

\* A task of which nothing is known yet.
LEMMA NothingYet ==
  ASSUME SupervisorInv, pc = "plan"
  PROVE  /\ state \in States /\ accepted = <<>>
         /\ state.outputs = <<>> /\ state.reviews = <<>>
         /\ state.completed = <<>> /\ state.pending = <<>>
         /\ Count(state) = 0 /\ state.steps = 0 /\ outcome = "none"
         /\ batch = NoBatch /\ mode = "plan"
<1>1. /\ Books(state, 0) /\ state \in States /\ accepted = <<>> /\ Count(state) = 0
      /\ Len(accepted) = 0 /\ state.steps = 0 /\ outcome = "none"
      /\ batch = NoBatch /\ mode = "plan"
  BY AtRest DEF SupervisorInv, Position, BatchInOrder
<1>2. /\ state.outputs \in Seq(Outputs) /\ state.reviews \in Seq(Reviews)
      /\ state.completed \in Seq(Texts) /\ state.pending \in Seq(Texts)
  BY <1>1, StateFields
<1>3. Len(state.outputs) = 0
  <2>1. \A k \in 1 .. Len(state.outputs) : state.outputs[k].nr \in 1 .. 0
    <3>1. DOMAIN state.outputs = 1 .. Len(state.outputs)
      BY <1>2
    <3> QED
      BY <1>1, <3>1, Zenon DEF Books, OutputsInOrder
  <2>2. ASSUME Len(state.outputs) # 0 PROVE FALSE
    <3>1. 1 \in 1 .. Len(state.outputs)
      BY <1>2, <2>2
    <3> QED
      BY <2>1, <3>1
  <2> QED
    BY <2>2
<1>4. Len(state.reviews) = 0
  <2>1. \A k \in 1 .. Len(state.reviews) : state.reviews[k].nr \in 1 .. 0
    <3>1. DOMAIN state.reviews = 1 .. Len(state.reviews)
      BY <1>2
    <3> QED
      BY <1>1, <3>1, Zenon DEF Books
  <2>2. ASSUME Len(state.reviews) # 0 PROVE FALSE
    <3>1. 1 \in 1 .. Len(state.reviews)
      BY <1>2, <2>2
    <3> QED
      BY <2>1, <3>1
  <2> QED
    BY <2>2
<1>5. Len(state.completed) = 0 /\ Len(state.pending) = 0
  BY <1>1, <1>2 DEF Books, Listed, Count
<1> QED
  BY <1>1, <1>2, <1>3, <1>4, <1>5, EmptySeq

LEMMA PlannerReturnsStep ==
  ASSUME SupervisorInv, PlannerReturns
  PROVE  SupervisorInv'
<1>1. PICK plan \in PlansMade :
        /\ Len(plan) + 1 <= MaxRounds
        /\ accepted' = plan
        /\ state' = [state EXCEPT !.pending = [i \in 1 .. Len(plan) |-> plan[i].text]]
  BY DEF PlannerReturns
<1>2. /\ pc = "plan" /\ pc' = "next" /\ at' = 1
      /\ mode' = mode /\ kind' = kind /\ reviewer' = reviewer /\ result' = result
      /\ done' = done /\ attempt' = attempt /\ batch' = batch /\ outcome' = outcome
  BY DEF PlannerReturns, setup
<1>3. /\ state \in States /\ accepted = <<>>
      /\ state.outputs = <<>> /\ state.reviews = <<>>
      /\ state.completed = <<>>
      /\ Count(state) = 0 /\ state.steps = 0 /\ outcome = "none"
      /\ batch = NoBatch /\ mode = "plan"
  BY <1>2, NothingYet
<1>4. /\ plan \in Seq(Tasks) /\ Len(plan) \in Nat /\ Len(plan) >= 1 /\ DOMAIN plan = 1 .. Len(plan)
      /\ \A i \in 1 .. Len(plan) : plan[i].deps \subseteq 1 .. i - 1
  BY PlansMadeOrderly DEF Orderly
<1>5. PICK texts : texts = [i \in 1 .. Len(plan) |-> plan[i].text]
  OBVIOUS
<1>6. texts \in Seq(Texts) /\ Len(texts) = Len(plan)
      /\ \A i \in 1 .. Len(plan) : texts[i] = plan[i].text
  <2>1. \A i \in 1 .. Len(plan) : plan[i].text \in Texts
    <3>1. \A i \in 1 .. Len(plan) : plan[i] \in Tasks
      BY <1>4
    <3> QED
      BY <3>1 DEF Tasks
  <2>2. DOMAIN texts = 1 .. Len(plan) /\ texts \in [1 .. Len(plan) -> Texts]
    BY <1>5, <2>1
  <2>3. texts \in Seq(Texts)
    BY <1>4, <2>2, SeqDef
  <2>4. Len(texts) = Len(plan)
    BY <1>4, <2>2, <2>3
  <2> QED
    BY <1>5, <2>3, <2>4
<1>7. /\ state' \in States /\ state'.pending = texts
      /\ state'.completed = <<>> /\ state'.outputs = <<>> /\ state'.reviews = <<>>
      /\ state'.steps = 0
  BY <1>1, <1>3, <1>5, <1>6 DEF States
<1>8. Count(state)' = 0 /\ Turn(state)' = 1
  BY <1>7 DEF Count, Turn
<1>9. Listed(state)'
  <2>1. \A k \in 1 .. Len(texts) : 0 + k = k /\ texts[k] = plan[k].text
    BY <1>4, <1>6
  <2>2. 0 + Len(texts) = Len(plan)
    BY <1>4, <1>6
  <2> QED
    <3>1. Count(state)' + Len(state'.pending) = Len(accepted')
      BY <1>1, <1>7, <1>8, <2>2
    <3>2. \A k \in 1 .. Count(state)' : state'.completed[k] = accepted'[k].text
      <4>1. \A k \in 1 .. 0 : FALSE
        OBVIOUS
      <4> QED
        BY <1>8, <4>1
    <3>3. \A k \in 1 .. Len(state'.pending) :
            state'.pending[k] = accepted'[Count(state)' + k].text
      BY <1>1, <1>6, <1>7, <1>8, <2>1
    <3> QED
      BY <3>1, <3>2, <3>3 DEF Listed
<1>10. OutputsInOrder(state, Count(state))' /\ DoneInOrder(state)'
  BY <1>7, <1>8 DEF OutputsInOrder, DoneInOrder
<1>11. Books(state, Count(state))'
  BY <1>7, <1>9, <1>10 DEF Books
<1>12. BetweenTasks'
  BY <1>7, <1>8, <1>11 DEF BetweenTasks, NoFailure
<1>13. TypeOK'
  BY <1>1, <1>2, <1>4, <1>7 DEF SupervisorInv, TypeOK
<1>14. Position'
  BY <1>1, <1>2, <1>3, <1>4, <1>8, LimitsAssumption DEF Position, Busy, Reviewing
<1>15. PlanInOrder'
  <2>1. done = {}
    BY <1>3 DEF SupervisorInv, PlanInOrder
  <2>2. Len(accepted') < MaxRounds
    BY <1>1, <1>4, LimitsAssumption
  <2>3. \A i \in DOMAIN accepted' : accepted'[i].deps \subseteq 1 .. i - 1
    BY <1>1, <1>4
  <2>4. done' = 1 .. Count(state)'
    <3>1. 1 .. 0 = {}
      OBVIOUS
    <3> QED
      BY <1>2, <1>8, <2>1, <3>1
  <2> QED
    BY <2>2, <2>3, <2>4 DEF PlanInOrder
<1>16. BatchInOrder'
  BY <1>2, <1>3 DEF SupervisorInv, BatchInOrder, Running
<1>17. AtTask' /\ AtEnd' /\ HonestResult'
  BY <1>2, <1>3 DEF AtTask, AtEnd, HonestResult, Busy, Reviewing
<1> QED
  BY <1>12, <1>13, <1>14, <1>15, <1>16, <1>17 DEF SupervisorInv

LEMMA PlannerFallsBackStep ==
  ASSUME SupervisorInv, PlannerFallsBack
  PROVE  SupervisorInv'
<1>1. /\ pc = "plan" /\ pc' = "decide" /\ mode' = "run" /\ at' = at
      /\ kind' = kind /\ reviewer' = reviewer /\ result' = result
      /\ accepted' = accepted /\ state' = state
      /\ done' = done /\ attempt' = attempt /\ batch' = batch /\ outcome' = outcome
  BY DEF PlannerFallsBack
<1>2. /\ state \in States /\ accepted = <<>>
      /\ state.outputs = <<>> /\ state.reviews = <<>>
      /\ state.completed = <<>> /\ state.pending = <<>>
      /\ Count(state) = 0 /\ state.steps = 0 /\ outcome = "none"
      /\ batch = NoBatch
  BY <1>1, NothingYet
<1>3. Count(state)' = 0
  BY <1>1, <1>2 DEF Count
<1>4. Books(state, Count(state))'
  BY <1>1, <1>2, <1>3 DEF Books, Listed, OutputsInOrder, DoneInOrder
<1>5. BetweenTasks'
  BY <1>1, <1>2, <1>3, <1>4 DEF BetweenTasks, NoFailure
<1>6. TypeOK'
  BY <1>1 DEF SupervisorInv, TypeOK
<1>7. Position'
  BY <1>1, <1>2, <1>3, LimitsAssumption DEF Position, Busy, Reviewing
<1>8. PlanInOrder' /\ AtTask' /\ AtEnd' /\ HonestResult'
  BY <1>1, <1>2 DEF PlanInOrder, AtTask, AtEnd, HonestResult, Busy, Reviewing
<1>9. BatchInOrder'
  BY <1>1, <1>2 DEF SupervisorInv, BatchInOrder, Running
<1> QED
  BY <1>5, <1>6, <1>7, <1>8, <1>9 DEF SupervisorInv

LEMMA NextTaskStep ==
  ASSUME SupervisorInv, NextTask
  PROVE  SupervisorInv'
<1>1. /\ pc = "next" /\ pc' = "work" /\ attempt' = 1 /\ state' = Round
      /\ mode' = mode /\ kind' = kind /\ reviewer' = reviewer /\ result' = result
      /\ accepted' = accepted /\ at' = at
      /\ done' = done /\ batch' = batch /\ outcome' = outcome
  BY DEF NextTask, setup
<1>2. /\ accepted \in Seq(Tasks) /\ Books(state, Count(state)) /\ state \in States
      /\ Count(state) \in Nat /\ Turn(state) = Count(state) + 1
      /\ state.steps = Count(state) /\ NoFailure(state) /\ outcome = "none"
      /\ Len(accepted) <= MaxRounds
  BY <1>1, AtRest
<1>3. mode = "plan" /\ at = Turn(state) /\ at <= Len(accepted) /\ batch = NoBatch
  BY <1>1 DEF SupervisorInv, Position, BatchInOrder
<1>4. at \in Nat /\ at > Count(state) /\ at = Count(state) + 1
  BY <1>2, <1>3
<1>5. PICK t : t = Round
  OBVIOUS
<1>6. /\ t \in States /\ t.steps = at
      /\ t.completed = state.completed /\ t.pending = state.pending
      /\ t.outputs = state.outputs /\ t.reviews = state.reviews
      /\ t.sources = state.sources /\ state' = t
  BY <1>1, <1>2, <1>4, <1>5, RoundFields
<1>7. Books(t, at)
  <2>1. Books(state, at)
    BY <1>2, <1>4, BooksHigher
  <2> QED
    BY <1>6, <2>1, BooksSame
<1>8. Books(state, at)'
  BY <1>1, <1>6, <1>7, Carried DEF setup
<1>9. Tried(state, at, attempt - 1, attempt - 1)'
  <2>1. Tried(state, at, 0, 0)
    BY <1>2, <1>4, NothingBeyond
  <2> QED
    BY <1>1, <1>6, <2>1 DEF Tried
<1>10. Count(state)' = Count(state) /\ Turn(state)' = Turn(state) /\ NoFailure(state)'
  BY <1>2, <1>6 DEF Count, Turn, NoFailure
<1>11. AtTask'
  <2>1. attempt' \in 1 .. MaxReviewRetries + 1
    BY <1>1, LimitsAssumption
  <2> QED
    BY <1>1, <1>6, <1>8, <1>9, <1>10, <2>1 DEF AtTask, Busy, Reviewing
<1>12. TypeOK'
  BY <1>1, <1>6 DEF SupervisorInv, TypeOK, Busy
<1>13. Position'
  BY <1>1, <1>2, <1>3, <1>10 DEF Position, Busy, Reviewing
<1>14. PlanInOrder'
  BY <1>1, <1>10 DEF SupervisorInv, PlanInOrder
<1>15. BetweenTasks' /\ AtEnd' /\ HonestResult'
  BY <1>1, <1>2 DEF BetweenTasks, AtEnd, HonestResult
<1>16. BatchInOrder'
  BY <1>1, <1>3 DEF SupervisorInv, BatchInOrder, Running
<1> QED
  BY <1>11, <1>12, <1>13, <1>14, <1>15, <1>16 DEF SupervisorInv

\* What is taken off together are researchers that wait for nothing and are not reviewed.
LEMMA BatchOf ==
  ASSUME accepted \in Seq(Tasks), at \in Nat, at <= Len(accepted), BatchLength > 1
  PROVE  /\ ~Gated("researcher")
         /\ BatchLength \in 0 .. Len(accepted) - at + 1
         /\ \A i \in at .. at + BatchLength - 1 : /\ accepted[i].agent = "researcher"
                                                  /\ accepted[i].deps \subseteq done
<1> DEFINE Together(n) == \A i \in at .. at + n - 1 :
                            accepted[i].agent = "researcher" /\ accepted[i].deps \subseteq done
           top == Len(accepted) - at + 1
           Longest(n) == Together(n) /\ (n < top => ~Together(n + 1))
<1>1. ~Gated("researcher")
  <2>1. CASE Gated("researcher")
    <3>1. BatchLength = 0
      BY <2>1, Zenon DEF BatchLength
    <3> QED
      BY <3>1
  <2> QED
    BY <2>1
<1>2. top \in Nat /\ Together(0)
  OBVIOUS
<1>3. BatchLength = CHOOSE n \in 0 .. top : Longest(n)
  BY <1>1, Zenon DEF BatchLength
<1> HIDE DEF top, Together
<1>4. \E n \in 0 .. top : Longest(n)
  <2> DEFINE I == {n \in 0 .. top : Together(n)}
  <2>1. I \in SUBSET (0 .. top) /\ I # {}
    BY <1>2
  <2>2. Max(I) \in I /\ \A n \in I : n <= Max(I)
    BY <1>2, <2>1, LargestOf
  <2>3. PICK m : m = Max(I)
    OBVIOUS
  <2>4. m \in 0 .. top /\ Together(m) /\ \A n \in 0 .. top : Together(n) => n <= m
    BY <2>2, <2>3
  <2>5. m < top => m + 1 \in 0 .. top /\ ~(m + 1 <= m)
    BY <1>2, <2>4
  <2> QED
    BY <2>4, <2>5
<1>5. BatchLength \in 0 .. top /\ Together(BatchLength)
  BY <1>3, <1>4
<1> QED
  BY <1>1, <1>5 DEF top, Together

LEMMA NextBatchStep ==
  ASSUME SupervisorInv, NextBatch
  PROVE  SupervisorInv'
<1>1. PICK n : n = BatchLength
  OBVIOUS
<1>2. /\ pc = "next" /\ pc' = "batch" /\ n > 1
      /\ batch' = [i \in 1 .. n |-> "waiting"]
      /\ mode' = mode /\ kind' = kind /\ reviewer' = reviewer /\ result' = result
      /\ accepted' = accepted /\ at' = at /\ state' = state /\ attempt' = attempt
      /\ done' = done /\ outcome' = outcome
  BY <1>1 DEF NextBatch, setup
<1>3. /\ accepted \in Seq(Tasks) /\ at \in Nat /\ Len(accepted) \in Nat
      /\ mode = "plan" /\ at = Turn(state) /\ at <= Len(accepted)
      /\ outcome = "none"
  BY <1>2, AtRest DEF SupervisorInv, TypeOK, Position
<1>4. /\ ~Gated("researcher") /\ n \in 0 .. Len(accepted) - at + 1
      /\ \A i \in at .. at + n - 1 : /\ accepted[i].agent = "researcher"
                                     /\ accepted[i].deps \subseteq done
  BY <1>1, <1>2, <1>3, BatchOf
<1>5. n \in Nat /\ at + n - 1 <= Len(accepted)
  BY <1>3, <1>4
<1>6. /\ batch' \in Seq({"waiting", "running", "ok", "limit", "error"})
      /\ Len(batch') = n /\ DOMAIN batch' = 1 .. n
      /\ \A i \in 1 .. n : batch'[i] = "waiting"
  <2>1. /\ DOMAIN batch' = 1 .. n
        /\ batch' \in [1 .. n -> {"waiting", "running", "ok", "limit", "error"}]
    BY <1>2
  <2>2. batch' \in Seq({"waiting", "running", "ok", "limit", "error"})
    BY <1>5, <2>1, SeqDef
  <2>3. Len(batch') = n
    BY <1>5, <2>1, <2>2
  <2> QED
    BY <1>2, <2>1, <2>2, <2>3
<1>7. BatchInOrder'
  <2>1. Running' = {}
    BY <1>6 DEF Running
  <2>2. Cardinality(Running') <= 2
    BY <2>1, FS_EmptySet
  <2>3. \A i \in 1 .. n : at + i - 1 \in at .. at + n - 1
    BY <1>3, <1>5
  <2>4. at' = Turn(state)' /\ ~Gated("researcher")'
    BY <1>2, <1>3, <1>4 DEF Turn, Count, Gated
  <2> QED
    BY <1>2, <1>3, <1>4, <1>5, <1>6, <2>2, <2>3, <2>4 DEF BatchInOrder
<1>8. TypeOK'
  BY <1>2, <1>6 DEF SupervisorInv, TypeOK
<1>9. Position'
  BY <1>2, <1>3 DEF SupervisorInv, Position, Busy, Reviewing, Turn, Count
<1>10. PlanInOrder'
  BY <1>2 DEF SupervisorInv, PlanInOrder, Count
<1>11. BetweenTasks'
  <2>1. Books(state, Count(state))'
    BY <1>2, AtRest, Carried DEF setup
  <2> QED
    BY <1>2, <2>1, AtRest DEF BetweenTasks, Count, NoFailure
<1>12. AtTask' /\ AtEnd' /\ HonestResult'
  BY <1>2, <1>3 DEF AtTask, AtEnd, HonestResult, Busy, Reviewing
<1> QED
  BY <1>7, <1>8, <1>9, <1>10, <1>11, <1>12 DEF SupervisorInv

LEMMA RunPlannedStep ==
  ASSUME SupervisorInv, RunPlanned
  PROVE  SupervisorInv'
<1>1. CASE SynthesizeReturns
  <2>1. state.steps < MaxRounds
    <3>1. /\ pc = "synthesize" /\ mode = "plan" /\ Count(state) = Len(accepted)
      BY <1>1 DEF SynthesizeReturns, SupervisorInv, Position
    <3>2. Len(accepted) < MaxRounds
      <4>1. accepted # <<>> => Len(accepted) < MaxRounds
        BY <3>1 DEF SupervisorInv, PlanInOrder
      <4>2. accepted = <<>> => Len(accepted) = 0
        OBVIOUS
      <4> QED
        BY <4>1, <4>2, LimitsAssumption
    <3> QED
      BY <3>1, <3>2, AtRest
  <2> QED
    BY <1>1, <2>1, FinishStep DEF SynthesizeReturns
<1>2. CASE SynthesizeRaises
  BY <1>2, Failing DEF SynthesizeRaises
<1>3. CASE PlannerRaises
  BY <1>3, Failing DEF PlannerRaises
<1> QED
  BY <1>1, <1>2, <1>3, PlannerReturnsStep, PlannerFallsBackStep, NextTaskStep,
     NextBatchStep DEF RunPlanned

----------------------------------------------------------------------------
(* The steps of a worker and of the review.                                *)

\* What is worked on has a new output.
LEMMA Output ==
  ASSUME SupervisorInv, pc = "work", NEW source \in BOOLEAN, NEW answer \in Answers,
         NEW base, base = WithTools(state, source) \/ base = state,
         Gated(job.agent) /\ MayAbstain(job.agent) /\ answer = "claims" => base.sources
  PROVE  LET t == WithOutput(base, at, answer)
         IN  /\ Books(t, at) /\ Turn(t) = at /\ t.steps = at
             /\ t.outputs # <<>>
             /\ Last(t.outputs).nr = at /\ Last(t.outputs).answer = answer
             /\ Tried(t, at, attempt, attempt - 1)
             /\ t.reviews = state.reviews
<1>1. /\ accepted \in Seq(Tasks) /\ Books(state, at) /\ state \in States
      /\ at = Turn(state) /\ at \in 1 .. Len(accepted) /\ at \in Nat
      /\ state.steps = at /\ attempt \in 1 .. MaxReviewRetries + 1
  BY InHand DEF Busy
<1>2. /\ base \in States /\ base.steps = state.steps
      /\ base.completed = state.completed /\ base.pending = state.pending
      /\ base.outputs = state.outputs /\ base.reviews = state.reviews
      /\ (state.sources => base.sources)
  BY <1>1, ToolsFields
<1>3. Books(base, at) /\ Turn(base) = at
  BY <1>1, <1>2, BooksSame DEF Turn, Count
<1>4. Tried(base, at, attempt - 1, attempt - 1)
  BY <1>2 DEF SupervisorInv, AtTask, Busy, Tried
<1>5. Gated(accepted[at].agent) /\ MayAbstain(accepted[at].agent) /\ answer = "claims"
        => base.sources
  BY DEF job
<1> DEFINE t == WithOutput(base, at, answer)
<1>6. /\ Books(t, at) /\ t.outputs # <<>>
      /\ Last(t.outputs).nr = at /\ Last(t.outputs).answer = answer
      /\ \A n, m \in Nat : Tried(base, at, n, m) => Tried(t, at, n + 1, m)
  BY <1>1, <1>3, <1>5, OutputBooked
<1>7. /\ t.completed = base.completed /\ t.steps = base.steps /\ t.reviews = base.reviews
  BY <1>1, <1>2, OutputFields
<1> HIDE DEF t
<1>8. attempt - 1 \in Nat /\ (attempt - 1) + 1 = attempt
  BY <1>1, LimitsAssumption
<1>9. Tried(t, at, attempt, attempt - 1)
  BY <1>4, <1>6, <1>8
<1>10. Turn(t) = at
  BY <1>3, <1>7 DEF Turn, Count
<1> QED
  BY <1>1, <1>2, <1>6, <1>7, <1>9, <1>10 DEF t

\* A worker's result goes to the review, or completes the task.
LEMMA ResultStep ==
  ASSUME SupervisorInv, pc = "work", NEW source \in BOOLEAN, NEW answer \in Answers,
         NEW base, base = WithTools(state, source) \/ base = state,
         Gated(job.agent) /\ MayAbstain(job.agent) /\ answer = "claims" => base.sources,
         result' = answer, UNCHANGED <<setup, accepted, attempt, batch>>,
         IF Gated(job.agent)
         THEN /\ state' = WithOutput(base, at, answer)
              /\ pc' = "review"
              /\ UNCHANGED <<at, done, outcome>>
         ELSE Advances(Completed(WithOutput(base, at, answer), at))
  PROVE  SupervisorInv'
<1> DEFINE t == WithOutput(base, at, answer)
<1>1. /\ Books(t, at) /\ Turn(t) = at /\ t.steps = at
      /\ t.outputs # <<>>
      /\ Last(t.outputs).nr = at /\ Last(t.outputs).answer = answer
      /\ Tried(t, at, attempt, attempt - 1)
      /\ t.reviews = state.reviews
  BY Output
<1>2. /\ accepted \in Seq(Tasks) /\ at = Turn(state) /\ at = Count(state) + 1
      /\ at \in 1 .. Len(accepted) /\ at \in Nat /\ Count(state) \in Nat
      /\ attempt \in 1 .. MaxReviewRetries + 1 /\ pc \in Busy
  BY InHand DEF Busy
<1>3. t \in States /\ Count(t) \in Nat /\ Count(t) + 1 = at /\ t.outputs \in Seq(Outputs)
  BY <1>1, StateFields DEF Books
<1>4. CASE Gated(job.agent)
  <2>1. state' = t /\ pc' = "review" /\ UNCHANGED <<at, done, outcome>>
    BY <1>4
  <2> HIDE DEF t
  <2>2. Books(state, at)'
    BY <1>1, <2>1, Carried
  <2>3. AtTask'
    <3>1. attempt' = attempt /\ result' = answer /\ at' = at /\ pc' = "review"
          /\ accepted' = accepted /\ kind' = kind /\ reviewer' = reviewer
      BY <2>1 DEF setup
    <3>2. Gated(job.agent)'
      BY <1>4, <3>1 DEF Gated, job
    <3> QED
      BY <1>1, <1>2, <2>1, <2>2, <3>1, <3>2 DEF AtTask, Busy, Reviewing, Tried
  <2>4. Count(t) = Count(state)
    BY <1>2, <1>3
  <2>5. pc' \in Busy /\ attempt' \in Nat /\ result' \in Answers \cup {"none"}
    BY <1>2, <2>1, LimitsAssumption DEF Busy, Reviewing
  <2> QED
    BY <1>1, <1>2, <2>1, <2>3, <2>4, <2>5, StillBusy
<1>5. CASE ~Gated(job.agent)
  <2>1. Advances(Completed(t, at))
    BY <1>5
  <2>2. About(t.outputs, at) # {}
    <3>1. Len(t.outputs) \in 1 .. Len(t.outputs)
      BY <1>1, <1>3
    <3> QED
      BY <1>1, <1>3, <3>1 DEF About, Last
  <2>3. Tried(t, at, MaxReviewRetries + 1, MaxReviewRetries + 2)
    <3>1. /\ attempt \in Nat /\ attempt - 1 \in Nat /\ MaxReviewRetries + 1 \in Nat
          /\ MaxReviewRetries + 2 \in Nat
          /\ attempt <= MaxReviewRetries + 1 /\ attempt - 1 <= MaxReviewRetries + 2
      BY <1>2, LimitsAssumption
    <3> QED
      BY <1>1, <1>3, <3>1, TriedMore
  <2> HIDE DEF t
  <2>4. PICK u : u = Completed(t, at)
    OBVIOUS
  <2>5. /\ Books(u, at) /\ Count(u) = at /\ u.steps = at /\ u.reviews = state.reviews
    BY <1>1, <1>2, <1>5, <2>2, <2>3, <2>4, CompletionBooked DEF job
  <2>6. NoFailure(u)
    BY <1>5, <2>5 DEF SupervisorInv, AtTask, Busy, NoFailure
  <2> QED
    BY <1>2, <2>1, <2>4, <2>5, <2>6, Advancing
<1> QED
  BY <1>4, <1>5

LEMMA WorkStep ==
  ASSUME SupervisorInv, Work
  PROVE  SupervisorInv'
<1>1. ASSUME NEW source \in BOOLEAN, WorkerReturns(source) PROVE SupervisorInv'
  <2>1. PICK base : base = WithTools(state, source)
    OBVIOUS
  <2>2. PICK answer : answer = IF Gated(job.agent) /\ MayAbstain(job.agent) /\ ~base.sources
                               THEN "no_source" ELSE "claims"
    OBVIOUS
  <2>3. answer \in Answers
        /\ (Gated(job.agent) /\ MayAbstain(job.agent) /\ answer = "claims" => base.sources)
    BY <2>2 DEF Answers
  <2>4. /\ pc = "work" /\ result' = answer
        /\ UNCHANGED <<setup, accepted, attempt, batch>>
        /\ IF Gated(job.agent)
           THEN /\ state' = WithOutput(base, at, answer)
                /\ pc' = "review"
                /\ UNCHANGED <<at, done, outcome>>
           ELSE Advances(Completed(WithOutput(base, at, answer), at))
    BY <1>1, <2>1, <2>2, Zenon DEF WorkerReturns
  <2> QED
    BY <2>1, <2>3, <2>4, ResultStep
<1>2. CASE WorkerAbstains
  <2>1. PICK answer : answer = Fallback(state)
    OBVIOUS
  <2>2. answer \in Answers /\ answer # "claims"
    BY <2>1 DEF Answers, Fallback
  <2>3. /\ pc = "work" /\ result' = answer
        /\ UNCHANGED <<setup, accepted, attempt, batch>>
        /\ IF Gated(job.agent)
           THEN /\ state' = WithOutput(state, at, answer)
                /\ pc' = "review"
                /\ UNCHANGED <<at, done, outcome>>
           ELSE Advances(Completed(WithOutput(state, at, answer), at))
    BY <1>2, <2>1, Zenon DEF WorkerAbstains
  <2> QED
    BY <2>2, <2>3, ResultStep
<1>3. CASE WorkerOverflowFails
  <2>1. /\ pc = "work" /\ ~Gated(job.agent) /\ Returns(Failed(state))
        /\ UNCHANGED <<setup, result, accepted, at, done, attempt, batch>>
    BY <1>3 DEF WorkerOverflowFails
  <2>2. /\ accepted \in Seq(Tasks) /\ Books(state, at) /\ state \in States
        /\ at = Turn(state) /\ at = Count(state) + 1 /\ Count(state) \in Nat
        /\ at \in 1 .. Len(accepted) /\ at \in Nat
        /\ state.steps = at /\ at <= MaxRounds
        /\ attempt \in 1 .. MaxReviewRetries + 1
    BY <2>1, InHand DEF Busy
  <2>3. PICK t : t = Failed(state)
    OBVIOUS
  <2>4. /\ t \in States /\ t.steps = state.steps
        /\ t.completed = state.completed /\ t.pending = state.pending
        /\ t.outputs = state.outputs /\ t.reviews = state.reviews
        /\ t.sources = state.sources /\ t.final = "failure"
    BY <2>2, <2>3, FailedFields
  <2>5. Books(t, at) /\ Turn(t) = at
    BY <2>2, <2>4, BooksSame DEF Turn, Count
  <2>6. Tried(t, at, MaxReviewRetries + 1, MaxReviewRetries + 2)
    <3>1. Tried(state, at, attempt - 1, attempt - 1)
      BY <2>1 DEF SupervisorInv, AtTask, Busy
    <3>2. Tried(t, at, attempt - 1, attempt - 1)
      BY <2>4, <3>1 DEF Tried
    <3>3. /\ attempt - 1 \in Nat /\ MaxReviewRetries + 1 \in Nat
          /\ MaxReviewRetries + 2 \in Nat
          /\ attempt - 1 <= MaxReviewRetries + 1 /\ attempt - 1 <= MaxReviewRetries + 2
      BY <2>2, LimitsAssumption
    <3> QED
      BY <2>4, <3>2, <3>3, TriedMore
  <2>7. state' = t /\ pc' = "ended" /\ outcome' = "returned" /\ result' = result
        /\ accepted' = accepted /\ at' = at /\ reviewer' = reviewer /\ kind' = kind
    BY <2>1, <2>3 DEF Returns, setup
  <2>8. HonestResult'
    <3>1. t.pending # <<>>
      <4>1. Len(state.pending) \in Nat /\ Count(state) + Len(state.pending) = Len(accepted)
            /\ state.pending \in Seq(Texts)
        BY <2>2, StateFields DEF Books, Listed
      <4>2. Len(state.pending) # 0
        BY <2>2, <4>1
      <4> QED
        BY <2>4, <4>2
    <3>2. NoFailure(state)
      BY <2>1 DEF SupervisorInv, AtTask, Busy
    <3>3. ~(t.reviews # <<>> /\ Last(t.reviews).status = "fail")
      BY <2>4, <3>2 DEF NoFailure
    <3>4. ~Gated(accepted[at].agent)'
      BY <2>1, <2>7 DEF Gated, job
    <3> QED
      BY <2>4, <2>7, <3>1, <3>3, <3>4 DEF HonestResult
  <2>9. result' \in Answers \cup {"none"}
    BY <2>7 DEF SupervisorInv, TypeOK
  <2>10. at <= Turn(t) /\ at <= Len(accepted) /\ Turn(t) = Turn(state) /\ t.steps <= MaxRounds
    BY <2>2, <2>4, <2>5
  <2> QED
    BY <2>1, <2>2, <2>5, <2>6, <2>7, <2>8, <2>9, <2>10, Ending
<1>4. CASE WorkerHitsLimit
  BY <1>4, Failing DEF WorkerHitsLimit
<1>5. CASE WorkerRaises
  BY <1>5, Failing DEF WorkerRaises
<1> QED
  BY <1>1, <1>2, <1>3, <1>4, <1>5 DEF Work

\* Under review.
LEMMA UnderReview ==
  ASSUME SupervisorInv, pc \in Reviewing
  PROVE  /\ pc \in Busy /\ Gated(job.agent) /\ result \in Answers
         /\ state.outputs # <<>>
         /\ Last(state.outputs).nr = at /\ Last(state.outputs).answer = result
  BY DEF SupervisorInv, AtTask, Busy

\* A review that passed vouches for what it saw: the last output.
LEMMA Passed ==
  ASSUME NEW s \in States, NEW i \in Nat, s.outputs # <<>>, Last(s.outputs).nr = i,
         LastAbout(s.reviews, i) # 0,
         s.reviews[LastAbout(s.reviews, i)].status = "pass",
         s.reviews[LastAbout(s.reviews, i)].seen = Last(s.outputs).answer
  PROVE  Vouched(s, i) /\ About(s.outputs, i) # {}
<1>1. PICK list : list = s.outputs
  OBVIOUS
<1>2. /\ list \in Seq(Outputs) /\ Len(list) \in 1 .. Len(list) /\ list[Len(list)] = Last(list)
      /\ list[Len(list)].nr = i /\ DOMAIN list = 1 .. Len(list) /\ Len(list) \in Nat
  BY <1>1 DEF States, Last
<1>3. \A j \in Len(list) + 1 .. Len(list) : list[j].nr # i
  BY <1>2
<1>4. LastAbout(list, i) = Len(list)
  BY <1>2, <1>3, LastAboutIs
<1>5. About(list, i) # {}
  BY <1>2 DEF About
<1> QED
  BY <1>1, <1>2, <1>4, <1>5 DEF Vouched

\* The task under review is complete.
LEMMA PassedStep ==
  ASSUME SupervisorInv, pc \in Reviewing, NEW a \in Nat,
         Advances(Completed(WithReview(state, at, a, "pass"), at)),
         NEW n \in Nat, NEW m \in Nat, Tried(state, at, n, m),
         n <= MaxReviewRetries + 1, m + 1 <= MaxReviewRetries + 2,
         UNCHANGED <<setup, accepted, batch>>, attempt' = attempt, result' = result
  PROVE  SupervisorInv'
<1>1. /\ accepted \in Seq(Tasks) /\ Books(state, at) /\ state \in States
      /\ at = Turn(state) /\ at \in 1 .. Len(accepted) /\ at \in Nat
      /\ state.steps = at /\ pc \in Busy /\ result \in Answers
      /\ state.outputs # <<>>
      /\ Last(state.outputs).nr = at /\ Last(state.outputs).answer = result
  BY UnderReview, InHand
<1>2. PICK t : t = WithReview(state, at, a, "pass")
  OBVIOUS
<1>3. /\ Books(t, at) /\ t.outputs = state.outputs
      /\ t.completed = state.completed /\ t.steps = state.steps
      /\ t.reviews # <<>> /\ Last(t.reviews).status = "pass"
      /\ t.reviews[LastAbout(t.reviews, at)].status = "pass"
      /\ t.reviews[LastAbout(t.reviews, at)].seen = result
      /\ LastAbout(t.reviews, at) # 0
      /\ Tried(t, at, n, m + 1)
  BY <1>1, <1>2, ReviewBooked DEF Statuses
<1>4. t \in States /\ t.completed = state.completed /\ t.steps = state.steps
  BY <1>3 DEF Books
<1>5. Turn(t) = at
  BY <1>1, <1>4 DEF Turn, Count
<1>6. Vouched(t, at) /\ About(t.outputs, at) # {}
  BY <1>1, <1>3, <1>4, Passed
<1>7. Tried(t, at, MaxReviewRetries + 1, MaxReviewRetries + 2)
  <2>1. m + 1 \in Nat /\ MaxReviewRetries + 1 \in Nat /\ MaxReviewRetries + 2 \in Nat
    BY LimitsAssumption
  <2> QED
    BY <1>3, <1>4, <2>1, TriedMore
<1>8. PICK u : u = Completed(t, at)
  OBVIOUS
<1>9. /\ Books(u, at) /\ Count(u) = at /\ u.steps = at /\ u.reviews = t.reviews
  BY <1>1, <1>3, <1>4, <1>5, <1>6, <1>7, <1>8, CompletionBooked
<1>10. NoFailure(u)
  BY <1>3, <1>9 DEF NoFailure
<1> QED
  BY <1>1, <1>2, <1>8, <1>9, <1>10, Advancing

\* The task under review fails for good.
LEMMA RejectedStep ==
  ASSUME SupervisorInv, pc \in Reviewing, NEW a \in Nat,
         Returns(Failed(WithReview(state, at, a, "fail"))),
         NEW n \in Nat, NEW m \in Nat, Tried(state, at, n, m),
         n <= MaxReviewRetries + 1, m + 1 <= MaxReviewRetries + 2,
         UNCHANGED <<setup, result, accepted, at, done, attempt, batch>>
  PROVE  SupervisorInv'
<1>1. /\ accepted \in Seq(Tasks) /\ Books(state, at) /\ state \in States
      /\ at = Turn(state) /\ at = Count(state) + 1 /\ Count(state) \in Nat
      /\ at \in 1 .. Len(accepted) /\ at \in Nat
      /\ state.steps = at /\ at <= MaxRounds /\ result \in Answers
      /\ Gated(job.agent)
  BY UnderReview, InHand
<1>2. PICK s : s = WithReview(state, at, a, "fail")
  OBVIOUS
<1>3. /\ Books(s, at) /\ s.reviews # <<>> /\ Last(s.reviews).status = "fail"
      /\ \A p, q \in Nat : Tried(state, at, p, q) => Tried(s, at, p, q + 1)
  <2>1. "fail" \in Statuses
    BY DEF Statuses
  <2>2. LET t == WithReview(state, at, a, "fail")
        IN  /\ Books(t, at) /\ t.outputs = state.outputs
            /\ t.reviews # <<>> /\ Last(t.reviews).status = "fail"
            /\ \A p, q \in Nat : Tried(state, at, p, q) => Tried(t, at, p, q + 1)
    <3>1. /\ accepted \in Seq(Tasks) /\ Books(state, at) /\ at = Turn(state)
          /\ at \in 1 .. Len(accepted) /\ result \in Answers
      BY <1>1
    <3> QED
      BY <2>1, <3>1, ReviewBooked
  <2> QED
    BY <1>2, <2>2
<1>4. s \in States /\ s.completed = state.completed /\ s.pending = state.pending
      /\ s.steps = state.steps
  <2>1. state \in States /\ at \in Nat /\ a \in Nat /\ result \in Answers
    BY <1>1
  <2> QED
    BY <1>2, <2>1, FailedReview
<1>5. PICK t : t = Failed(s)
  OBVIOUS
<1>6. /\ t \in States /\ t.steps = s.steps
      /\ t.completed = s.completed /\ t.pending = s.pending
      /\ t.outputs = s.outputs /\ t.reviews = s.reviews
      /\ t.sources = s.sources /\ t.final = "failure"
  BY <1>4, <1>5, FailedFields
<1>7. Books(t, at) /\ Turn(t) = at
  BY <1>1, <1>3, <1>4, <1>6, BooksSame DEF Turn, Count
<1>8. Tried(t, at, MaxReviewRetries + 1, MaxReviewRetries + 2)
  <2>1. m + 1 \in Nat /\ MaxReviewRetries + 1 \in Nat /\ MaxReviewRetries + 2 \in Nat
    BY LimitsAssumption
  <2>2. Tried(t, at, n, m + 1)
    <3>1. Tried(s, at, n, m + 1)
      BY <1>3
    <3> QED
      BY <1>6, <3>1 DEF Tried
  <2> QED
    BY <1>6, <2>1, <2>2, TriedMore
<1>9. state' = t /\ pc' = "ended" /\ outcome' = "returned" /\ result' = result
      /\ accepted' = accepted /\ at' = at /\ reviewer' = reviewer /\ kind' = kind
  BY <1>2, <1>5 DEF Returns, setup
<1>10. HonestResult'
  <2>1. t.pending # <<>>
    <3>1. Len(state.pending) \in Nat /\ Count(state) + Len(state.pending) = Len(accepted)
          /\ state.pending \in Seq(Texts)
      BY <1>1, StateFields DEF Books, Listed
    <3>2. Len(state.pending) # 0
      BY <1>1, <3>1
    <3> QED
      BY <1>4, <1>6, <3>2
  <2>2. Gated(accepted[at].agent)'
    BY <1>1, <1>9 DEF Gated, job
  <2> QED
    BY <1>3, <1>6, <1>9, <2>1, <2>2 DEF HonestResult
<1>11. at <= Turn(t) /\ at <= Len(accepted) /\ Turn(t) = Turn(state) /\ t.steps <= MaxRounds
       /\ result' \in Answers \cup {"none"}
  BY <1>1, <1>4, <1>6, <1>7, <1>9
<1> QED
  BY <1>1, <1>7, <1>8, <1>9, <1>10, <1>11, Ending

\* What is reviewed next is an abstention.
LEMMA AbstainStep ==
  ASSUME SupervisorInv, pc \in {"review", "rereview"}, NEW s, Books(s, at),
         Turn(s) = at, s.steps = at, s.outputs = state.outputs,
         state' = WithAnswer(s, at, "unverified"), result' = "unverified",
         attempt' = attempt, MayAbstain(job.agent),
         \/ pc' = "rereview" /\ Tried(s, at, attempt, attempt - 1)
         \/ pc' = "abstain" /\ Tried(s, at, MaxReviewRetries + 1, MaxReviewRetries + 1),
         UNCHANGED <<setup, accepted, at, done, batch, outcome>>
  PROVE  SupervisorInv'
<1>1. /\ accepted \in Seq(Tasks) /\ at = Count(state) + 1 /\ Count(state) \in Nat
      /\ at \in 1 .. Len(accepted) /\ at \in Nat
      /\ attempt \in 1 .. MaxReviewRetries + 1 /\ pc \in Busy
      /\ Gated(job.agent) /\ state.outputs # <<>> /\ Last(state.outputs).nr = at
  BY UnderReview, InHand DEF Reviewing
<1>2. PICK t : t = WithAnswer(s, at, "unverified")
  OBVIOUS
<1>3. /\ Books(t, at) /\ Turn(t) = at /\ t.steps = at
      /\ t.outputs # <<>>
      /\ Last(t.outputs).nr = at /\ Last(t.outputs).answer = "unverified"
      /\ \A n, m : Tried(s, at, n, m) => Tried(t, at, n, m)
  BY <1>1, <1>2, AbstentionBooked
<1>4. Count(t) = Count(state)
  <2>1. Count(t) \in Nat /\ Turn(t) = Count(t) + 1
    BY <1>3, StateFields DEF Books
  <2> QED
    BY <1>1, <1>3, <2>1
<1>5. /\ mode' = mode /\ kind' = kind /\ reviewer' = reviewer /\ accepted' = accepted
      /\ at' = at /\ state' = t /\ attempt' = attempt
  BY <1>2 DEF setup
<1>6. Books(state, at)'
  BY <1>3, <1>5, Carried DEF setup
<1>7. Gated(job.agent)' /\ MayAbstain(job.agent)'
  BY <1>1, <1>5 DEF Gated, MayAbstain, job
<1>8. /\ pc' = "rereview" => Tried(state, at, attempt, attempt - 1)'
      /\ pc' = "abstain" => Tried(state, at, MaxReviewRetries + 1, MaxReviewRetries + 1)'
  BY <1>3, <1>5 DEF Tried
<1>9. AtTask'
  BY <1>1, <1>3, <1>5, <1>6, <1>7, <1>8 DEF AtTask, Busy, Reviewing, Answers
<1>10. pc' \in Busy /\ attempt' \in Nat /\ result' \in Answers \cup {"none"}
  BY <1>1, LimitsAssumption DEF Busy, Reviewing, Answers
<1> QED
  BY <1>1, <1>3, <1>4, <1>5, <1>9, <1>10, StillBusy

LEMMA ReviewStep ==
  ASSUME SupervisorInv, Review
  PROVE  SupervisorInv'
<1>1. ASSUME NEW status \in {"pass", "fail"}, ReviewEnds(status) PROVE SupervisorInv'
  <2>1. pc \in {"review", "rereview"} /\ UNCHANGED <<setup, accepted, batch>>
        /\ pc \in Reviewing
    BY <1>1 DEF ReviewEnds, Reviewing
  <2>2. /\ accepted \in Seq(Tasks) /\ Books(state, at) /\ state \in States
        /\ at = Turn(state) /\ at \in 1 .. Len(accepted) /\ at \in Nat
        /\ state.steps = at /\ pc \in Busy /\ result \in Answers
        /\ attempt \in 1 .. MaxReviewRetries + 1 /\ Gated(job.agent)
        /\ at = Count(state) + 1 /\ Count(state) \in Nat
    BY <2>1, UnderReview, InHand
  <2>3. Tried(state, at, attempt, attempt - 1)
    BY <2>1, <2>2 DEF SupervisorInv, AtTask
  <2>4. /\ attempt \in Nat /\ attempt - 1 \in Nat /\ (attempt - 1) + 1 = attempt
        /\ attempt <= MaxReviewRetries + 1 /\ attempt <= MaxReviewRetries + 2
        /\ MaxReviewRetries \in Nat
    BY <2>2, LimitsAssumption
  <2>5. CASE status = "pass"
    <3>1. /\ Advances(Completed(WithReview(state, at, attempt, "pass"), at))
          /\ attempt' = attempt /\ result' = result
      BY <1>1, <2>5 DEF ReviewEnds
    <3> QED
      BY <2>1, <2>3, <2>4, <3>1, PassedStep
  <2>6. CASE status = "fail"
    <3>1. PICK s : s = WithReview(state, at, attempt, "fail")
      OBVIOUS
    <3>2. /\ Books(s, at) /\ s.outputs = state.outputs
          /\ Tried(s, at, attempt, attempt)
      <4>1. /\ Books(s, at) /\ s.outputs = state.outputs
            /\ \A p, q \in Nat : Tried(state, at, p, q) => Tried(s, at, p, q + 1)
        <5>1. "fail" \in Statuses
          BY DEF Statuses
        <5>2. LET t == WithReview(state, at, attempt, "fail")
              IN  /\ Books(t, at) /\ t.outputs = state.outputs
                  /\ \A p, q \in Nat : Tried(state, at, p, q) => Tried(t, at, p, q + 1)
            <6>1. /\ accepted \in Seq(Tasks) /\ Books(state, at) /\ at = Turn(state)
                /\ at \in 1 .. Len(accepted) /\ result \in Answers /\ attempt \in Nat
              BY <2>2, <2>4
            <6> QED
              BY <5>1, <6>1, ReviewBooked
        <5> QED
          BY <3>1, <5>2
      <4>2. Tried(s, at, attempt, (attempt - 1) + 1)
        BY <2>3, <2>4, <4>1
      <4> QED
        BY <2>4, <4>1, <4>2
    <3>3. s \in States /\ s.completed = state.completed /\ s.steps = state.steps
      <4>1. state \in States /\ at \in Nat /\ attempt \in Nat /\ result \in Answers
        BY <2>2, <2>4
      <4> QED
        BY <3>1, <4>1, FailedReview
    <3>4. Turn(s) = at /\ Count(s) = Count(state)
      BY <2>2, <3>3 DEF Turn, Count
    <3>5. CASE attempt <= MaxReviewRetries
      <4>1. /\ state' = s /\ attempt' = attempt + 1 /\ pc' = "work"
            /\ UNCHANGED <<at, done, result, outcome>>
        BY <1>1, <2>4, <2>6, <3>1, <3>5 DEF ReviewEnds
      <4>2. Books(state, at)'
        BY <2>1, <3>2, <4>1, Carried
      <4>3. /\ mode' = mode /\ kind' = kind /\ reviewer' = reviewer /\ accepted' = accepted
            /\ at' = at /\ result' = result
        BY <2>1, <4>1 DEF setup
      <4>4. Gated(job.agent)'
        BY <2>2, <4>3 DEF Gated, job
      <4>5. attempt' \in 1 .. MaxReviewRetries + 1 /\ attempt' - 1 = attempt
        BY <2>4, <3>5, <4>1
      <4>6. Tried(state, at, attempt - 1, attempt - 1)'
        BY <3>2, <4>1, <4>3, <4>5 DEF Tried
      <4>7. AtTask'
        BY <2>2, <3>3, <4>1, <4>2, <4>3, <4>4, <4>5, <4>6 DEF AtTask, Busy, Reviewing
      <4>8. pc' \in Busy /\ attempt' \in Nat /\ result' \in Answers \cup {"none"}
        BY <2>2, <2>4, <4>1, <4>3 DEF Busy
      <4> QED
        BY <2>1, <2>2, <3>2, <3>4, <4>1, <4>7, <4>8, StillBusy
    <3>6. CASE attempt = MaxReviewRetries + 1
      <4>1. ~(attempt <= MaxReviewRetries)
        BY <2>4, <3>6
      <4>2. /\ attempt' = attempt /\ UNCHANGED <<at, done>>
            /\ IF MayAbstain(job.agent)
               THEN /\ state' = WithAnswer(s, at, "unverified")
                    /\ result' = "unverified"
                    /\ pc' = "abstain"
                    /\ UNCHANGED outcome
               ELSE Returns(Failed(s)) /\ result' = result
        BY <1>1, <2>6, <3>1, <4>1 DEF ReviewEnds
      <4>3. CASE MayAbstain(job.agent)
        <5>1. Tried(s, at, MaxReviewRetries + 1, MaxReviewRetries + 1)
          BY <3>2, <3>6
        <5> QED
          BY <2>1, <2>2, <3>2, <3>3, <3>4, <4>2, <4>3, <5>1, AbstainStep
      <4>4. CASE ~MayAbstain(job.agent)
        <5>1. Returns(Failed(WithReview(state, at, attempt, "fail"))) /\ result' = result
          BY <3>1, <4>2, <4>4
        <5> QED
          BY <2>1, <2>3, <2>4, <4>2, <5>1, RejectedStep
      <4> QED
        BY <4>3, <4>4
    <3>7. attempt <= MaxReviewRetries \/ attempt = MaxReviewRetries + 1
      BY <2>4
    <3> QED
      BY <3>5, <3>6, <3>7
  <2> QED
    BY <2>5, <2>6
<1>2. CASE ReviewOverflows
  <2>1. /\ pc = "review" /\ pc \in Reviewing /\ MayAbstain(job.agent)
        /\ state' = WithAnswer(state, at, "unverified") /\ result' = "unverified"
        /\ pc' = "rereview" /\ attempt' = attempt
        /\ UNCHANGED <<setup, accepted, at, done, batch, outcome>>
    BY <1>2 DEF ReviewOverflows, Reviewing
  <2>2. /\ Books(state, at) /\ Turn(state) = at /\ state.steps = at /\ pc \in Busy
    BY <2>1, UnderReview, InHand
  <2>3. Tried(state, at, attempt, attempt - 1)
    BY <2>1, <2>2 DEF SupervisorInv, AtTask
  <2> QED
    BY <2>1, <2>2, <2>3, AbstainStep
<1>3. ASSUME NEW status \in {"pass", "fail"}, AbstentionReviewed(status)
      PROVE SupervisorInv'
  <2>1. /\ pc = "abstain" /\ pc \in Reviewing
        /\ UNCHANGED <<setup, result, accepted, attempt, batch>>
    BY <1>3 DEF AbstentionReviewed, Reviewing
  <2>2. Tried(state, at, MaxReviewRetries + 1, MaxReviewRetries + 1)
    BY <2>1, UnderReview DEF SupervisorInv, AtTask
  <2>3. /\ MaxReviewRetries + 1 \in Nat /\ MaxReviewRetries + 2 \in Nat
        /\ MaxReviewRetries + 1 <= MaxReviewRetries + 1
        /\ (MaxReviewRetries + 1) + 1 <= MaxReviewRetries + 2
    BY LimitsAssumption
  <2>4. CASE status = "pass"
    <3>1. Advances(Completed(WithReview(state, at, MaxReviewRetries + 2, "pass"), at))
      BY <1>3, <2>4 DEF AbstentionReviewed
    <3> QED
      BY <2>1, <2>2, <2>3, <3>1, PassedStep
  <2>5. CASE status = "fail"
    <3>1. /\ Returns(Failed(WithReview(state, at, MaxReviewRetries + 2, "fail")))
          /\ UNCHANGED <<at, done>>
      BY <1>3, <2>5 DEF AbstentionReviewed
    <3> QED
      BY <2>1, <2>2, <2>3, <3>1, RejectedStep
  <2> QED
    BY <2>4, <2>5
<1>4. CASE ReviewRaises
  BY <1>4, Failing DEF ReviewRaises
<1> QED
  BY <1>1, <1>2, <1>3, <1>4 DEF Review

----------------------------------------------------------------------------
(* The steps of a batch.                                                   *)

\* Its workers start and end, the rest waits.
LEMMA BatchMoves ==
  ASSUME SupervisorInv, pc = "batch", NEW i \in DOMAIN batch,
         NEW how \in {"waiting", "running", "ok", "limit", "error"},
         batch' = [batch EXCEPT ![i] = how],
         IsFiniteSet(Running'), Cardinality(Running') <= 2,
         UNCHANGED <<setup, result, pc, accepted, at, done, attempt, state, outcome>>
  PROVE  SupervisorInv'
<1>1. /\ mode' = mode /\ kind' = kind /\ reviewer' = reviewer /\ result' = result
      /\ pc' = pc /\ accepted' = accepted /\ at' = at /\ done' = done
      /\ attempt' = attempt /\ state' = state /\ outcome' = outcome
  BY DEF setup
<1>2. batch \in Seq({"waiting", "running", "ok", "limit", "error"})
  BY DEF SupervisorInv, TypeOK
<1>3. /\ batch' \in Seq({"waiting", "running", "ok", "limit", "error"})
      /\ Len(batch') = Len(batch) /\ DOMAIN batch' = DOMAIN batch
  BY <1>2
<1>4. TypeOK'
  BY <1>1, <1>3 DEF SupervisorInv, TypeOK
<1>5. Position' /\ PlanInOrder'
  BY <1>1 DEF SupervisorInv, Position, PlanInOrder, Turn, Count
<1>6. BatchInOrder'
  <2>1. batch # NoBatch
    BY <1>2 DEF NoBatch
  <2>2. /\ mode = "plan" /\ ~Gated("researcher")
        /\ at = Turn(state) /\ at + Len(batch) - 1 <= Len(accepted)
        /\ \A j \in DOMAIN batch : /\ accepted[at + j - 1].agent = "researcher"
                                   /\ accepted[at + j - 1].deps \subseteq done
    BY <2>1 DEF SupervisorInv, BatchInOrder
  <2>3. ~Gated("researcher")' /\ Turn(state)' = Turn(state)
    BY <1>1, <2>2 DEF Gated, Turn, Count
  <2> QED
    BY <1>1, <1>3, <2>2, <2>3 DEF BatchInOrder
<1>7. BetweenTasks'
  <2>1. Books(state, Count(state)) /\ NoFailure(state) /\ state.steps = Count(state)
    BY AtRest
  <2>2. Books(state, Count(state))'
    BY <1>1, <2>1, Carried DEF setup
  <2> QED
    BY <1>1, <2>1, <2>2 DEF BetweenTasks, NoFailure, Count
<1>8. AtTask' /\ AtEnd' /\ HonestResult'
  <2>1. outcome = "none"
    BY AtRest
  <2> QED
    BY <1>1, <2>1 DEF AtTask, AtEnd, HonestResult, Busy, Reviewing
<1> QED
  BY <1>4, <1>5, <1>6, <1>7, <1>8 DEF SupervisorInv

LEMMA RunningFinite ==
  ASSUME batch \in Seq({"waiting", "running", "ok", "limit", "error"})
  PROVE  IsFiniteSet(Running) /\ Cardinality(Running) \in Nat
<1>1. Len(batch) \in Nat /\ DOMAIN batch = 1 .. Len(batch)
  OBVIOUS
<1>2. IsFiniteSet(1 .. Len(batch)) /\ Running \subseteq 1 .. Len(batch)
  BY <1>1, FS_Interval DEF Running
<1>3. IsFiniteSet(Running)
  BY <1>2, FS_Subset
<1> QED
  BY <1>3, FS_CardinalityType

LEMMA BatchStartsStep ==
  ASSUME SupervisorInv, NEW i \in DOMAIN batch, BatchStarts(i)
  PROVE  SupervisorInv'
<1>1. /\ pc = "batch" /\ batch[i] = "waiting" /\ Cardinality(Running) < 2
      /\ batch' = [batch EXCEPT ![i] = "running"]
      /\ UNCHANGED <<setup, result, pc, accepted, at, done, attempt, state, outcome>>
  BY DEF BatchStarts
<1>2. batch \in Seq({"waiting", "running", "ok", "limit", "error"})
  BY DEF SupervisorInv, TypeOK
<1>3. IsFiniteSet(Running) /\ Cardinality(Running) \in Nat
  BY <1>2, RunningFinite
<1>4. Running' = Running \cup {i} /\ i \notin Running
  BY <1>1, <1>2 DEF Running
<1>5. IsFiniteSet(Running') /\ Cardinality(Running') = Cardinality(Running) + 1
  BY <1>3, <1>4, FS_AddElement
<1>6. Cardinality(Running') <= 2
  BY <1>1, <1>3, <1>5
<1> QED
  BY <1>1, <1>5, <1>6, BatchMoves

LEMMA BatchEndsStep ==
  ASSUME SupervisorInv, NEW i \in DOMAIN batch, NEW how \in {"ok", "limit", "error"},
         BatchEnds(i, how)
  PROVE  SupervisorInv'
<1>1. /\ pc = "batch" /\ batch' = [batch EXCEPT ![i] = how]
      /\ UNCHANGED <<setup, result, pc, accepted, at, done, attempt, state, outcome>>
  BY DEF BatchEnds
<1>2. batch \in Seq({"waiting", "running", "ok", "limit", "error"})
  BY DEF SupervisorInv, TypeOK
<1>3. IsFiniteSet(Running) /\ Cardinality(Running) \in Nat /\ Cardinality(Running) <= 2
  BY <1>2, RunningFinite DEF SupervisorInv, BatchInOrder
<1>4. Running' \subseteq Running
  BY <1>1, <1>2 DEF Running
<1>5. /\ IsFiniteSet(Running') /\ Cardinality(Running') \in Nat
      /\ Cardinality(Running') <= Cardinality(Running)
  BY <1>3, <1>4, FS_Subset, FS_CardinalityType
<1>6. Cardinality(Running') <= 2
  BY <1>3, <1>5
<1> QED
  BY <1>1, <1>5, <1>6, BatchMoves

\* How one result is recorded, on its own.
Record(s, k) == Completed(WithOutput(s, at + k - 1, "claims"), at + k - 1)

\* The states of Recorded up to n, one made from the one before.
Chain(f, n) == f = [k \in 0 .. n |-> IF k = 0 THEN state ELSE Record(f[k - 1], k)]

\* There are such states, for any n: where there are for n - 1 but not for n, one more is
\* recorded.
LEMMA ChainExists ==
  ASSUME NEW n \in Nat
  PROVE  \E f : Chain(f, n)
<1> DEFINE T == {m \in Nat : ~ \E f : Chain(f, m)}
<1>1. SUFFICES ASSUME T # {} PROVE FALSE
  OBVIOUS
<1>2. PICK m : m = Min(T)
  OBVIOUS
<1>3. m \in Nat /\ (~ \E f : Chain(f, m)) /\ \A j \in T : m <= j
  BY <1>1, <1>2, SmallestOf
<1>4. CASE m = 0
  <2> DEFINE f == [k \in 0 .. 0 |-> state]
  <2>1. f = [k \in 0 .. 0 |-> IF k = 0 THEN state ELSE Record(f[k - 1], k)]
    OBVIOUS
  <2>2. Chain(f, 0)
    BY <2>1, Zenon DEF Chain
  <2> QED
    BY <1>3, <1>4, <2>2
<1>5. CASE m # 0
  <2>1. PICK p : p = m - 1
    OBVIOUS
  <2>2. p \in Nat /\ m = p + 1 /\ ~(m <= p) /\ m \notin 0 .. p /\ m \in 0 .. m
    BY <1>3, <1>5, <2>1
  <2>3. PICK f : Chain(f, p)
    BY <1>3, <2>2
  <2>4. f = [k \in 0 .. p |-> IF k = 0 THEN state ELSE Record(f[k - 1], k)]
    BY <2>3, Zenon DEF Chain
  <2>5. PICK last : last = Record(f[p], m)
    OBVIOUS
  <2>6. PICK g : g = [k \in 0 .. m |-> IF k = m THEN last ELSE f[k]]
    OBVIOUS
  <2>7. ASSUME NEW k \in 0 .. m
        PROVE  g[k] = IF k = 0 THEN state ELSE Record(g[k - 1], k)
    <3>1. CASE k = m
      <4>1. g[k] = last /\ k # 0 /\ k - 1 = p /\ p \in 0 .. m /\ p # m
        BY <1>5, <2>2, <2>6, <3>1
      <4>2. g[p] = f[p]
        BY <2>6, <4>1
      <4> QED
        BY <2>5, <3>1, <4>1, <4>2
    <3>2. CASE k # m /\ k = 0
      <4>1. g[k] = f[k] /\ k \in 0 .. p
        BY <2>2, <2>6, <3>2
      <4> QED
        BY <2>4, <3>2, <4>1
    <3>3. CASE k # m /\ k # 0
      <4>1. /\ g[k] = f[k] /\ k \in 0 .. p /\ k - 1 \in 0 .. m /\ k - 1 # m
        BY <2>2, <2>6, <3>3
      <4>2. g[k - 1] = f[k - 1]
        BY <2>6, <4>1
      <4>3. f[k] = Record(f[k - 1], k)
        BY <2>4, <3>3, <4>1
      <4> QED
        BY <3>3, <4>1, <4>2, <4>3
    <3> QED
      BY <3>1, <3>2, <3>3
  <2>8. g = [k \in 0 .. m |-> IF k = 0 THEN state ELSE Record(g[k - 1], k)]
    BY <2>6, <2>7
  <2>9. Chain(g, m)
    BY <2>8, Zenon DEF Chain
  <2> QED
    BY <1>3, <2>9
<1> QED
  BY <1>4, <1>5

LEMMA RecordedIs ==
  ASSUME Len(batch) \in Nat
  PROVE  /\ Recorded[0] = state
         /\ \A k \in 1 .. Len(batch) : Recorded[k] = Record(Recorded[k - 1], k)
<1>1. Recorded = CHOOSE f : Chain(f, Len(batch))
  BY Zenon DEF Recorded, Chain, Record
<1>2. Chain(Recorded, Len(batch))
  BY <1>1, ChainExists
<1>3. Recorded = [k \in 0 .. Len(batch) |-> IF k = 0 THEN state ELSE Record(Recorded[k - 1], k)]
  BY <1>2, Zenon DEF Chain
<1>4. \A k \in 0 .. Len(batch) :
        Recorded[k] = IF k = 0 THEN state ELSE Record(Recorded[k - 1], k)
  BY <1>3, Zenon
<1> QED
  BY <1>4

\* s has the results of k workers in order.
InOrder(s, k) ==
  /\ Books(s, at + k - 1) /\ Turn(s) = at + k
  /\ s.steps = state.steps /\ NoFailure(s)

\* One result more.
LEMMA RecordBooked ==
  ASSUME accepted \in Seq(Tasks), NEW s, NEW k \in Nat, InOrder(s, k), at \in Nat,
         at + k \in 1 .. Len(accepted),
         accepted[at + k].agent = "researcher", ~Gated("researcher")
  PROVE  InOrder(Record(s, k + 1), k + 1)
<1>1. PICK i : i = at + k
  OBVIOUS
<1>2. /\ i \in Nat /\ i \in 1 .. Len(accepted) /\ at + (k + 1) - 1 = i /\ at + k - 1 = i - 1
      /\ i - 1 \in Nat /\ i - 1 <= i /\ i > i - 1 /\ at + (k + 1) = i + 1
      /\ ~Gated(accepted[i].agent)
  BY <1>1
<1>3. /\ Books(s, i - 1) /\ i = Turn(s) /\ s.steps = state.steps /\ NoFailure(s)
      /\ s \in States
  BY <1>1, <1>2 DEF InOrder, Books
<1>4. PICK t, u : t = WithOutput(s, i, "claims") /\ u = Completed(t, i)
  OBVIOUS
<1>5. "claims" \in Answers
  BY DEF Answers
<1>6. /\ Books(t, i) /\ t.outputs # <<>> /\ Last(t.outputs).nr = i
      /\ \A n, m \in Nat : Tried(s, i, n, m) => Tried(t, i, n + 1, m)
  BY <1>2, <1>3, <1>4, <1>5, OutputBooked
<1>7. /\ t \in States /\ t.completed = s.completed /\ t.steps = s.steps /\ t.reviews = s.reviews
  BY <1>2, <1>3, <1>4, <1>5, OutputFields
<1>8. i = Turn(t)
  BY <1>3, <1>7 DEF Turn, Count
<1>9. Tried(t, i, MaxReviewRetries + 1, MaxReviewRetries + 2)
  <2>1. Tried(s, i, 0, 0)
    BY <1>2, <1>3, NothingBeyond
  <2>2. Tried(t, i, 0 + 1, 0)
    BY <1>6, <2>1
  <2>3. /\ 0 + 1 \in Nat /\ 0 \in Nat /\ MaxReviewRetries + 1 \in Nat
        /\ MaxReviewRetries + 2 \in Nat
        /\ 0 + 1 <= MaxReviewRetries + 1 /\ 0 <= MaxReviewRetries + 2
    BY LimitsAssumption
  <2> QED
    BY <1>7, <2>2, <2>3, TriedMore
<1>10. About(t.outputs, i) # {}
  <2>1. t.outputs \in Seq(Outputs)
    BY <1>7, StateFields
  <2>2. Len(t.outputs) \in DOMAIN t.outputs
    BY <1>6, <2>1
  <2> QED
    BY <1>6, <2>2 DEF About, Last
<1>11. /\ Books(u, i) /\ Count(u) = i /\ u.steps = t.steps /\ u.reviews = t.reviews
  BY <1>2, <1>4, <1>6, <1>8, <1>9, <1>10, CompletionBooked
<1>12. Record(s, k + 1) = u
  BY <1>2, <1>4 DEF Record
<1>13. Turn(u) = i + 1 /\ NoFailure(u)
  BY <1>3, <1>7, <1>11 DEF Turn, NoFailure
<1> QED
  BY <1>2, <1>3, <1>7, <1>11, <1>12, <1>13 DEF InOrder

\* Each of the recorded states is in order: the first that were not would follow one that is.
LEMMA RecordedInOrder ==
  ASSUME SupervisorInv, pc = "batch", NEW n \in 0 .. Len(batch)
  PROVE  InOrder(Recorded[n], n)
<1> DEFINE T == {k \in 0 .. Len(batch) : ~InOrder(Recorded[k], k)}
<1>1. SUFFICES ASSUME T # {} PROVE FALSE
  OBVIOUS
<1>2. /\ accepted \in Seq(Tasks) /\ at \in Nat /\ Len(accepted) \in Nat /\ Len(batch) \in Nat
      /\ DOMAIN batch = 1 .. Len(batch)
      /\ at = Turn(state) /\ Turn(state) = Count(state) + 1 /\ Count(state) \in Nat
      /\ Books(state, Count(state)) /\ NoFailure(state)
  BY AtRest DEF SupervisorInv, TypeOK, Position
<1>3. PICK m : m = Min(T)
  OBVIOUS
<1>4. m \in 0 .. Len(batch) /\ ~InOrder(Recorded[m], m) /\ \A j \in T : m <= j
  <2>1. T \in SUBSET Nat
    BY <1>2
  <2> QED
    BY <1>1, <1>3, <2>1, SmallestOf
<1>5. CASE m = 0
  <2>1. Recorded[0] = state
    BY <1>2, RecordedIs
  <2>2. at + 0 - 1 = Count(state) /\ at + 0 = Turn(state)
    BY <1>2
  <2>3. InOrder(state, 0)
    BY <1>2, <2>2 DEF InOrder
  <2> QED
    BY <1>4, <1>5, <2>1, <2>3
<1>6. CASE m # 0
  <2>1. PICK k : k = m - 1
    OBVIOUS
  <2>2. /\ k \in Nat /\ k \in 0 .. Len(batch) /\ m \in 1 .. Len(batch) /\ m = k + 1
        /\ ~(m <= k)
    BY <1>2, <1>4, <1>6, <2>1
  <2>3. InOrder(Recorded[k], k)
    BY <1>4, <2>2
  <2>4. Recorded[m] = Record(Recorded[k], m)
    BY <1>2, <2>1, <2>2, RecordedIs
  <2>5. batch # NoBatch
    BY <1>2, <2>2 DEF NoBatch
  <2>6. /\ ~Gated("researcher") /\ at + Len(batch) - 1 <= Len(accepted)
        /\ accepted[at + m - 1].agent = "researcher"
    <3>1. /\ ~Gated("researcher") /\ at + Len(batch) - 1 <= Len(accepted)
          /\ \A i \in DOMAIN batch : accepted[at + i - 1].agent = "researcher"
      BY <2>5 DEF SupervisorInv, BatchInOrder
    <3> QED
      BY <1>2, <2>2, <3>1
  <2>7. at + k \in 1 .. Len(accepted) /\ at + m - 1 = at + k
    BY <1>2, <2>2, <2>6
  <2>8. InOrder(Record(Recorded[k], k + 1), k + 1)
    BY <1>2, <2>2, <2>3, <2>6, <2>7, RecordBooked
  <2> QED
    BY <1>4, <2>2, <2>4, <2>8
<1> QED
  BY <1>5, <1>6

LEMMA BatchCommitsStep ==
  ASSUME SupervisorInv, BatchCommits
  PROVE  SupervisorInv'
<1>1. PICK n : n = Len(batch)
  OBVIOUS
<1>2. /\ pc = "batch"
      /\ state' = [Recorded[n] EXCEPT !.steps = @ + n]
      /\ done' = done \cup at .. at + n - 1
      /\ at' = at + n
      /\ pc' = IF at + n > Len(accepted) THEN "synthesize" ELSE "next"
      /\ batch' = NoBatch
      /\ mode' = mode /\ kind' = kind /\ reviewer' = reviewer /\ result' = result
      /\ accepted' = accepted /\ attempt' = attempt /\ outcome' = outcome
  BY <1>1 DEF BatchCommits, setup
<1>3. /\ accepted \in Seq(Tasks) /\ at \in Nat /\ Len(accepted) \in Nat /\ n \in Nat
      /\ at = Turn(state) /\ Turn(state) = Count(state) + 1 /\ Count(state) \in Nat
      /\ at <= Len(accepted) /\ mode = "plan" /\ outcome = "none"
      /\ state.steps = Count(state) /\ Len(accepted) <= MaxRounds
  BY <1>1, <1>2, AtRest DEF SupervisorInv, TypeOK, Position
<1>4. at + n - 1 <= Len(accepted)
  <2>1. CASE batch = NoBatch
    <3>1. n = 0
      BY <1>1, <2>1 DEF NoBatch
    <3> QED
      BY <1>3, <3>1
  <2>2. CASE batch # NoBatch
    BY <1>1, <2>2 DEF SupervisorInv, BatchInOrder
  <2> QED
    BY <2>1, <2>2
<1>5. PICK s : s = Recorded[n]
  OBVIOUS
<1>6. /\ Books(s, at + n - 1) /\ Turn(s) = at + n
      /\ s.steps = state.steps /\ NoFailure(s)
  <2>1. n \in 0 .. Len(batch)
    BY <1>1, <1>3
  <2> QED
    BY <1>2, <1>5, <2>1, RecordedInOrder DEF InOrder
<1>7. s \in States /\ Count(s) \in Nat /\ Turn(s) = Count(s) + 1
  BY <1>6, StateFields DEF Books
<1>8. PICK t : t = [s EXCEPT !.steps = @ + n]
  OBVIOUS
<1>9. /\ t \in States /\ t.steps = state.steps + n
      /\ t.completed = s.completed /\ t.pending = s.pending
      /\ t.outputs = s.outputs /\ t.reviews = s.reviews
      /\ t.sources = s.sources /\ state' = t
  <2>1. s.steps + n \in Nat
    BY <1>3, <1>7 DEF States
  <2> QED
    BY <1>2, <1>5, <1>6, <1>7, <1>8, <2>1 DEF States
<1>10. /\ Count(t) = at + n - 1 /\ Turn(t) = at + n /\ NoFailure(t)
       /\ t.steps = Count(t) /\ Count(t) = Count(s)
  <2>1. Count(s) = at + n - 1
    BY <1>3, <1>6, <1>7
  <2>2. Count(t) = Count(s) /\ NoFailure(t)
    BY <1>6, <1>9 DEF Count, NoFailure
  <2>3. state.steps + n = at + n - 1
    BY <1>3
  <2> QED
    BY <1>6, <1>7, <1>9, <2>1, <2>2, <2>3 DEF Turn
<1>11. Books(t, Count(t))
  BY <1>6, <1>9, <1>10, BooksSame
<1>12. Books(state, Count(state))'
  BY <1>2, <1>9, <1>11, Carried DEF setup
<1>13. BetweenTasks'
  BY <1>9, <1>10, <1>12 DEF BetweenTasks, Count, NoFailure
<1>14. at + n \in Nat /\ done' \in SUBSET Nat
  BY <1>2, <1>3 DEF SupervisorInv, TypeOK
<1>15. TypeOK'
  BY <1>2, <1>9, <1>14 DEF SupervisorInv, TypeOK, NoBatch
<1>16. Position'
  <2>1. pc' = "synthesize" => Count(state)' = Len(accepted)'
    <3>1. Count(state)' = at + n - 1
      BY <1>9, <1>10 DEF Count
    <3>2. at + n > Len(accepted) => at + n - 1 = Len(accepted)
      BY <1>3, <1>4
    <3> QED
      BY <1>2, <3>1, <3>2
  <2>2. pc' = "next" => at' = Turn(state)' /\ at' <= Len(accepted)'
    <3>1. Turn(state)' = at + n
      BY <1>9, <1>10 DEF Turn, Count
    <3> QED
      BY <1>2, <1>3, <3>1
  <2>3. pc' \in {"next", "synthesize"}
    BY <1>2
  <2> QED
    BY <1>2, <1>3, <2>1, <2>2, <2>3 DEF Position, Busy, Reviewing
<1>17. PlanInOrder'
  <2>1. done = 1 .. Count(state)
    BY <1>3 DEF SupervisorInv, PlanInOrder
  <2>2. (1 .. Count(state)) \cup (at .. at + n - 1) = 1 .. at + n - 1
    BY <1>3
  <2>3. done' = 1 .. Count(state)'
    BY <1>2, <1>9, <1>10, <2>1, <2>2 DEF Count
  <2> QED
    BY <1>2, <1>3, <2>3 DEF SupervisorInv, PlanInOrder
<1>18. BatchInOrder'
  <2>1. Running' = {}
    BY <1>2 DEF Running, NoBatch
  <2> QED
    BY <1>2, <2>1, FS_EmptySet DEF BatchInOrder
<1>19. AtTask' /\ AtEnd' /\ HonestResult'
  BY <1>2, <1>3 DEF AtTask, AtEnd, HonestResult, Busy, Reviewing
<1> QED
  BY <1>13, <1>15, <1>16, <1>17, <1>18, <1>19 DEF SupervisorInv

LEMMA BatchStep ==
  ASSUME SupervisorInv, Batch
  PROVE  SupervisorInv'
<1>1. CASE BatchRaises
  <2>1. PICK i \in DOMAIN batch : Raises(IF batch[i] = "limit" THEN "worker" ELSE "lost")
    BY <1>1 DEF BatchRaises
  <2> QED
    BY <1>1, <2>1, Failing DEF BatchRaises
<1> QED
  BY <1>1, BatchStartsStep, BatchEndsStep, BatchCommitsStep DEF Batch

----------------------------------------------------------------------------
(* The theorems.                                                           *)

\* Nothing changes.
LEMMA Stuttering ==
  ASSUME SupervisorInv, UNCHANGED vars
  PROVE  SupervisorInv'
<1>1. /\ mode' = mode /\ kind' = kind /\ reviewer' = reviewer /\ result' = result
      /\ pc' = pc /\ accepted' = accepted /\ at' = at /\ done' = done
      /\ attempt' = attempt /\ state' = state /\ batch' = batch /\ outcome' = outcome
  BY DEF vars, setup
<1>2. TypeOK' /\ Position' /\ PlanInOrder' /\ HonestResult'
  BY <1>1 DEF SupervisorInv, TypeOK, Position, PlanInOrder, HonestResult, Turn, Count, Gated
<1>3. BatchInOrder'
  BY <1>1 DEF SupervisorInv, BatchInOrder, Running, Gated, Turn, Count
<1>4. BetweenTasks'
  BY <1>1, Carried DEF SupervisorInv, BetweenTasks, setup, Count, NoFailure
<1>5. AtTask'
  <2>1. pc \in Busy => Books(state, at)'
    BY <1>1, Carried DEF SupervisorInv, AtTask, setup
  <2>2. Gated(job.agent)' = Gated(job.agent) /\ MayAbstain(job.agent)' = MayAbstain(job.agent)
    BY <1>1 DEF Gated, MayAbstain, job
  <2> QED
    BY <1>1, <2>1, <2>2 DEF SupervisorInv, AtTask, Tried, NoFailure
<1>6. AtEnd'
  BY <1>1, Carried DEF SupervisorInv, AtEnd, setup, Tried
<1> QED
  BY <1>2, <1>3, <1>4, <1>5, <1>6 DEF SupervisorInv

\* The books of a task are in order at every await of run, run_planned and the review loop, and
\* the loop variables of the code agree with them.
THEOREM SupervisorInvariant == Spec => []SupervisorInv
<1>1. SupervisorInv /\ [Next]_vars => SupervisorInv'
  BY RunStep, RunPlannedStep, BatchStep, WorkStep, ReviewStep, Stuttering DEF Next
<1> QED
  BY <1>1, InitBooked, PTL DEF Spec

\* The books are in order wherever it is.
LEMMA InvBooks ==
  ASSUME SupervisorInv
  PROVE  /\ accepted \in Seq(Tasks) /\ state \in States
         /\ Listed(state) /\ DoneInOrder(state) /\ OutputsInOrder(state, Len(accepted))
         /\ Count(state) \in Nat /\ Len(accepted) \in Nat /\ Count(state) <= Len(accepted)
         /\ state.steps <= MaxRounds
         /\ \A i \in DOMAIN accepted : Tried(state, i, MaxReviewRetries + 1, MaxReviewRetries + 2)
<1>1. /\ accepted \in Seq(Tasks) /\ Len(accepted) \in Nat /\ state \in States
      /\ Count(state) \in Nat /\ Turn(state) = Count(state) + 1
  BY StateFields DEF SupervisorInv, TypeOK
<1>2. /\ Books(state, Len(accepted)) /\ state.steps <= MaxRounds
      /\ \A i \in DOMAIN accepted : Tried(state, i, MaxReviewRetries + 1, MaxReviewRetries + 2)
  <2>1. CASE pc \in Busy
    <3>1. /\ Books(state, at) /\ at \in Nat /\ at = Turn(state) /\ at <= Len(accepted)
          /\ state.steps <= MaxRounds
      BY <2>1, InHand
    <3>2. Tried(state, at, MaxReviewRetries + 1, MaxReviewRetries + 2)
      BY <2>1, TriedInHand
    <3>3. Books(state, Len(accepted))
      BY <1>1, <3>1, BooksHigher
    <3>4. at <= Turn(state)
      BY <3>1
    <3> QED
      BY <1>1, <3>1, <3>2, <3>3, <3>4, AllTried
  <2>2. CASE pc \in {"decide", "plan", "next", "batch", "synthesize"}
    <3>1. /\ Books(state, Count(state)) /\ Count(state) <= Len(accepted)
          /\ state.steps <= MaxRounds
      BY <2>2, AtRest
    <3>2. Books(state, Len(accepted))
      BY <1>1, <3>1, BooksHigher
    <3>3. Count(state) <= Turn(state) /\ Count(state) # Turn(state)
      BY <1>1
    <3> QED
      BY <1>1, <3>1, <3>2, <3>3, AllTried
  <2>3. CASE pc = "ended"
    BY <2>3 DEF SupervisorInv, AtEnd
  <2> QED
    BY <2>1, <2>2, <2>3 DEF SupervisorInv, TypeOK
<1>3. Count(state) <= Len(accepted)
  <2>1. Len(state.pending) \in Nat /\ Count(state) + Len(state.pending) = Len(accepted)
    BY <1>1, <1>2, StateFields DEF Books, Listed
  <2> QED
    BY <1>1, <2>1
<1> QED
  BY <1>1, <1>2, <1>3 DEF Books

\* What is completed and what is pending are together the accepted tasks.
LEMMA BooksAreComplete == SupervisorInv => NothingLost
<1>1. ASSUME SupervisorInv PROVE NothingLost
  <2>1. PICK a, b, texts : a = state.completed /\ b = state.pending /\ texts = AcceptedTexts
    OBVIOUS
  <2>2. /\ a \in Seq(Texts) /\ b \in Seq(Texts) /\ Len(a) \in Nat /\ Len(b) \in Nat
        /\ accepted \in Seq(Tasks) /\ Len(accepted) \in Nat
        /\ Len(a) + Len(b) = Len(accepted)
        /\ \A k \in 1 .. Len(a) : a[k] = accepted[k].text
        /\ \A k \in 1 .. Len(b) : b[k] = accepted[Len(a) + k].text
    <3>1. /\ a \in Seq(Texts) /\ b \in Seq(Texts)
          /\ accepted \in Seq(Tasks) /\ Listed(state)
      BY <1>1, <2>1, InvBooks, StateFields
    <3>2. Len(a) \in Nat /\ Len(b) \in Nat /\ Len(accepted) \in Nat
      BY <3>1
    <3> QED
      BY <2>1, <3>1, <3>2 DEF Listed, Count
  <2>3. PICK all : all = a \o b
    OBVIOUS
  <2>4. /\ all \in Seq(Texts) /\ Len(all) = Len(accepted)
        /\ \A k \in 1 .. Len(a) : all[k] = a[k]
        /\ \A k \in 1 .. Len(b) : all[Len(a) + k] = b[k]
    BY <2>2, <2>3
  <2>5. ASSUME NEW k \in 1 .. Len(accepted) PROVE all[k] = accepted[k].text
    <3>1. CASE k <= Len(a)
      <4>1. k \in 1 .. Len(a)
        BY <2>2, <3>1
      <4> QED
        BY <2>2, <2>4, <4>1
    <3>2. CASE k > Len(a)
      <4>1. PICK m : m = k - Len(a)
        OBVIOUS
      <4>2. m \in 1 .. Len(b) /\ Len(a) + m = k
        BY <2>2, <3>2, <4>1
      <4> QED
        BY <2>2, <2>4, <4>2
    <3> QED
      BY <2>2, <3>1, <3>2
  <2>6. DOMAIN accepted = 1 .. Len(accepted) /\ DOMAIN all = 1 .. Len(accepted)
    BY <2>2, <2>4
  <2>7. all = [i \in DOMAIN accepted |-> accepted[i].text]
    <3>1. all = [i \in 1 .. Len(all) |-> all[i]]
      BY <2>4
    <3> QED
      BY <2>4, <2>5, <2>6, <3>1
  <2> QED
    BY <2>1, <2>3, <2>7 DEF NothingLost, AcceptedTexts
<1> QED
  BY <1>1

\* Nothing delegated is lost, done twice or reordered.
THEOREM NothingIsLost == Spec => []NothingLost
  BY BooksAreComplete, SupervisorInvariant, PTL

\* What is completed was vouched for by its last review.
LEMMA CompletedVouched == SupervisorInv => ReviewedBeforeCompleted
<1>1. ASSUME SupervisorInv PROVE ReviewedBeforeCompleted
  <2>1. DoneInOrder(state)
    BY <1>1, InvBooks
  <2> QED
    BY <2>1 DEF DoneInOrder, Count, Vouched, ReviewedBeforeCompleted
<1> QED
  BY <1>1

\* Reviewed work is complete only with a passed review of the answer that stands.
THEOREM CompletedWasReviewed == Spec => []ReviewedBeforeCompleted
  BY CompletedVouched, SupervisorInvariant, PTL

\* Reviewed research claims nothing without a source.
THEOREM ClaimsRestOnSources == Spec => []ClaimsHaveSources
<1>1. ASSUME SupervisorInv PROVE ClaimsHaveSources
  <2>1. OutputsInOrder(state, Len(accepted)) /\ state.outputs \in Seq(Outputs)
    BY <1>1, InvBooks, StateFields
  <2>2. ASSUME NEW i \in 1 .. Len(state.completed),
               Gated(accepted[i].agent), MayAbstain(accepted[i].agent), ~state.sources,
               NEW o \in Range(state.outputs), o.nr = i
        PROVE  o.answer # "claims"
    <3>1. PICK k \in DOMAIN state.outputs : o = state.outputs[k]
      BY DEF Range
    <3> QED
      BY <2>1, <2>2, <3>1 DEF OutputsInOrder
  <2> QED
    BY <2>2 DEF ClaimsHaveSources
<1> QED
  BY <1>1, SupervisorInvariant, PTL

\* What is derived from the result is right.
THEOREM ResultIsHonest == Spec => []HonestResult
<1>1. SupervisorInv => HonestResult
  BY DEF SupervisorInv
<1> QED
  BY <1>1, SupervisorInvariant, PTL

\* The books have as many entries as the limits allow.
LEMMA LimitsHold == SupervisorInv => WithinLimits
<1>1. ASSUME SupervisorInv PROVE WithinLimits
  BY <1>1, InvBooks DEF WithinLimits, Tried
<1> QED
  BY <1>1

\* Rounds, attempts and reviews stay within their limits.
THEOREM LimitsAreKept == Spec => []WithinLimits
  BY LimitsHold, SupervisorInvariant, PTL

\* Every task waits for what it depends on.
THEOREM DependenciesComeFirst == Spec => []DependenciesFirst
<1>1. ASSUME SupervisorInv PROVE DependenciesFirst
  <2>1. SUFFICES ASSUME mode = "plan" PROVE
          /\ pc \in {"next", "work", "review", "rereview", "abstain"} =>
               accepted[at].deps \subseteq done
          /\ \A i \in DOMAIN batch : accepted[at + i - 1].deps \subseteq done
          /\ Len(state.completed) = Cardinality(done)
    BY DEF DependenciesFirst
  <2>2. /\ Count(state) \in Nat /\ Turn(state) = Count(state) + 1
        /\ accepted \in Seq(Tasks) /\ at \in Nat
    BY <1>1, InvBooks, StateFields DEF SupervisorInv, TypeOK
  <2>3. /\ done = 1 .. Count(state)
        /\ \A i \in DOMAIN accepted : accepted[i].deps \subseteq 1 .. i - 1
    BY <1>1, <2>1 DEF SupervisorInv, PlanInOrder
  <2>4. ASSUME pc \in {"next", "work", "review", "rereview", "abstain"}
        PROVE  accepted[at].deps \subseteq done
    <3>1. at = Turn(state) /\ at <= Len(accepted)
      BY <1>1, <2>4 DEF SupervisorInv, Position, Busy, Reviewing
    <3>2. at \in DOMAIN accepted /\ at - 1 = Count(state)
      BY <2>2, <3>1
    <3> QED
      BY <2>3, <3>2
  <2>5. ASSUME NEW i \in DOMAIN batch PROVE accepted[at + i - 1].deps \subseteq done
    <3>1. batch # NoBatch
      BY DEF NoBatch
    <3> QED
      BY <1>1, <3>1 DEF SupervisorInv, BatchInOrder
  <2>6. Len(state.completed) = Cardinality(done)
    <3>1. Cardinality(1 .. Count(state)) = Count(state)
      BY <2>2, FS_Interval
    <3> QED
      BY <2>3, <3>1 DEF Count
  <2> QED
    BY <2>4, <2>5, <2>6
<1> QED
  BY <1>1, SupervisorInvariant, PTL

\* Two researchers at a time, and results in plan order.
THEOREM ResearchStaysInOrder == Spec => []ResearchInOrder
<1>1. ASSUME SupervisorInv PROVE ResearchInOrder
  <2>1. OutputsInOrder(state, Len(accepted)) /\ state.outputs \in Seq(Outputs)
    BY <1>1, InvBooks, StateFields
  <2>2. ASSUME NEW i \in DOMAIN state.outputs, NEW j \in DOMAIN state.outputs, i < j
        PROVE  state.outputs[i].nr <= state.outputs[j].nr
    <3>1. i \in 1 .. j
      BY <2>1, <2>2
    <3> QED
      BY <2>1, <3>1, Zenon DEF OutputsInOrder
  <2>3. Cardinality(Running) <= 2
    BY <1>1 DEF SupervisorInv, BatchInOrder
  <2> QED
    BY <2>2, <2>3 DEF ResearchInOrder
<1> QED
  BY <1>1, SupervisorInvariant, PTL

\* A text begins what the text is the beginning of.
LEMMA Begins ==
  ASSUME NEW S, NEW s \in Seq(S), NEW more \in Seq(S)
  PROVE  IsPrefix(s, s \o more)
<1>1. /\ Len(s) \in Nat /\ Len(more) \in Nat
      /\ s \o more \in Seq(S) /\ Len(s \o more) = Len(s) + Len(more)
      /\ \A k \in 1 .. Len(s) : (s \o more)[k] = s[k]
  BY ConcatProperties
<1>2. SubSeq(s, 1, Len(s)) = [k \in 1 .. Len(s) |-> s[k]]
  BY <1>1
<1>3. SubSeq(s \o more, 1, Len(s)) = [k \in 1 .. Len(s) |-> (s \o more)[k]]
  BY <1>1
<1> QED
  BY <1>1, <1>2, <1>3 DEF IsPrefix

\* The text of a task begins its assignment, with or without feedback.
LEMMA BeginsItsOwn ==
  ASSUME accepted \in Seq(Tasks), NEW i \in DOMAIN accepted
  PROVE  IsPrefix(accepted[i].text, Assignment(i))
<1>1. accepted[i].text \in Texts
  <2>1. accepted[i] \in Tasks
    OBVIOUS
  <2> QED
    BY <2>1 DEF Tasks
<1>2. accepted[i].text \in Seq(STRING)
  BY <1>1, WordingAssumption DEF Texts, Range
<1>3. PICK Words : Words = STRING \cup {"feedback"}
  OBVIOUS
<1>4. accepted[i].text \in Seq(Words) /\ <<"feedback">> \in Seq(Words) /\ <<>> \in Seq(Words)
  BY <1>2, <1>3
<1> QED
  BY <1>4, Begins DEF Assignment

\* The task that an unmistaken one is taken for depends on the same tasks.
LEMMA FoundByText ==
  ASSUME accepted \in Seq(Tasks), NEW i \in DOMAIN accepted, ~Mistaken(i)
  PROVE  accepted[SelectInSeq(accepted, LAMBDA t : IsPrefix(t.text, Assignment(i)))].deps
           = accepted[i].deps
<1> DEFINE I == {k \in 1 .. Len(accepted) : IsPrefix(accepted[k].text, Assignment(i))}
<1>1. Len(accepted) \in Nat /\ DOMAIN accepted = 1 .. Len(accepted) /\ i \in Nat
  OBVIOUS
<1>2. I \in SUBSET Nat /\ i \in I /\ I # {}
  BY <1>1, BeginsItsOwn
<1>3. Min(I) \in I /\ \A j \in I : Min(I) <= j
  BY <1>2, SmallestOf
<1>4. PICK m : m = Min(I)
  OBVIOUS
<1>5. m \in 1 .. Len(accepted) /\ IsPrefix(accepted[m].text, Assignment(i)) /\ m <= i
  BY <1>2, <1>3, <1>4
<1>6. accepted[m].deps = accepted[i].deps
  <2>1. m = i \/ m \in 1 .. i - 1
    BY <1>1, <1>5
  <2> QED
    BY <1>5, <2>1 DEF Mistaken
<1>7. SelectInSeq(accepted, LAMBDA t : IsPrefix(t.text, Assignment(i))) = m
  BY <1>2, <1>4 DEF SelectInSeq
<1> QED
  BY <1>6, <1>7

\* A task of a plan that is not mistaken for another is given outputs of what it depends
\* on and no others, the latest of each unless three later ones take the places.
THEOREM InputsAreGiven == Spec => []InputsGiven
<1>1. ASSUME SupervisorInv PROVE InputsGiven
  <2>1. SUFFICES ASSUME mode = "plan", NEW i \in AtWork, ~Mistaken(i)
                 PROVE  /\ \A k \in Inputs(i) : state.outputs[k].nr \in accepted[i].deps
                        /\ \A d \in accepted[i].deps :
                             LET latest == LastAbout(state.outputs, d)
                             IN  \/ latest \in Inputs(i)
                                 \/ Cardinality({k \in latest + 1 .. Len(state.outputs) :
                                                   state.outputs[k].nr \in accepted[i].deps}) >= 3
    BY DEF InputsGiven
  <2>2. /\ accepted \in Seq(Tasks) /\ state \in States /\ DoneInOrder(state)
        /\ OutputsInOrder(state, Len(accepted))
        /\ Count(state) \in Nat /\ Turn(state) = Count(state) + 1 /\ Len(accepted) \in Nat
        /\ at \in Nat
    BY <1>1, InvBooks, StateFields DEF SupervisorInv, TypeOK
  <2>3. i \in DOMAIN accepted /\ accepted[i].deps \subseteq 1 .. Count(state)
    <3>1. /\ done = 1 .. Count(state)
          /\ \A k \in DOMAIN accepted : accepted[k].deps \subseteq 1 .. k - 1
      BY <1>1, <2>1 DEF SupervisorInv, PlanInOrder
    <3>2. CASE pc = "work"
      <4>1. i = at /\ at = Turn(state) /\ at <= Len(accepted)
        BY <1>1, <3>2 DEF AtWork, SupervisorInv, Position, Busy
      <4>2. at \in DOMAIN accepted /\ at - 1 = Count(state)
        BY <2>2, <4>1
      <4> QED
        BY <3>1, <4>1, <4>2
    <3>3. CASE pc = "batch"
      <4>1. i \in at .. at + Len(batch) - 1
            /\ batch \in Seq({"waiting", "running", "ok", "limit", "error"})
        BY <1>1, <3>3 DEF AtWork, SupervisorInv, TypeOK
      <4>2. PICK n : n = i - at + 1
        OBVIOUS
      <4>3. n \in DOMAIN batch /\ at + n - 1 = i /\ Len(batch) \in Nat /\ i \in Nat
        BY <2>2, <4>1, <4>2
      <4>4. batch # NoBatch
        BY <4>3 DEF NoBatch
      <4>5. /\ at + Len(batch) - 1 <= Len(accepted) /\ at = Turn(state)
            /\ accepted[i].deps \subseteq done
        BY <1>1, <4>3, <4>4 DEF SupervisorInv, BatchInOrder
      <4>6. i \in DOMAIN accepted
        BY <2>2, <4>1, <4>3, <4>5
      <4> QED
        BY <3>1, <4>5, <4>6
    <3> QED
      BY <3>2, <3>3 DEF AtWork
  <2>4. state.outputs \in Seq(Outputs)
    BY <2>2, StateFields
  <2>5. OutputsFor(i) = {k \in DOMAIN state.outputs : state.outputs[k].nr \in accepted[i].deps}
    <3>1. accepted[SelectInSeq(accepted, LAMBDA t : IsPrefix(t.text, Assignment(i)))].deps
            = accepted[i].deps
      BY <2>1, <2>2, <2>3, FoundByText
    <3>2. OutputsFor(i) = {k \in DOMAIN state.outputs : state.outputs[k].id \in accepted[i].deps}
      BY <3>1, Zenon DEF OutputsFor
    <3>3. \A k \in DOMAIN state.outputs : state.outputs[k].id = state.outputs[k].nr
      BY <2>1, <2>2 DEF OutputsInOrder, PlannedId
    <3> QED
      BY <3>2, <3>3
  <2>6. \A k \in Inputs(i) : state.outputs[k].nr \in accepted[i].deps
    BY <2>5 DEF Inputs
  <2>7. ASSUME NEW d \in accepted[i].deps
        PROVE  LET latest == LastAbout(state.outputs, d)
               IN  \/ latest \in Inputs(i)
                   \/ Cardinality({k \in latest + 1 .. Len(state.outputs) :
                                     state.outputs[k].nr \in accepted[i].deps}) >= 3
    <3>1. PICK latest : latest = LastAbout(state.outputs, d)
      OBVIOUS
    <3>2. latest \in DOMAIN state.outputs /\ state.outputs[latest].nr = d
      <4>1. About(state.outputs, d) # {}
        BY <2>1, <2>2, <2>3 DEF DoneInOrder
      <4>2. latest \in About(state.outputs, d)
        BY <2>4, <3>1, <4>1, LastAboutFound
      <4> QED
        BY <4>2 DEF About
    <3>3. PICK Later : Later = {l \in OutputsFor(i) : l > latest}
      OBVIOUS
    <3>4. Later = {k \in latest + 1 .. Len(state.outputs) :
                     state.outputs[k].nr \in accepted[i].deps}
      <4>1. DOMAIN state.outputs = 1 .. Len(state.outputs) /\ Len(state.outputs) \in Nat
        BY <2>4
      <4>2. latest \in Nat /\ latest >= 1
        BY <3>2, <4>1
      <4> QED
        BY <2>5, <3>3, <4>1, <4>2
    <3>5. Cardinality(Later) \in Nat
      <4>1. Later \subseteq 1 .. Len(state.outputs) /\ Len(state.outputs) \in Nat
        BY <2>4, <2>5, <3>3
      <4>2. IsFiniteSet(Later)
        <5>1. IsFiniteSet(1 .. Len(state.outputs))
          BY <4>1, FS_Interval
        <5> QED
          BY <4>1, <5>1, FS_Subset
      <4> QED
        BY <4>2, FS_CardinalityType
    <3>6. CASE Cardinality(Later) < 3
      <4>1. latest \in OutputsFor(i)
        BY <2>1, <2>5, <3>2
      <4>2. latest \in Inputs(i)
        BY <3>3, <3>6, <4>1 DEF Inputs
      <4> QED
        BY <3>1, <4>2
    <3>7. CASE Cardinality(Later) >= 3
      BY <3>1, <3>4, <3>7
    <3> QED
      BY <3>5, <3>6, <3>7
  <2> QED
    BY <2>6, <2>7
<1> QED
  BY <1>1, SupervisorInvariant, PTL

----------------------------------------------------------------------------
(* The task ends.                                                          *)

\* The awaits of one task: a worker, its review and one more for an abstention, for
\* each attempt, or two turns of a worker in a batch.
PerTask == 3 * MaxReviewRetries + 5

\* The tasks that may still be begun: as rounds allow, or as planned.
Beyond == IF mode = "run" THEN MaxRounds - Len(accepted) ELSE Len(accepted) - at

\* What is left of the task in hand.
InTask ==
  CASE pc = "work" -> 3 * (MaxReviewRetries + 1 - attempt) + 4
    [] pc = "review" -> 3 * (MaxReviewRetries + 1 - attempt) + 3
    [] pc = "rereview" -> 3 * (MaxReviewRetries + 1 - attempt) + 2
    [] OTHER -> 1

\* What is left of the batch.
Waiting == {i \in DOMAIN batch : batch[i] = "waiting"}
InBatch == 2 * Cardinality(Waiting) + Cardinality(Running)

\* How many steps of the coroutine and its workers are left at most.
StepsLeft ==
  CASE pc = "ended" -> 0
    [] pc = "synthesize" -> 1
    [] pc = "plan" -> MaxRounds * PerTask + 2
    [] pc = "decide" -> Beyond * PerTask + 1
    [] pc = "next" -> (Beyond + 1) * PerTask + 1
    [] pc = "batch" -> (Beyond + 1 - Len(batch)) * PerTask + 2 + InBatch
    [] OTHER -> Beyond * PerTask + 1 + InTask

LEMMA OneMore ==
  ASSUME NEW d \in Nat, NEW k \in Nat
  PROVE  d * k \in Nat /\ (d + 1) * k = d * k + k
  OBVIOUS

\* Some more tasks take as many turns more.
LEMMA SomeMore ==
  ASSUME NEW d \in Nat, NEW n \in Nat, n >= 1, NEW k \in Nat, k >= 5
  PROVE  (d + n) * k \in Nat /\ d * k \in Nat /\ (d + n) * k > d * k + 2 * n + 1
PROOF
  <1>1. PICK j \in Nat : k = j + 5
    <2>1. k - 5 \in Nat /\ k = (k - 5) + 5
      OBVIOUS
    <2>2. QED
      BY <2>1
  <1>2. (d + n) * k = d * k + n * k
    OBVIOUS
  <1>3. n * k = n * j + n * 5
    BY <1>1
  <1>4. n * j \in Nat /\ d * k \in Nat /\ n * k \in Nat
    BY <1>1
  <1>5. PICK x, y, z \in Nat : x = n * j /\ y = d * k /\ z = n * k
    BY <1>4
  <1>6. z = x + n * 5 /\ (d + n) * k = y + z
    BY <1>2, <1>3, <1>5
  <1>7. QED
    BY <1>5, <1>6

\* The numbers, place by place.
LEMMA LeftTypes ==
  ASSUME SupervisorInv
  PROVE  /\ MaxRounds \in Nat /\ MaxRounds >= 1 /\ MaxReviewRetries \in Nat
         /\ PerTask \in Nat /\ PerTask >= 5
         /\ Len(accepted) \in Nat /\ Len(accepted) <= MaxRounds /\ at \in Nat
         /\ pc \in {"decide", "plan", "next", "batch", "synthesize", "ended"} \cup Busy
         /\ pc = "decide" => mode = "run" /\ Beyond \in Nat
         /\ pc = "next" => mode = "plan" /\ at <= Len(accepted) /\ Beyond \in Nat
         /\ pc \in Busy => Beyond \in Nat /\ InTask \in Nat /\ InTask >= 1
PROOF
  <1>1. MaxRounds \in Nat /\ MaxRounds >= 1 /\ MaxReviewRetries \in Nat
    BY LimitsAssumption
  <1>2. PerTask \in Nat /\ PerTask >= 5
    BY <1>1 DEF PerTask
  <1>3. /\ accepted \in Seq(Tasks) /\ at \in Nat /\ Len(accepted) <= MaxRounds
        /\ mode \in {"run", "plan"}
        /\ pc \in {"decide", "plan", "next", "batch", "synthesize", "ended"} \cup Busy
        /\ pc = "decide" => mode = "run"
        /\ pc = "next" => mode = "plan" /\ at <= Len(accepted)
        /\ pc \in Busy => at <= Len(accepted)
        /\ pc \in Busy => attempt \in 1 .. MaxReviewRetries + 1
    BY DEF SupervisorInv, TypeOK, Position, AtTask
  <1>4. Len(accepted) \in Nat
    BY <1>3
  <1>5. pc \in {"decide", "next"} \cup Busy => Beyond \in Nat
    BY <1>1, <1>3, <1>4 DEF Beyond
  <1>6. pc \in Busy => InTask \in Nat /\ InTask >= 1
    <2>1. SUFFICES ASSUME pc \in Busy PROVE InTask \in Nat /\ InTask >= 1
      OBVIOUS
    <2>2. PICK r \in Nat : r = MaxReviewRetries + 1 - attempt
      BY <1>1, <1>3, <2>1
    <2>3. InTask \in {3 * r + 4, 3 * r + 3, 3 * r + 2, 1}
      BY <2>2 DEF InTask
    <2>4. QED
      BY <2>2, <2>3
  <1>7. QED
    BY <1>1, <1>2, <1>3, <1>4, <1>5, <1>6

\* A batch is of tasks of the plan, and of as many as wait, run or have ended.
LEMMA BatchTypes ==
  ASSUME SupervisorInv, pc = "batch"
  PROVE  /\ mode = "plan" /\ Len(batch) \in Nat
         /\ batch \in Seq({"waiting", "running", "ok", "limit", "error"})
         /\ Beyond + 1 - Len(batch) \in Nat
         /\ IsFiniteSet(Waiting) /\ IsFiniteSet(Running)
         /\ Cardinality(Waiting) \in Nat /\ Cardinality(Running) \in Nat
         /\ InBatch \in Nat
PROOF
  <1>1. /\ batch \in Seq({"waiting", "running", "ok", "limit", "error"})
        /\ mode = "plan" /\ at <= Len(accepted)
        /\ batch # NoBatch => at + Len(batch) - 1 <= Len(accepted)
    BY DEF SupervisorInv, TypeOK, Position, BatchInOrder
  <1>2. Len(batch) \in Nat /\ DOMAIN batch = 1 .. Len(batch)
    BY <1>1
  <1>3. batch = NoBatch => Len(batch) = 0
    BY DEF NoBatch
  <1>4. Beyond + 1 - Len(batch) \in Nat
    <2>1. PICK n, l : n = Len(batch) /\ l = Len(accepted)
      OBVIOUS
    <2>2. n \in Nat /\ l \in Nat /\ at \in Nat /\ at <= l /\ Beyond = l - at
      BY <1>1, <1>2, <2>1, LeftTypes DEF Beyond
    <2>3. n = 0 \/ at + n - 1 <= l
      BY <1>1, <1>3, <2>1
    <2>4. l - at + 1 - n \in Nat
      BY <2>2, <2>3
    <2>5. QED
      BY <2>1, <2>2, <2>4
  <1>5. IsFiniteSet(Waiting) /\ Cardinality(Waiting) \in Nat
    <2>1. IsFiniteSet(1 .. Len(batch)) /\ Waiting \subseteq 1 .. Len(batch)
      BY <1>2, FS_Interval DEF Waiting
    <2>2. QED
      BY <2>1, FS_Subset, FS_CardinalityType
  <1>6. IsFiniteSet(Running) /\ Cardinality(Running) \in Nat
    BY <1>1, RunningFinite
  <1>7. InBatch \in Nat
    BY <1>5, <1>6 DEF InBatch
  <1>8. QED
    BY <1>1, <1>2, <1>4, <1>5, <1>6, <1>7

\* What is left is a number, and it is at least one before the end.
LEMMA LeftCounts ==
  ASSUME SupervisorInv
  PROVE  StepsLeft \in Nat /\ (pc # "ended" => StepsLeft >= 1)
PROOF
  <1>1. PICK k \in Nat : k = PerTask
    BY LeftTypes
  <1>2. CASE pc \in {"ended", "synthesize"}
    BY <1>2 DEF StepsLeft
  <1>3. CASE pc = "plan"
    <2>1. MaxRounds * k \in Nat
      BY <1>1, LeftTypes, OneMore
    <2>2. QED
      BY <1>1, <1>3, <2>1 DEF StepsLeft
  <1>4. CASE pc \in {"decide", "next"}
    <2>1. PICK b \in Nat : b = Beyond
      BY <1>4, LeftTypes
    <2>2. b * k \in Nat /\ (b + 1) * k \in Nat
      BY <1>1, OneMore
    <2>3. StepsLeft = b * k + 1 \/ StepsLeft = (b + 1) * k + 1
      BY <1>1, <1>4, <2>1 DEF StepsLeft
    <2>4. QED
      BY <2>2, <2>3
  <1>5. CASE pc = "batch"
    <2>1. PICK b, m \in Nat : b = Beyond + 1 - Len(batch) /\ m = InBatch
      BY <1>5, BatchTypes
    <2>2. PICK p \in Nat : p = b * k
      BY <1>1, OneMore
    <2>3. StepsLeft = p + 2 + m
      BY <1>1, <1>5, <2>1, <2>2 DEF StepsLeft
    <2>4. QED
      BY <2>1, <2>2, <2>3
  <1>6. CASE pc \in Busy
    <2>1. PICK b, m \in Nat : b = Beyond /\ m = InTask /\ m >= 1
      BY <1>6, LeftTypes
    <2>2. b * k \in Nat
      BY <1>1, OneMore
    <2>3. StepsLeft = b * k + 1 + m
      BY <1>1, <1>6, <2>1 DEF StepsLeft, Busy, Reviewing
    <2>4. QED
      BY <2>1, <2>2, <2>3
  <1>7. QED
    BY <1>2, <1>3, <1>4, <1>5, <1>6, LeftTypes

LEMMA EndNearer ==
  ASSUME SupervisorInv, pc # "ended", pc' = "ended"
  PROVE  StepsLeft' < StepsLeft
PROOF
  <1>1. StepsLeft' = 0
    BY DEF StepsLeft
  <1>2. QED
    BY <1>1, LeftCounts

\* A task that is begun has one attempt less than it is counted with.
LEMMA BeginNearer ==
  ASSUME SupervisorInv, pc' = "work", attempt' = 1, NEW b \in Nat, Beyond' = b,
         \/ pc = "decide" /\ Beyond = b + 1
         \/ pc = "next" /\ Beyond = b
  PROVE  StepsLeft' < StepsLeft
PROOF
  <1>1. PICK k \in Nat : k = PerTask
    BY LeftTypes
  <1>2. MaxReviewRetries \in Nat /\ k = 3 * MaxReviewRetries + 5
    BY <1>1, LeftTypes DEF PerTask
  <1>3. PICK p \in Nat : p = b * k /\ (b + 1) * k = p + k
    BY <1>1, OneMore
  <1>4. StepsLeft = p + k + 1
    BY <1>1, <1>3 DEF StepsLeft
  <1>5. InTask' = 3 * (MaxReviewRetries + 1 - 1) + 4
    BY DEF InTask
  <1>6. StepsLeft' = p + 1 + InTask'
    BY <1>1, <1>3 DEF StepsLeft, PerTask
  <1>7. QED
    BY <1>2, <1>3, <1>4, <1>5, <1>6

\* A task that is complete leaves those beyond it.
LEMMA AdvanceNearer ==
  ASSUME SupervisorInv, pc \in Busy, NEW s, Advances(s), UNCHANGED <<setup, accepted>>
  PROVE  StepsLeft' < StepsLeft
PROOF
  <1>1. PICK k, b, m \in Nat : k = PerTask /\ b = Beyond /\ m = InTask /\ m >= 1
    BY LeftTypes
  <1>2. PICK p \in Nat : p = b * k
    BY <1>1, OneMore
  <1>3. StepsLeft = p + 1 + m
    BY <1>1, <1>2 DEF StepsLeft, Busy, Reviewing
  <1>4. mode' = mode /\ accepted' = accepted /\ at \in Nat /\ Len(accepted) \in Nat
    BY LeftTypes DEF setup
  <1>5. StepsLeft' \in {p + 1, 1}
    <2>1. CASE mode = "run"
      <3>1. pc' = "decide" /\ Beyond' = b
        BY <1>1, <1>4, <2>1 DEF Advances, Beyond
      <3>2. QED
        BY <1>1, <1>2, <3>1 DEF StepsLeft, PerTask
    <2>2. CASE mode # "run" /\ at = Len(accepted)
      BY <2>2 DEF Advances, StepsLeft
    <2>3. CASE mode # "run" /\ at # Len(accepted)
      <3>1. pc' = "next" /\ at' = at + 1
        BY <2>3 DEF Advances
      <3>2. Beyond' + 1 = b
        BY <1>1, <1>4, <2>3, <3>1 DEF Beyond
      <3>3. QED
        BY <1>1, <1>2, <3>1, <3>2 DEF StepsLeft, PerTask
    <2>4. QED
      BY <2>1, <2>2, <2>3
  <1>6. QED
    BY <1>1, <1>2, <1>3, <1>5

\* From the worker to its review, to that of an abstention or to the next attempt.
LEMMA AttemptNearer ==
  ASSUME SupervisorInv, pc \in Busy, UNCHANGED <<setup, accepted, at>>,
         \/ pc = "work" /\ pc' = "review" /\ attempt' = attempt
         \/ pc = "review" /\ pc' = "rereview" /\ attempt' = attempt
         \/ /\ pc \in {"review", "rereview"} /\ pc' = "work"
            /\ attempt <= MaxReviewRetries /\ attempt' = attempt + 1
         \/ pc \in {"review", "rereview"} /\ pc' = "abstain"
  PROVE  StepsLeft' < StepsLeft
PROOF
  <1>1. PICK k, b, m \in Nat : k = PerTask /\ b = Beyond /\ m = InTask /\ m >= 1
    BY LeftTypes
  <1>2. PICK p \in Nat : p = b * k
    BY <1>1, OneMore
  <1>3. StepsLeft = p + 1 + m
    BY <1>1, <1>2 DEF StepsLeft, Busy, Reviewing
  <1>4. mode' = mode /\ accepted' = accepted /\ at' = at
    BY DEF setup
  <1>5. Beyond' = b
    BY <1>1, <1>4 DEF Beyond
  <1>6. StepsLeft' = p + 1 + InTask'
    BY <1>1, <1>2, <1>5 DEF StepsLeft, PerTask
  <1>7. InTask' \in Nat /\ InTask' < m
    <2>1. MaxReviewRetries \in Nat /\ attempt \in 1 .. MaxReviewRetries + 1
      BY LeftTypes, InHand
    <2>2. PICK r \in Nat : r = MaxReviewRetries + 1 - attempt
      BY <2>1
    <2>3. /\ pc = "work" => m = 3 * r + 4
          /\ pc = "review" => m = 3 * r + 3
          /\ pc = "rereview" => m = 3 * r + 2
      BY <1>1, <2>2 DEF InTask
    <2>4. CASE pc' # "work"
      BY <2>2, <2>3, <2>4 DEF InTask
    <2>5. CASE pc' = "work"
      <3>1. attempt' = attempt + 1 /\ attempt <= MaxReviewRetries
        BY <2>5
      <3>2. InTask' = 3 * (MaxReviewRetries + 1 - (attempt + 1)) + 4
        BY <2>5, <3>1 DEF InTask
      <3>3. InTask' = 3 * (r - 1) + 4 /\ r >= 1
        BY <2>1, <2>2, <3>1, <3>2
      <3>4. QED
        BY <2>2, <2>3, <2>5, <3>3
    <2>6. QED
      BY <2>4, <2>5
  <1>8. PICK n \in Nat : n = InTask' /\ n < m
    BY <1>7
  <1>9. StepsLeft' = p + 1 + n
    BY <1>6, <1>8
  <1>10. p \in Nat /\ n \in Nat /\ m \in Nat /\ n < m
    BY <1>1, <1>2, <1>8
  <1>11. p + 1 + n < p + 1 + m
    BY <1>10
  <1>12. QED
    BY <1>3, <1>9, <1>11

\* A round that delegates.
LEMMA DelegateNearer ==
  ASSUME SupervisorInv, pc = "decide", Len(accepted) < MaxRounds,
         NEW agent, Delegate(agent)
  PROVE  StepsLeft' < StepsLeft
PROOF
  <1>1. /\ pc' = "work" /\ attempt' = 1 /\ mode' = mode
        /\ accepted' = Append(accepted,
             [agent |-> agent, text |-> Wording[Len(accepted) + 1], deps |-> {}])
    BY DEF Delegate, setup
  <1>2. accepted \in Seq(Tasks)
    BY AtRest
  <1>3. PICK l \in Nat : l = Len(accepted) /\ l < MaxRounds /\ Len(accepted') = l + 1
    <2>1. Len(accepted) \in Nat /\ Len(accepted') = Len(accepted) + 1
      BY <1>1, <1>2
    <2>2. QED
      BY <2>1
  <1>4. MaxRounds \in Nat /\ mode = "run"
    BY LeftTypes
  <1>5. PICK b \in Nat : b = MaxRounds - (l + 1)
    <2>1. MaxRounds \in Nat /\ l \in Nat /\ l < MaxRounds
      BY <1>3, <1>4
    <2>2. MaxRounds - (l + 1) \in Nat
      BY <2>1
    <2>3. QED
      BY <2>2
  <1>6. Beyond = b + 1 /\ Beyond' = b
    BY <1>1, <1>3, <1>4, <1>5 DEF Beyond
  <1>7. QED
    BY <1>1, <1>6, BeginNearer

LEMMA RunNearer ==
  ASSUME SupervisorInv, Run
  PROVE  StepsLeft' < StepsLeft
PROOF
  <1>1. pc = "decide" => Len(accepted) = state.steps
    <2>1. pc = "decide" => Count(state) = Len(accepted)
      BY DEF SupervisorInv, Position
    <2>2. QED
      BY <2>1, AtRest
  <1>2. ASSUME NEW agent \in Agents, DecideDelegates(agent) PROVE StepsLeft' < StepsLeft
    BY <1>1, <1>2, DelegateNearer DEF DecideDelegates
  <1>3. CASE DecideFinal
    BY <1>3, EndNearer DEF DecideFinal, Returns
  <1>4. CASE DecideFallsBack
    BY <1>4, EndNearer DEF DecideFallsBack, Returns
  <1>5. CASE DecideOverflowDelegates
    BY <1>1, <1>5, LeftTypes, DelegateNearer DEF DecideOverflowDelegates
  <1>6. CASE DecideOverflowFails
    BY <1>6, EndNearer DEF DecideOverflowFails, Returns
  <1>7. CASE DecideRaises
    BY <1>7, EndNearer DEF DecideRaises, Raises
  <1>8. QED
    BY <1>2, <1>3, <1>4, <1>5, <1>6, <1>7 DEF Run

\* A plan has fewer tasks than there are rounds.
LEMMA PlannerNearer ==
  ASSUME SupervisorInv, PlannerReturns \/ PlannerFallsBack
  PROVE  StepsLeft' < StepsLeft
PROOF
  <1>1. PICK k, M \in Nat : k = PerTask /\ k >= 5 /\ M = MaxRounds
    BY LeftTypes
  <1>2. PICK p \in Nat : p = M * k
    BY <1>1, OneMore
  <1>3. pc = "plan"
    BY DEF PlannerReturns, PlannerFallsBack
  <1>4. StepsLeft = p + 2
    BY <1>1, <1>2, <1>3 DEF StepsLeft
  <1>5. CASE PlannerReturns
    <2>1. PICK plan \in PlansMade : Len(plan) + 1 <= MaxRounds /\ accepted' = plan
      BY <1>5 DEF PlannerReturns
    <2>2. PICK l \in Nat : l = Len(plan) /\ l >= 1 /\ l < M
      <3>1. Len(plan) \in Nat /\ Len(plan) >= 1
        BY PlansMadeOrderly DEF Orderly
      <3>2. QED
        BY <1>1, <2>1, <3>1
    <2>3. pc' = "next" /\ at' = 1 /\ mode' = "plan"
      BY <1>3, <1>5 DEF PlannerReturns, setup, SupervisorInv, Position
    <2>4. Beyond' + 1 = l
      BY <2>1, <2>2, <2>3 DEF Beyond
    <2>5. StepsLeft' = l * k + 1
      BY <1>1, <2>3, <2>4 DEF StepsLeft, PerTask
    <2>6. PICK n \in Nat : n = M - l /\ n >= 1 /\ l + n = M
      BY <1>1, <2>2
    <2>7. l * k \in Nat /\ M * k > l * k + 2 * n + 1
      BY <1>1, <2>6, SomeMore
    <2>8. PICK q \in Nat : q = l * k
      BY <2>7
    <2>9. p > q + 2 * n + 1 /\ StepsLeft' = q + 1
      BY <1>2, <2>5, <2>7, <2>8
    <2>10. QED
      BY <1>4, <2>9
  <1>6. CASE PlannerFallsBack
    <2>1. pc' = "decide" /\ mode' = "run" /\ accepted' = <<>>
      BY <1>3, <1>6 DEF PlannerFallsBack, SupervisorInv, Position
    <2>2. Beyond' = M
      BY <1>1, <2>1 DEF Beyond
    <2>3. StepsLeft' = p + 1
      BY <1>1, <1>2, <2>1, <2>2 DEF StepsLeft, PerTask
    <2>4. QED
      BY <1>4, <2>3
  <1>7. QED
    BY <1>5, <1>6

\* Two turns of each worker of a batch are fewer than their tasks are counted with.
LEMMA NextBatchNearer ==
  ASSUME SupervisorInv, NextBatch
  PROVE  StepsLeft' < StepsLeft
PROOF
  <1>1. PICK n : n = BatchLength
    OBVIOUS
  <1>2. /\ pc = "next" /\ pc' = "batch" /\ n > 1
        /\ batch' = [i \in 1 .. n |-> "waiting"]
        /\ mode' = mode /\ accepted' = accepted /\ at' = at
    BY <1>1 DEF NextBatch, setup
  <1>3. /\ accepted \in Seq(Tasks) /\ at \in Nat /\ at <= Len(accepted)
        /\ Len(accepted) \in Nat /\ mode = "plan"
    BY <1>2, AtRest, LeftTypes
  <1>4. n \in 0 .. Len(accepted) - at + 1
    BY <1>1, <1>2, <1>3, BatchOf
  <1>5. n \in Nat /\ n >= 1
    BY <1>2, <1>3, <1>4
  <1>6. PICK b \in Nat : b = Beyond /\ n <= b + 1
    <2>1. PICK l \in Nat : l = Len(accepted) /\ at <= l /\ n \in 0 .. l - at + 1
      BY <1>3, <1>4
    <2>2. Beyond = l - at
      BY <1>3, <2>1 DEF Beyond
    <2>3. l - at \in Nat /\ n <= (l - at) + 1
      BY <1>3, <2>1
    <2>4. QED
      BY <2>2, <2>3
  <1>7. PICK d \in Nat : d = b + 1 - n /\ d + n = b + 1
    BY <1>5, <1>6
  <1>8. PICK k \in Nat : k = PerTask /\ k >= 5
    BY LeftTypes
  <1>9. PICK p, q \in Nat : p = d * k /\ q = (d + n) * k /\ q > p + 2 * n + 1
    BY <1>5, <1>8, SomeMore
  <1>10. StepsLeft = q + 1
    BY <1>2, <1>6, <1>7, <1>8, <1>9 DEF StepsLeft
  <1>11. InBatch' = 2 * n
    <2>1. DOMAIN batch' = 1 .. n /\ \A i \in 1 .. n : batch'[i] = "waiting"
      BY <1>2
    <2>2. Waiting' = 1 .. n /\ Running' = {}
      BY <2>1 DEF Waiting, Running
    <2>3. Cardinality(1 .. n) = n /\ Cardinality({}) = 0
      BY <1>5, FS_Interval, FS_EmptySet
    <2>4. QED
      BY <1>5, <2>2, <2>3 DEF InBatch
  <1>12. Len(batch') = n
    <2>1. DOMAIN batch' = 1 .. n /\ batch' \in [1 .. n -> {"waiting"}]
      BY <1>2
    <2>2. batch' \in Seq({"waiting"})
      BY <1>5, <2>1, SeqDef
    <2>3. QED
      BY <1>5, <2>1, <2>2
  <1>13. Beyond' + 1 - Len(batch') = d
    BY <1>2, <1>6, <1>7, <1>12 DEF Beyond
  <1>14. StepsLeft' = p + 2 + 2 * n
    BY <1>2, <1>8, <1>9, <1>11, <1>13 DEF StepsLeft, PerTask
  <1>15. QED
    BY <1>5, <1>9, <1>10, <1>14

LEMMA RunPlannedNearer ==
  ASSUME SupervisorInv, RunPlanned
  PROVE  StepsLeft' < StepsLeft
PROOF
  <1>1. CASE PlannerRaises
    BY <1>1, EndNearer DEF PlannerRaises, Raises
  <1>2. CASE NextTask
    <2>1. /\ pc = "next" /\ pc' = "work" /\ attempt' = 1
          /\ mode' = mode /\ accepted' = accepted /\ at' = at
      BY <1>2 DEF NextTask, setup
    <2>2. PICK b \in Nat : b = Beyond
      BY <2>1, LeftTypes
    <2>3. Beyond' = b
      BY <2>1, <2>2 DEF Beyond
    <2>4. QED
      BY <2>1, <2>2, <2>3, BeginNearer
  <1>3. CASE SynthesizeReturns
    BY <1>3, EndNearer DEF SynthesizeReturns, Returns
  <1>4. CASE SynthesizeRaises
    BY <1>4, EndNearer DEF SynthesizeRaises, Raises
  <1>5. QED
    BY <1>1, <1>2, <1>3, <1>4, PlannerNearer, NextBatchNearer DEF RunPlanned

\* A worker of the batch that starts or ends.
LEMMA WorkersNearer ==
  ASSUME SupervisorInv, pc = "batch", UNCHANGED <<setup, pc, accepted, at>>,
         Len(batch') = Len(batch), InBatch' \in Nat, InBatch' < InBatch
  PROVE  StepsLeft' < StepsLeft
PROOF
  <1>1. PICK k \in Nat : k = PerTask
    BY LeftTypes
  <1>2. PICK b, m, n \in Nat : /\ b = Beyond + 1 - Len(batch)
                               /\ m = InBatch /\ n = InBatch' /\ n < m
    BY BatchTypes
  <1>3. PICK p \in Nat : p = b * k
    BY <1>1, OneMore
  <1>4. StepsLeft = p + 2 + m
    BY <1>1, <1>2, <1>3 DEF StepsLeft
  <1>5. pc' = "batch" /\ Beyond' + 1 - Len(batch') = b
    BY <1>2 DEF Beyond, setup
  <1>6. StepsLeft' = p + 2 + n
    BY <1>1, <1>2, <1>3, <1>5 DEF StepsLeft, PerTask
  <1>7. n \in Nat /\ m \in Nat /\ p \in Nat /\ n < m
    BY <1>2
  <1>8. p + 2 + n < p + 2 + m
    BY <1>7
  <1>9. QED
    BY <1>4, <1>6, <1>8

LEMMA BatchNearer ==
  ASSUME SupervisorInv, Batch
  PROVE  StepsLeft' < StepsLeft
PROOF
  <1>1. pc = "batch"
    BY DEF Batch, BatchStarts, BatchEnds, BatchCommits, BatchRaises
  <1>2. /\ batch \in Seq({"waiting", "running", "ok", "limit", "error"})
        /\ IsFiniteSet(Waiting) /\ IsFiniteSet(Running)
    BY <1>1, BatchTypes
  <1>3. PICK w, r \in Nat : w = Cardinality(Waiting) /\ r = Cardinality(Running)
    BY <1>1, BatchTypes
  <1>4. InBatch = 2 * w + r
    BY <1>3 DEF InBatch
  <1>5. ASSUME NEW i \in DOMAIN batch, BatchStarts(i) PROVE StepsLeft' < StepsLeft
    <2>1. /\ batch[i] = "waiting" /\ batch' = [batch EXCEPT ![i] = "running"]
          /\ UNCHANGED <<setup, pc, accepted, at>>
      BY <1>5 DEF BatchStarts
    <2>2. Len(batch') = Len(batch) /\ DOMAIN batch' = DOMAIN batch
      BY <1>2, <2>1
    <2>3. /\ Waiting' = Waiting \ {i} /\ i \in Waiting
          /\ Running' = Running \cup {i} /\ i \notin Running
      BY <1>2, <2>1, <2>2 DEF Waiting, Running
    <2>4. Cardinality(Waiting') = w - 1 /\ w >= 1
      <3>1. Cardinality(Waiting \ {i}) = w - 1
        BY <1>2, <1>3, <2>3, FS_RemoveElement
      <3>2. w # 0
        BY <1>2, <1>3, <2>3, FS_EmptySet
      <3>3. QED
        BY <1>3, <2>3, <3>1, <3>2
    <2>5. Cardinality(Running') = r + 1
      BY <1>2, <1>3, <2>3, FS_AddElement
    <2>6. InBatch' = 2 * (w - 1) + (r + 1)
      BY <2>4, <2>5 DEF InBatch
    <2>7. InBatch' \in Nat /\ InBatch' < InBatch
      BY <1>3, <1>4, <2>4, <2>6
    <2>8. QED
      BY <1>1, <2>1, <2>2, <2>7, WorkersNearer
  <1>6. ASSUME NEW i \in DOMAIN batch, NEW how \in {"ok", "limit", "error"}, BatchEnds(i, how)
        PROVE  StepsLeft' < StepsLeft
    <2>1. /\ batch[i] = "running" /\ batch' = [batch EXCEPT ![i] = how]
          /\ UNCHANGED <<setup, pc, accepted, at>>
      BY <1>6 DEF BatchEnds
    <2>2. Len(batch') = Len(batch) /\ DOMAIN batch' = DOMAIN batch
      BY <1>2, <2>1
    <2>3. Waiting' = Waiting /\ Running' = Running \ {i} /\ i \in Running
      BY <1>2, <2>1, <2>2 DEF Waiting, Running
    <2>4. Cardinality(Running') = r - 1 /\ r >= 1
      <3>1. Cardinality(Running \ {i}) = r - 1
        BY <1>2, <1>3, <2>3, FS_RemoveElement
      <3>2. r # 0
        BY <1>2, <1>3, <2>3, FS_EmptySet
      <3>3. QED
        BY <1>3, <2>3, <3>1, <3>2
    <2>5. InBatch' = 2 * w + (r - 1)
      BY <1>3, <2>3, <2>4 DEF InBatch
    <2>6. InBatch' \in Nat /\ InBatch' < InBatch
      BY <1>3, <1>4, <2>4, <2>5
    <2>7. QED
      BY <1>1, <2>1, <2>2, <2>6, WorkersNearer
  <1>7. CASE BatchCommits
    <2>1. PICK n, l : n = Len(batch) /\ l = Len(accepted)
      OBVIOUS
    <2>2. /\ pc' = (IF at + n > l THEN "synthesize" ELSE "next")
          /\ at' = at + n /\ accepted' = accepted /\ mode' = mode
      BY <1>7, <2>1 DEF BatchCommits, setup
    <2>3. /\ n \in Nat /\ l \in Nat /\ at \in Nat /\ mode = "plan"
          /\ Beyond + 1 - n \in Nat
      BY <1>1, <2>1, BatchTypes, LeftTypes
    <2>4. PICK b, k \in Nat : b = Beyond + 1 - n /\ k = PerTask
      BY <2>3, LeftTypes
    <2>5. PICK p, m \in Nat : p = b * k /\ m = InBatch
      BY <1>1, <2>4, BatchTypes, OneMore
    <2>6. StepsLeft = p + 2 + m
      BY <1>1, <2>1, <2>4, <2>5 DEF StepsLeft
    <2>7. Beyond' + 1 = b
      BY <2>1, <2>2, <2>3, <2>4 DEF Beyond
    <2>8. StepsLeft' \in {1, p + 1}
      BY <2>2, <2>4, <2>5, <2>7 DEF StepsLeft, PerTask
    <2>9. QED
      BY <2>5, <2>6, <2>8
  <1>8. CASE BatchRaises
    BY <1>8, EndNearer DEF BatchRaises, Raises
  <1>9. QED
    BY <1>5, <1>6, <1>7, <1>8 DEF Batch

LEMMA WorkNearer ==
  ASSUME SupervisorInv, Work
  PROVE  StepsLeft' < StepsLeft
PROOF
  <1>1. ASSUME NEW source \in BOOLEAN, WorkerReturns(source) PROVE StepsLeft' < StepsLeft
    <2>1. /\ pc = "work" /\ pc \in Busy /\ attempt' = attempt
          /\ UNCHANGED <<setup, accepted>>
      BY <1>1 DEF WorkerReturns, Busy
    <2>2. CASE Gated(job.agent)
      BY <1>1, <2>1, <2>2, AttemptNearer DEF WorkerReturns
    <2>3. CASE ~Gated(job.agent)
      BY <1>1, <2>1, <2>3, AdvanceNearer DEF WorkerReturns
    <2>4. QED
      BY <2>2, <2>3
  <1>2. CASE WorkerAbstains
    <2>1. /\ pc = "work" /\ pc \in Busy /\ attempt' = attempt
          /\ UNCHANGED <<setup, accepted>>
      BY <1>2 DEF WorkerAbstains, Busy
    <2>2. CASE Gated(job.agent)
      BY <1>2, <2>1, <2>2, AttemptNearer DEF WorkerAbstains
    <2>3. CASE ~Gated(job.agent)
      BY <1>2, <2>1, <2>3, AdvanceNearer DEF WorkerAbstains
    <2>4. QED
      BY <2>2, <2>3
  <1>3. CASE WorkerOverflowFails
    BY <1>3, EndNearer DEF WorkerOverflowFails, Returns
  <1>4. CASE WorkerHitsLimit
    BY <1>4, EndNearer DEF WorkerHitsLimit, Raises
  <1>5. CASE WorkerRaises
    BY <1>5, EndNearer DEF WorkerRaises, Raises
  <1>6. QED
    BY <1>1, <1>2, <1>3, <1>4, <1>5 DEF Work

LEMMA ReviewNearer ==
  ASSUME SupervisorInv, Review
  PROVE  StepsLeft' < StepsLeft
PROOF
  <1>1. ASSUME NEW status \in {"pass", "fail"}, ReviewEnds(status) PROVE StepsLeft' < StepsLeft
    <2>1. /\ pc \in {"review", "rereview"} /\ pc \in Busy
          /\ UNCHANGED <<setup, accepted>>
      BY <1>1 DEF ReviewEnds, Busy, Reviewing
    <2>2. \/ \E s : Advances(s)
          \/ /\ attempt <= MaxReviewRetries /\ attempt' = attempt + 1
             /\ pc' = "work" /\ at' = at
          \/ pc' = "abstain" /\ at' = at
          \/ pc' = "ended"
      BY <1>1 DEF ReviewEnds, Returns
    <2>3. ASSUME NEW s, Advances(s) PROVE StepsLeft' < StepsLeft
      BY <2>1, <2>3, AdvanceNearer
    <2>4. ASSUME pc' \in {"work", "abstain"}, at' = at,
                 pc' = "work" => attempt <= MaxReviewRetries /\ attempt' = attempt + 1
          PROVE  StepsLeft' < StepsLeft
      BY <2>1, <2>4, AttemptNearer
    <2>5. ASSUME pc' = "ended" PROVE StepsLeft' < StepsLeft
      BY <2>1, <2>5, EndNearer
    <2>6. QED
      BY <2>2, <2>3, <2>4, <2>5
  <1>2. CASE ReviewOverflows
    <2>1. /\ pc = "review" /\ pc \in Busy /\ pc' = "rereview" /\ attempt' = attempt
          /\ UNCHANGED <<setup, accepted, at>>
      BY <1>2 DEF ReviewOverflows, Busy, Reviewing
    <2>2. QED
      BY <2>1, AttemptNearer
  <1>3. ASSUME NEW status \in {"pass", "fail"}, AbstentionReviewed(status)
        PROVE  StepsLeft' < StepsLeft
    <2>1. /\ pc = "abstain" /\ pc \in Busy /\ UNCHANGED <<setup, accepted>>
      BY <1>3 DEF AbstentionReviewed, Busy, Reviewing
    <2>2. (\E s : Advances(s)) \/ pc' = "ended"
      BY <1>3 DEF AbstentionReviewed, Returns
    <2>3. ASSUME NEW s, Advances(s) PROVE StepsLeft' < StepsLeft
      BY <2>1, <2>3, AdvanceNearer
    <2>4. QED
      BY <2>1, <2>2, <2>3, EndNearer
  <1>4. CASE ReviewRaises
    BY <1>4, EndNearer DEF ReviewRaises, Raises
  <1>5. QED
    BY <1>1, <1>2, <1>3, <1>4 DEF Review

\* A task ends, whatever its models, workers and reviewers answer, unless it stops between
\* two awaits: every step brings the end nearer, in run, in run_planned with its batches, and
\* in the review loop.  It takes 3 * MaxReviewRetries + 5 steps for a round at most, and two.
THEOREM TaskRunsOut ==
  Spec => /\ StepsLeft <= MaxRounds * (3 * MaxReviewRetries + 5) + 2
          /\ [](StepsLeft \in Nat)
          /\ [][StepsLeft' < StepsLeft]_vars
PROOF
  <1>1. Init => StepsLeft <= MaxRounds * (3 * MaxReviewRetries + 5) + 2
    <2>1. SUFFICES ASSUME Init
                   PROVE  StepsLeft <= MaxRounds * (3 * MaxReviewRetries + 5) + 2
      OBVIOUS
    <2>2. PICK k \in Nat : k = 3 * MaxReviewRetries + 5
      BY LimitsAssumption
    <2>3. PICK p \in Nat : p = MaxRounds * k
      BY <2>2, LimitsAssumption, OneMore
    <2>4. \/ mode = "run" /\ pc = "decide" /\ accepted = <<>>
          \/ mode = "plan" /\ pc = "plan"
      BY <2>1 DEF Init
    <2>5. StepsLeft \in {p + 1, p + 2}
      <3>1. CASE pc = "plan"
        BY <2>2, <2>3, <3>1 DEF StepsLeft, PerTask
      <3>2. CASE pc = "decide"
        <4>1. Beyond = MaxRounds
          BY <2>4, <3>2, LimitsAssumption DEF Beyond
        <4>2. QED
          BY <2>2, <2>3, <3>2, <4>1 DEF StepsLeft, PerTask
      <3>3. QED
        BY <2>4, <3>1, <3>2
    <2>6. QED
      BY <2>2, <2>3, <2>5
  <1>2. SupervisorInv => StepsLeft \in Nat
    BY LeftCounts
  <1>3. SupervisorInv /\ [Next]_vars => [StepsLeft' < StepsLeft]_vars
    BY RunNearer, RunPlannedNearer, BatchNearer, WorkNearer, ReviewNearer DEF Next
  <1>4. QED
    BY <1>1, <1>2, <1>3, SupervisorInvariant, PTL DEF Spec
=============================================================================
