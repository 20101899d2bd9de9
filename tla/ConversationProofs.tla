-------------------------- MODULE ConversationProofs --------------------------
(***************************************************************************)
(* Proofs about a turn of a conversation: the path that the request takes  *)
(* (Turn), and what the model is shown of the messages before it, on the   *)
(* path of a chat and inside an agent (Prompt).                            *)
(***************************************************************************)
EXTENDS Turn, Prompt, SequenceTheorems, WellFoundedInduction, TLAPS

----------------------------------------------------------------------------
(* The path of a turn is right, for any number of retries.  It depends on  *)
(* which mode a turn is decided for at each of its steps, TurnInv.         *)

LEMMA TurnInvInit == Init => TurnInv
<1> SUFFICES ASSUME Init PROVE TurnInv
  OBVIOUS
<1>1. mode \in Modes /\ says \in Requests /\ earlier \in BOOLEAN /\ advised = FALSE
  BY DEF Init
<1>2. mode = "auto" => pc = "select"
  BY DEF Init
<1>3. mode = "router" => pc = "route"
  BY DEF Init
<1>4. pc = "select" => mode = "auto"
  BY <1>1, <1>3 DEF Init, Modes
<1>5. pc \in {"route", "worker"} => mode = "router"
  BY <1>1, <1>2 DEF Init, Modes
<1> QED
  BY <1>1, <1>2, <1>3, <1>4, <1>5 DEF TurnInv, RightPath, AutomaticPath, RouterPath

\* Whatever was chosen before it, what the guard lets through is right.
LEMMA GuardIsRight ==
  ASSUME says \in Requests, AtOnce = "ask",
         NEW selected \in AutoModes,
         NEW sure \in BOOLEAN,
         ~sure => selected = Fallback
  PROVE  /\ Guard(selected) \in AutoModes
         /\ Guard(selected) = "chat" => ~Steps /\ "tool" \notin says
         /\ Guard(selected) = "single" => ~Steps /\ "tool" \notin says /\ "digits" \in says
         /\ Guard(selected) = "supervisor" => ~Steps
         /\ Guard(selected) = "plan" => Steps \/ (sure /\ "fact" \notin says)
         /\ Guard(selected) = "chat" /\ ~sure => says \cap {"cue", "digits", "who"} = {}
<1>1. "small" \notin says /\ "sum" \notin says /\ "fence" \notin says /\ ~Steps
  BY DEF AtOnce
<1>2. "fact" \notin says => "who" \notin says
  BY DEF Requests
<1>3. ~sure => selected # "plan"
  BY DEF Fallback
<1>4. ~sure /\ selected = "chat" => says \cap {"cue", "digits", "who"} = {}
  BY DEF Fallback
<1>5. ~sure /\ selected = "single" => "cue" \notin says /\ "digits" \in says
  BY DEF Fallback
<1> QED
  BY <1>1, <1>2, <1>3, <1>4, <1>5 DEF Guard, AutoModes

\* What the text alone decides on is right.
LEMMA AtOnceIsRight ==
  ASSUME says \in Requests, AtOnce # "ask"
  PROVE  /\ AtOnce \in AutoModes
         /\ AtOnce = "chat" => "small" \in says
         /\ AtOnce = "single" => "sum" \in says
         /\ AtOnce = "supervisor" => "fence" \in says
         /\ AtOnce = "plan" => Steps
  BY DEF AtOnce, AutoModes

LEMMA TurnInvStep == TurnInv /\ [Next]_vars => TurnInv'
<1> SUFFICES ASSUME TurnInv, [Next]_vars PROVE TurnInv'
  OBVIOUS
<1> USE DEF TurnInv, RightPath
<1>1. request' = request => AtOnce' = AtOnce /\ Steps' = Steps /\ Fallback' = Fallback
  BY DEF request, AtOnce, Steps, Fallback
<1>2. CASE SelectsAtOnce
  <2>1. AtOnce \in AutoModes /\ pc' = AtOnce /\ mode = "auto"
    BY <1>2, AtOnceIsRight DEF SelectsAtOnce
  <2>2. AutomaticPath'
    BY <1>1, <1>2, <2>1, AtOnceIsRight DEF SelectsAtOnce, request, AutomaticPath, AutoModes
  <2> QED
    BY <1>2, <2>1, <2>2 DEF SelectsAtOnce, request, AutoModes, RouterPath
<1>3. ASSUME NEW selected \in AutoModes, NEW sure \in BOOLEAN,
             pc = "select", AtOnce = "ask",
             ~sure => selected = Fallback,
             pc' = Guard(selected), advised' = sure, UNCHANGED request
      PROVE  TurnInv'
  <2>1. Guard(selected) \in AutoModes
    BY <1>3, GuardIsRight
  <2>2. AutomaticPath'
    BY <1>1, <1>3, <2>1, GuardIsRight DEF request, AutomaticPath
  <2> QED
    BY <1>3, <2>1, <2>2 DEF request, AutoModes, RouterPath
<1>4. Fallback \in AutoModes
  BY DEF Fallback, AutoModes
<1>5. ASSUME NEW selected \in AutoModes, NEW sure \in BOOLEAN, ModelSelects(selected, sure)
      PROVE  TurnInv'
  <2>1. CASE sure
    BY <1>3, <1>5, <2>1 DEF ModelSelects
  <2>2. CASE ~sure
    BY <1>3, <1>4, <1>5, <2>2 DEF ModelSelects
  <2> QED
    BY <2>1, <2>2
<1>6. CASE SelectionGivenUp
  BY <1>3, <1>4, <1>6 DEF SelectionGivenUp
<1>7. CASE SelectsAgain \/ RoutesAgain
  BY <1>1, <1>7 DEF SelectsAgain, RoutesAgain, request, AutomaticPath, RouterPath
<1>8. CASE Chats \/ RouteRaises \/ WorkerEnds
  BY <1>8 DEF Chats, RouteRaises, WorkerEnds, request, AutomaticPath, RouterPath
<1>9. ASSUME NEW agent \in Workers \cup {"supervisor"}, NEW sure \in BOOLEAN,
             Routes(agent, sure)
      PROVE  TurnInv'
  BY <1>9 DEF Routes, Direct, Workers, request, AutomaticPath, RouterPath
<1>10. CASE RouteGivenUp
  BY <1>9, <1>10 DEF RouteGivenUp
<1>11. CASE UNCHANGED vars
  BY <1>1, <1>11 DEF vars, request, AutomaticPath, RouterPath
<1> QED
  BY <1>2, <1>5, <1>6, <1>7, <1>8, <1>9, <1>10, <1>11 DEF Next

\* RightPath, in every state: whatever the request says, the models answer and how
\* often they are asked.
THEOREM PathIsRight == Spec => []RightPath
<1>1. TurnInv => RightPath
  BY DEF TurnInv
<1> QED
  BY <1>1, TurnInvInit, TurnInvStep, PTL DEF Spec

----------------------------------------------------------------------------
(* Sums.                                                                   *)

\* A set of natural numbers has a smallest element.
LEMMA SmallestOf ==
  ASSUME NEW T \in SUBSET Nat, T # {}
  PROVE  \E i \in T : \A j \in T : i <= j
  <1>1. PICK i \in T : \A j \in T : ~(<<j, i>> \in OpToRel(<, Nat))
    BY NatLessThanWellFounded, WFMin
  <1>2. \A j \in T : ~(j < i)
    BY <1>1 DEF OpToRel
  <1>3. QED
    BY <1>2

\* A set that has 0, and i with i - 1, has everything up to n.
LEMMA UpTo ==
  ASSUME NEW n \in Nat, NEW P, 0 \in P, \A i \in 1 .. n : i - 1 \in P => i \in P
  PROVE  \A i \in 0 .. n : i \in P
  <1> DEFINE T == {i \in 0 .. n : i \notin P}
  <1>1. SUFFICES ASSUME T # {} PROVE FALSE
    OBVIOUS
  <1>2. T \in SUBSET Nat
    OBVIOUS
  <1>3. PICK i \in T : \A j \in T : i <= j
    BY <1>1, <1>2, SmallestOf
  <1>4. i \in 1 .. n /\ i - 1 \in 0 .. n /\ ~(i <= i - 1)
    BY <1>3
  <1>5. i - 1 \in P
    BY <1>3, <1>4
  <1>6. QED
    BY <1>3, <1>4, <1>5

\* f is the function that Sums(s) defines, as far as n.
Summing(f, s, n) == f = [k \in 0 .. n |-> IF k = 0 THEN 0 ELSE f[k - 1] + s[k]]

LEMMA SummingExists ==
  ASSUME NEW s, NEW n \in Nat
  PROVE  \E f : Summing(f, s, n)
  <1> DEFINE P == {m \in Nat : \E f : Summing(f, s, m)}
  <1>1. 0 \in P
    <2> DEFINE f == [k \in 0 .. 0 |-> 0]
    <2>1. f = [k \in 0 .. 0 |-> IF k = 0 THEN 0 ELSE f[k - 1] + s[k]]
      OBVIOUS
    <2>2. Summing(f, s, 0)
      BY <2>1, Zenon DEF Summing
    <2>3. QED
      BY <2>2
  <1>2. ASSUME NEW m \in 1 .. n, m - 1 \in P
        PROVE  m \in P
    <2>1. PICK p : p = m - 1
      OBVIOUS
    <2>2. p \in Nat /\ m = p + 1 /\ m \notin 0 .. p /\ m \in 0 .. m /\ m \in Nat
      BY <2>1
    <2>3. PICK f : Summing(f, s, p)
      BY <1>2, <2>1
    <2>4. f = [k \in 0 .. p |-> IF k = 0 THEN 0 ELSE f[k - 1] + s[k]]
      BY <2>3, Zenon DEF Summing
    <2>5. PICK last : last = f[p] + s[m]
      OBVIOUS
    <2>6. PICK g : g = [k \in 0 .. m |-> IF k = m THEN last ELSE f[k]]
      OBVIOUS
    <2>7. ASSUME NEW k \in 0 .. m
          PROVE  g[k] = IF k = 0 THEN 0 ELSE g[k - 1] + s[k]
      <3>1. CASE k = m
        <4>1. g[k] = last /\ k # 0 /\ k - 1 = p /\ p \in 0 .. m /\ p # m
          BY <2>2, <2>6, <3>1
        <4>2. g[p] = f[p]
          BY <2>6, <4>1
        <4>3. QED
          BY <2>5, <3>1, <4>1, <4>2
      <3>2. CASE k # m /\ k = 0
        <4>1. g[k] = f[k] /\ k \in 0 .. p
          BY <2>2, <2>6, <3>2
        <4>2. QED
          BY <2>4, <3>2, <4>1
      <3>3. CASE k # m /\ k # 0
        <4>1. g[k] = f[k] /\ k \in 0 .. p /\ k - 1 \in 0 .. m /\ k - 1 # m
          BY <2>2, <2>6, <3>3
        <4>2. g[k - 1] = f[k - 1]
          BY <2>6, <4>1
        <4>3. f[k] = f[k - 1] + s[k]
          BY <2>4, <3>3, <4>1
        <4>4. QED
          BY <3>3, <4>1, <4>2, <4>3
      <3>4. QED
        BY <3>1, <3>2, <3>3
    <2>8. g = [k \in 0 .. m |-> IF k = 0 THEN 0 ELSE g[k - 1] + s[k]]
      BY <2>6, <2>7
    <2>9. Summing(g, s, m)
      BY <2>8, Zenon DEF Summing
    <2>10. QED
      BY <2>2, <2>9
  <1> HIDE DEF P
  <1>3. n \in P
    <2>1. n \in 0 .. n
      OBVIOUS
    <2>2. QED
      BY <1>1, <1>2, <2>1, UpTo
  <1>4. QED
    BY <1>3 DEF P

\* The sums of a list: each adds one length.
LEMMA SumsAre ==
  ASSUME NEW s \in Seq(Nat)
  PROVE  /\ Sums(s)[0] = 0
         /\ \A k \in 1 .. Len(s) : Sums(s)[k] = Sums(s)[k - 1] + s[k]
         /\ \A k \in 0 .. Len(s) : Sums(s)[k] \in Nat
  <1>1. PICK f : f = Sums(s)
    OBVIOUS
  <1>2. f = CHOOSE g : Summing(g, s, Len(s))
    BY <1>1, Zenon DEF Sums, Summing
  <1>3. Len(s) \in Nat
    OBVIOUS
  <1>4. Summing(f, s, Len(s))
    BY <1>2, <1>3, SummingExists
  <1>5. \A k \in 0 .. Len(s) : f[k] = IF k = 0 THEN 0 ELSE f[k - 1] + s[k]
    <2>1. f = [k \in 0 .. Len(s) |-> IF k = 0 THEN 0 ELSE f[k - 1] + s[k]]
      BY <1>4, Zenon DEF Summing
    <2>2. QED
      BY <2>1, Zenon
  <1>6. f[0] = 0
    BY <1>3, <1>5
  <1>7. \A k \in 1 .. Len(s) : f[k] = f[k - 1] + s[k]
    BY <1>3, <1>5
  <1> DEFINE P == {k \in Nat : f[k] \in Nat}
  <1>8. 0 \in P
    BY <1>6
  <1>9. ASSUME NEW k \in 1 .. Len(s), k - 1 \in P PROVE k \in P
    <2>1. s[k] \in Nat
      OBVIOUS
    <2>2. QED
      BY <1>7, <1>9, <2>1
  <1>10. \A k \in 0 .. Len(s) : k \in P
    <2> HIDE DEF P
    <2>1. QED
      BY <1>3, <1>8, <1>9, UpTo
  <1>11. QED
    BY <1>1, <1>6, <1>7, <1>10

\* Longer lists have larger sums.
LEMMA SumsGrow ==
  ASSUME NEW s \in Seq(Nat), NEW i \in 0 .. Len(s), NEW j \in i .. Len(s)
  PROVE  Sums(s)[i] <= Sums(s)[j]
  <1>1. PICK f : f = Sums(s)
    OBVIOUS
  <1>2. /\ \A k \in 1 .. Len(s) : f[k] = f[k - 1] + s[k]
        /\ \A k \in 0 .. Len(s) : f[k] \in Nat
    BY <1>1, SumsAre
  <1> DEFINE P == {d \in Nat : i + d <= Len(s) => f[i] <= f[i + d]}
  <1>3. 0 \in P
    BY <1>2
  <1>4. ASSUME NEW d \in 1 .. Len(s), d - 1 \in P PROVE d \in P
    <2>1. SUFFICES ASSUME i + d <= Len(s) PROVE f[i] <= f[i + d]
      OBVIOUS
    <2>2. PICK x : x = i + d
      OBVIOUS
    <2>3. x \in 1 .. Len(s) /\ x - 1 = i + (d - 1) /\ x - 1 \in 0 .. Len(s) /\ i \in 0 .. Len(s)
      BY <2>1, <2>2
    <2>4. f[x] = f[x - 1] + s[x] /\ s[x] \in Nat /\ f[x - 1] \in Nat /\ f[i] \in Nat
      BY <1>2, <2>3
    <2>5. f[i] <= f[x - 1]
      BY <1>4, <2>3
    <2>6. QED
      BY <2>2, <2>4, <2>5
  <1>5. \A d \in 0 .. Len(s) : d \in P
    <2> HIDE DEF P
    <2>1. Len(s) \in Nat
      OBVIOUS
    <2>2. QED
      BY <1>3, <1>4, <2>1, UpTo
  <1>6. PICK d : d = j - i
    OBVIOUS
  <1>7. d \in 0 .. Len(s) /\ i + d = j /\ j <= Len(s)
    BY <1>6
  <1>8. QED
    BY <1>1, <1>5, <1>7

\* A list that stands in another one, after the first m, sums up to what it adds there.
LEMMA SumsOfPart ==
  ASSUME NEW s \in Seq(Nat), NEW t \in Seq(Nat), NEW m \in Nat, m + Len(t) <= Len(s),
         \A k \in 1 .. Len(t) : t[k] = s[m + k]
  PROVE  \A k \in 0 .. Len(t) : Sums(s)[m + k] = Sums(s)[m] + Sums(t)[k]
  <1>1. PICK f, g : f = Sums(s) /\ g = Sums(t)
    OBVIOUS
  <1>2. /\ \A k \in 1 .. Len(s) : f[k] = f[k - 1] + s[k]
        /\ \A k \in 0 .. Len(s) : f[k] \in Nat
        /\ g[0] = 0
        /\ \A k \in 1 .. Len(t) : g[k] = g[k - 1] + t[k]
        /\ \A k \in 0 .. Len(t) : g[k] \in Nat
    BY <1>1, SumsAre
  <1> DEFINE P == {k \in Nat : f[m + k] = f[m] + g[k]}
  <1>3. 0 \in P
    <2>1. m \in 0 .. Len(s) /\ m + 0 = m
      OBVIOUS
    <2>2. QED
      BY <1>2, <2>1
  <1>4. ASSUME NEW k \in 1 .. Len(t), k - 1 \in P PROVE k \in P
    <2>1. PICK x : x = m + k
      OBVIOUS
    <2>2. /\ x \in 1 .. Len(s) /\ x - 1 = m + (k - 1) /\ m \in 0 .. Len(s)
          /\ k - 1 \in 0 .. Len(t)
      BY <2>1
    <2>3. f[x] = f[x - 1] + s[x] /\ g[k] = g[k - 1] + t[k] /\ t[k] = s[x]
      BY <1>2, <2>1, <2>2
    <2>4. f[x - 1] = f[m] + g[k - 1]
      BY <1>4, <2>2
    <2>5. f[m] \in Nat /\ g[k - 1] \in Nat
      BY <1>2, <2>2
    <2>6. t[k] \in Nat
      BY ElementOfSeq
    <2>7. PICK a, b, c : a = f[m] /\ b = g[k - 1] /\ c = t[k]
      OBVIOUS
    <2>8. a \in Nat /\ b \in Nat /\ c \in Nat /\ f[x] = (a + b) + c /\ g[k] = b + c
      BY <2>3, <2>4, <2>5, <2>6, <2>7
    <2>9. f[x] = a + g[k]
      BY <2>8
    <2>10. QED
      BY <2>1, <2>7, <2>9
  <1>5. \A k \in 0 .. Len(t) : k \in P
    <2> HIDE DEF P
    <2>1. Len(t) \in Nat
      OBVIOUS
    <2>2. QED
      BY <1>3, <1>4, <2>1, UpTo
  <1>6. QED
    BY <1>1, <1>5

----------------------------------------------------------------------------
(* Parts of a prompt.                                                      *)

Parts == [nr : Nat, chars : Nat]

\* Messages i to j, whole, are j + 1 - i parts with the characters of these messages.
LEMMA WholeIs ==
  ASSUME NEW ms \in Seq(Nat), NEW i \in 1 .. Len(ms) + 1, NEW j \in i - 1 .. Len(ms)
  PROVE  /\ Whole(ms, i, j) \in Seq(Parts)
         /\ Len(Whole(ms, i, j)) = j + 1 - i
         /\ \A k \in 1 .. j + 1 - i : Whole(ms, i, j)[k] = Part(i + k - 1, ms[i + k - 1])
         /\ Chars(Whole(ms, i, j)) = Sums(ms)[j] - Sums(ms)[i - 1]
  <1>1. PICK n, m : n = j + 1 - i /\ m = i - 1
    OBVIOUS
  <1>2. n \in Nat /\ m \in Nat /\ m + n = j /\ i = m + 1
    BY <1>1
  <1>3. PICK w : w = Whole(ms, i, j)
    OBVIOUS
  <1>4. w = [k \in 1 .. n |-> Part(i + k - 1, ms[i + k - 1])]
    BY <1>1, <1>3 DEF Whole
  <1>5. ASSUME NEW k \in 1 .. n
        PROVE  /\ i + k - 1 \in 1 .. Len(ms) /\ i + k - 1 = m + k
               /\ w[k] = Part(i + k - 1, ms[i + k - 1])
               /\ w[k] \in Parts
    <2>1. i + k - 1 \in 1 .. Len(ms) /\ i + k - 1 = m + k
      BY <1>1, <1>2
    <2>2. ms[i + k - 1] \in Nat
      BY <2>1, ElementOfSeq
    <2>3. w[k] = Part(i + k - 1, ms[i + k - 1])
      BY <1>4
    <2>4. QED
      BY <2>1, <2>2, <2>3 DEF Part, Parts
  <1>6. w \in Seq(Parts) /\ Len(w) = n /\ DOMAIN w = 1 .. n
    <2>1. w \in [1 .. n -> Parts]
      BY <1>4, <1>5
    <2>2. QED
      BY <1>2, <2>1
  <1>7. PICK t : t = [k \in DOMAIN w |-> w[k].chars]
    OBVIOUS
  <1>8. ASSUME NEW k \in 1 .. n PROVE t[k] = ms[m + k] /\ t[k] \in Nat
    <2>1. t[k] = w[k].chars
      BY <1>6, <1>7
    <2>2. w[k].chars = ms[m + k]
      <3>1. i + k - 1 = m + k
        BY <1>5
      <3>2. w[k] = Part(m + k, ms[m + k])
        BY <1>5, <3>1
      <3>3. QED
        BY <3>2 DEF Part
    <2>3. w[k].chars \in Nat
      BY <1>5 DEF Parts
    <2>4. QED
      BY <2>1, <2>2, <2>3
  <1>9. t \in Seq(Nat) /\ Len(t) = n
    <2>1. t \in [1 .. n -> Nat]
      BY <1>6, <1>7, <1>8
    <2>2. QED
      BY <1>2, <2>1
  <1>10. \A k \in 0 .. Len(t) : Sums(ms)[m + k] = Sums(ms)[m] + Sums(t)[k]
    <2>1. m + Len(t) <= Len(ms) /\ \A k \in 1 .. Len(t) : t[k] = ms[m + k]
      BY <1>2, <1>8, <1>9
    <2>2. QED
      BY <1>2, <1>9, <2>1, SumsOfPart
  <1>11. Sums(ms)[j] = Sums(ms)[i - 1] + Sums(t)[n]
    BY <1>1, <1>2, <1>9, <1>10
  <1>12. Chars(w) = Sums(t)[n]
    BY <1>7, <1>9 DEF Chars, Total
  <1>13. Sums(ms)[j] \in Nat /\ Sums(ms)[i - 1] \in Nat /\ Sums(t)[n] \in Nat
    BY <1>9, SumsAre
  <1>14. Chars(w) = Sums(ms)[j] - Sums(ms)[i - 1]
    BY <1>11, <1>12, <1>13
  <1>15. QED
    BY <1>1, <1>3, <1>5, <1>6, <1>14

\* The characters of parts, as a list.
LEMMA CharsAre ==
  ASSUME NEW p \in Seq(Parts)
  PROVE  \E t \in Seq(Nat) : /\ Len(t) = Len(p)
                             /\ \A k \in 1 .. Len(p) : t[k] = p[k].chars
                             /\ Chars(p) = Sums(t)[Len(t)]
                             /\ Chars(p) \in Nat
  <1>1. PICK t : t = [k \in 1 .. Len(p) |-> p[k].chars]
    OBVIOUS
  <1>2. \A k \in 1 .. Len(p) : p[k].chars \in Nat
    <2>1. \A k \in 1 .. Len(p) : p[k] \in Parts
      BY ElementOfSeq
    <2>2. QED
      BY <2>1 DEF Parts
  <1>3. t \in Seq(Nat) /\ Len(t) = Len(p) /\ \A k \in 1 .. Len(p) : t[k] = p[k].chars
    BY <1>1, <1>2
  <1>4. DOMAIN p = 1 .. Len(p)
    OBVIOUS
  <1>5. Chars(p) = Sums(t)[Len(t)]
    BY <1>1, <1>4 DEF Chars, Total
  <1>6. Sums(t)[Len(t)] \in Nat
    BY <1>3, SumsAre
  <1>7. QED
    BY <1>3, <1>5, <1>6

LEMMA CharsOfConcat ==
  ASSUME NEW p \in Seq(Parts), NEW q \in Seq(Parts)
  PROVE  Chars(p \o q) = Chars(p) + Chars(q)
  <1>1. PICK t \in Seq(Nat) : /\ Len(t) = Len(p)
                              /\ \A k \in 1 .. Len(p) : t[k] = p[k].chars
                              /\ Chars(p) = Sums(t)[Len(t)]
    BY CharsAre
  <1>2. PICK u \in Seq(Nat) : /\ Len(u) = Len(q)
                              /\ \A k \in 1 .. Len(q) : u[k] = q[k].chars
                              /\ Chars(q) = Sums(u)[Len(u)]
    BY CharsAre
  <1>3. /\ p \o q \in Seq(Parts)
        /\ Len(p \o q) = Len(p) + Len(q)
        /\ \A k \in 1 .. Len(p) + Len(q) : (p \o q)[k] = IF k <= Len(p) THEN p[k] ELSE q[k - Len(p)]
    BY ConcatProperties
  <1>4. PICK s \in Seq(Nat) : /\ Len(s) = Len(p \o q)
                              /\ \A k \in 1 .. Len(p \o q) : s[k] = (p \o q)[k].chars
                              /\ Chars(p \o q) = Sums(s)[Len(s)]
    BY <1>3, CharsAre
  <1>5. PICK m, n : m = Len(p) /\ n = Len(q)
    OBVIOUS
  <1>6. m \in Nat /\ n \in Nat /\ Len(t) = m /\ Len(u) = n /\ Len(s) = m + n
    BY <1>1, <1>2, <1>3, <1>4, <1>5
  <1>7. \A k \in 1 .. m : t[k] = s[0 + k]
    <2>1. ASSUME NEW k \in 1 .. m PROVE t[k] = s[0 + k]
      <3>1. k \in 1 .. m + n /\ k <= m /\ 0 + k = k
        BY <1>6
      <3>2. (p \o q)[k] = p[k]
        BY <1>3, <1>5, <3>1
      <3>3. QED
        BY <1>1, <1>3, <1>4, <1>5, <3>1, <3>2
    <2>2. QED
      BY <2>1
  <1>8. \A k \in 1 .. n : u[k] = s[m + k]
    <2>1. ASSUME NEW k \in 1 .. n PROVE u[k] = s[m + k]
      <3>1. m + k \in 1 .. m + n /\ ~(m + k <= m) /\ m + k - m = k
        BY <1>6
      <3>2. (p \o q)[m + k] = q[k]
        BY <1>3, <1>5, <3>1
      <3>3. QED
        BY <1>2, <1>3, <1>4, <1>5, <3>1, <3>2
    <2>2. QED
      BY <2>1
  <1>9. \A k \in 0 .. Len(t) : Sums(s)[0 + k] = Sums(s)[0] + Sums(t)[k]
    <2>1. 0 + Len(t) <= Len(s) /\ \A k \in 1 .. Len(t) : t[k] = s[0 + k]
      BY <1>6, <1>7
    <2>2. PICK z : z = 0
      OBVIOUS
    <2>3. z \in Nat /\ z + Len(t) <= Len(s) /\ \A k \in 1 .. Len(t) : t[k] = s[z + k]
      BY <2>1, <2>2
    <2>4. \A k \in 0 .. Len(t) : Sums(s)[z + k] = Sums(s)[z] + Sums(t)[k]
      BY <2>3, SumsOfPart
    <2>5. QED
      BY <2>2, <2>4
  <1>10. \A k \in 0 .. Len(u) : Sums(s)[m + k] = Sums(s)[m] + Sums(u)[k]
    <2>1. m + Len(u) <= Len(s) /\ \A k \in 1 .. Len(u) : u[k] = s[m + k]
      BY <1>6, <1>8
    <2>2. QED
      BY <1>6, <2>1, SumsOfPart
  <1>11. Sums(s)[0] = 0 /\ Sums(t)[m] \in Nat /\ Sums(s)[m] \in Nat
    BY <1>6, SumsAre
  <1>12. Sums(s)[0 + m] = Sums(s)[0] + Sums(t)[m]
    BY <1>6, <1>9
  <1>13. Sums(s)[m] = Sums(t)[m]
    BY <1>6, <1>11, <1>12
  <1>14. Sums(s)[m + n] = Sums(s)[m] + Sums(u)[n]
    BY <1>6, <1>10
  <1>15. QED
    BY <1>1, <1>2, <1>4, <1>6, <1>13, <1>14

LEMMA CharsOfOne ==
  ASSUME NEW i \in Nat, NEW n \in Nat
  PROVE  <<Part(i, n)>> \in Seq(Parts) /\ Chars(<<Part(i, n)>>) = n
  <1>1. Part(i, n) \in Parts /\ Part(i, n).chars = n
    BY DEF Part, Parts
  <1>2. PICK p : p = <<Part(i, n)>>
    OBVIOUS
  <1>3. p \in Seq(Parts) /\ Len(p) = 1 /\ p[1] = Part(i, n)
    BY <1>1, <1>2
  <1>4. PICK t \in Seq(Nat) : /\ Len(t) = Len(p)
                              /\ \A k \in 1 .. Len(p) : t[k] = p[k].chars
                              /\ Chars(p) = Sums(t)[Len(t)]
    BY <1>3, CharsAre
  <1>5. Len(t) = 1 /\ t[1] = n
    BY <1>1, <1>3, <1>4
  <1>6. Sums(t)[0] = 0 /\ Sums(t)[1] = Sums(t)[1 - 1] + t[1]
    <2>1. /\ Sums(t)[0] = 0
          /\ \A k \in 1 .. Len(t) : Sums(t)[k] = Sums(t)[k - 1] + t[k]
      BY SumsAre
    <2>2. QED
      BY <1>5, <2>1
  <1>7. QED
    BY <1>2, <1>3, <1>4, <1>5, <1>6

----------------------------------------------------------------------------
(* The loop of bounded_messages.                                           *)

\* The room for messages after the first two, and what is left of it for message x once
\* all later ones are taken.
Room(ms) == PromptChars - ms[1] - ms[2]
Left(ms, x) == Room(ms) - (Sums(ms)[Len(ms)] - Sums(ms)[x])

\* Message x is taken after all later ones.
Accepts(ms, x) == Left(ms, x) > 80 /\ ms[x] <= Left(ms, x)

\* What the loop may end with: the newest message, cut; or the last messages from j on.
Cut(ms, kept) ==
  ms[Len(ms)] > Room(ms) /\ kept = <<Part(Len(ms), Room(ms) - 10)>>
Suffix(ms, j, kept) ==
  kept = Whole(ms, j, Len(ms)) /\ \A x \in j .. Len(ms) : Accepts(ms, x)

Stopped(ms, kept) ==
  Cut(ms, kept) \/ \E j \in 4 .. Len(ms) : Suffix(ms, j, kept) /\ ~Accepts(ms, j - 1)

\* The loop after message x.
LoopAt(ms, x, w) ==
  /\ w = [room |-> w.room, kept |-> w.kept, full |-> w.full]
  /\ \/ w.full = FALSE /\ w.room = Left(ms, x - 1) /\ Suffix(ms, x, w.kept)
     \/ w.full = TRUE /\ Stopped(ms, w.kept)

\* A list that bounded_messages has to shorten.
TooMuch(ms) ==
  ms \in Seq(Nat) /\ Len(ms) >= 3 /\ Room(ms) > 100

LEMMA LeftIs ==
  ASSUME NEW ms, TooMuch(ms)
  PROVE  /\ Room(ms) \in Int
         /\ Left(ms, Len(ms)) = Room(ms)
         /\ \A x \in 0 .. Len(ms) : Left(ms, x) \in Int
         /\ \A x \in 1 .. Len(ms) : ms[x] \in Nat /\ Left(ms, x - 1) = Left(ms, x) - ms[x]
  <1>1. ms \in Seq(Nat) /\ Len(ms) \in Nat /\ Len(ms) >= 3
    BY DEF TooMuch
  <1>2. \A x \in 1 .. Len(ms) : ms[x] \in Nat
    BY <1>1, ElementOfSeq
  <1>3. Room(ms) \in Int
    <2>1. 1 \in 1 .. Len(ms) /\ 2 \in 1 .. Len(ms)
      BY <1>1
    <2>2. QED
      BY <1>2, <2>1, LengthsAssumption DEF Room
  <1>4. PICK f, n, r : f = Sums(ms) /\ n = Len(ms) /\ r = Room(ms)
    OBVIOUS
  <1>5. /\ \A x \in 1 .. n : f[x] = f[x - 1] + ms[x]
        /\ \A x \in 0 .. n : f[x] \in Nat
    BY <1>1, <1>4, SumsAre
  <1>6. \A x : Left(ms, x) = r - (f[n] - f[x])
    BY <1>4 DEF Left
  <1>7. n \in Nat /\ r \in Int /\ f[n] \in Nat
    BY <1>1, <1>3, <1>4, <1>5
  <1>8. Left(ms, n) = r
    BY <1>6, <1>7
  <1>9. \A x \in 0 .. n : Left(ms, x) \in Int
    BY <1>5, <1>6, <1>7
  <1>10. ASSUME NEW x \in 1 .. n PROVE Left(ms, x - 1) = Left(ms, x) - ms[x]
    <2>1. PICK a, b, c : a = f[x - 1] /\ b = f[x] /\ c = ms[x]
      OBVIOUS
    <2>2. x \in 0 .. n /\ x - 1 \in 0 .. n
      BY <1>7
    <2>3. a \in Nat /\ b \in Nat /\ c \in Nat /\ b = a + c
      BY <1>2, <1>4, <1>5, <2>1, <2>2
    <2>4. Left(ms, x - 1) = r - (f[n] - a) /\ Left(ms, x) = r - (f[n] - b)
      BY <1>6, <2>1
    <2>5. QED
      BY <1>7, <2>1, <2>3, <2>4
  <1>11. QED
    BY <1>2, <1>3, <1>4, <1>8, <1>9, <1>10

\* A message before the ones that are shown whole.
LEMMA WholeWithOneMore ==
  ASSUME NEW ms \in Seq(Nat), NEW x \in 1 .. Len(ms)
  PROVE  <<Part(x, ms[x])>> \o Whole(ms, x + 1, Len(ms)) = Whole(ms, x, Len(ms))
  <1>1. PICK n, p, q, one : /\ n = Len(ms) /\ one = <<Part(x, ms[x])>>
                            /\ p = Whole(ms, x + 1, n) /\ q = Whole(ms, x, n)
    OBVIOUS
  <1>2. n \in Nat /\ x \in 1 .. n + 1 /\ x + 1 \in 1 .. n + 1 /\ n \in x - 1 .. n /\ n \in x .. n
        /\ x + 1 - 1 = x
    BY <1>1
  <1>3. /\ q \in Seq(Parts) /\ Len(q) = n + 1 - x
        /\ \A k \in 1 .. n + 1 - x : q[k] = Part(x + k - 1, ms[x + k - 1])
    BY <1>1, <1>2, WholeIs
  <1>4. /\ p \in Seq(Parts) /\ Len(p) = n + 1 - (x + 1)
        /\ \A k \in 1 .. n + 1 - (x + 1) : p[k] = Part(x + 1 + k - 1, ms[x + 1 + k - 1])
    <2>1. PICK y : y = x + 1
      OBVIOUS
    <2>2. y \in 1 .. Len(ms) + 1 /\ n \in y - 1 .. Len(ms) /\ p = Whole(ms, y, n)
      BY <1>1, <1>2, <2>1
    <2>3. /\ p \in Seq(Parts) /\ Len(p) = n + 1 - y
          /\ \A k \in 1 .. n + 1 - y : p[k] = Part(y + k - 1, ms[y + k - 1])
      BY <2>2, WholeIs
    <2>4. QED
      BY <2>1, <2>3
  <1>5. ms[x] \in Nat
    BY ElementOfSeq
  <1>6. one \in Seq(Parts) /\ Len(one) = 1 /\ one[1] = Part(x, ms[x])
    BY <1>1, <1>5, CharsOfOne
  <1>7. PICK r : r = one \o p
    OBVIOUS
  <1>8. /\ r \in Seq(Parts) /\ Len(r) = 1 + Len(p)
        /\ \A k \in 1 .. 1 + Len(p) : r[k] = IF k <= 1 THEN one[k] ELSE p[k - 1]
    <2>1. /\ r \in Seq(Parts) /\ Len(r) = Len(one) + Len(p)
          /\ \A k \in 1 .. Len(one) + Len(p) :
               r[k] = IF k <= Len(one) THEN one[k] ELSE p[k - Len(one)]
      BY <1>4, <1>6, <1>7, ConcatProperties
    <2>2. QED
      BY <1>6, <2>1
  <1>9. Len(r) = n + 1 - x
    BY <1>2, <1>4, <1>8
  <1>10. ASSUME NEW k \in 1 .. Len(r) PROVE r[k] = q[k]
    <2>1. CASE k = 1
      <3>1. r[1] = Part(x, ms[x]) /\ x + 1 - 1 = x /\ 1 \in 1 .. n + 1 - x
        BY <1>2, <1>6, <1>8, <1>9, <2>1
      <3>2. q[1] = Part(x + 1 - 1, ms[x + 1 - 1])
        BY <1>3, <3>1
      <3>3. QED
        BY <2>1, <3>1, <3>2
    <2>2. CASE k # 1
      <3>1. PICK l : l = k - 1
        OBVIOUS
      <3>2. l \in 1 .. n + 1 - (x + 1) /\ k \in 1 .. n + 1 - x /\ x + 1 + l - 1 = x + k - 1
            /\ ~(k <= 1) /\ k \in 1 .. 1 + Len(p)
        BY <1>2, <1>8, <1>9, <2>2, <3>1
      <3>3. r[k] = p[l] /\ p[l] = Part(x + 1 + l - 1, ms[x + 1 + l - 1])
        BY <1>4, <1>8, <3>1, <3>2
      <3>4. q[k] = Part(x + k - 1, ms[x + k - 1])
        BY <1>3, <3>2
      <3>5. QED
        BY <3>2, <3>3, <3>4
    <2>3. QED
      BY <2>1, <2>2
  <1>11. r = q
    BY <1>3, <1>8, <1>9, <1>10, SeqEqual
  <1>12. QED
    BY <1>1, <1>7, <1>11

\* One round of the loop.
LEMMA TakeKeeps ==
  ASSUME NEW ms, TooMuch(ms), NEW x \in 3 .. Len(ms), NEW w, LoopAt(ms, x + 1, w)
  PROVE  LoopAt(ms, x, Take(ms, x, w))
  <1>1. PICK n, v : n = Len(ms) /\ v = Take(ms, x, w)
    OBVIOUS
  <1>2. /\ ms \in Seq(Nat) /\ n \in Nat /\ n >= 3 /\ x \in 1 .. n /\ x \in 0 .. n
        /\ x + 1 - 1 = x /\ x - 1 \in 0 .. n
    BY <1>1 DEF TooMuch
  <1>3. w = [room |-> w.room, kept |-> w.kept, full |-> w.full]
    BY DEF LoopAt
  <1>4. /\ Room(ms) \in Int /\ Room(ms) > 100 /\ Left(ms, n) = Room(ms) /\ Left(ms, x) \in Int
        /\ ms[x] \in Nat /\ Left(ms, x - 1) = Left(ms, x) - ms[x]
    BY <1>1, <1>2, LeftIs DEF TooMuch
  <1>5. CASE w.full = TRUE
    <2>1. Stopped(ms, w.kept)
      BY <1>5 DEF LoopAt
    <2>2. v = [w EXCEPT !.full = TRUE]
      BY <1>1, <1>5 DEF Take
    <2>3. v = [room |-> w.room, kept |-> w.kept, full |-> TRUE]
      BY <1>3, <2>2
    <2>4. QED
      BY <1>1, <2>1, <2>3 DEF LoopAt
  <1>6. CASE w.full = FALSE
    <2>1. w.room = Left(ms, x) /\ Suffix(ms, x + 1, w.kept)
      BY <1>2, <1>6 DEF LoopAt
    <2>2. w.kept = Whole(ms, x + 1, n) /\ \A y \in x + 1 .. n : Accepts(ms, y)
      BY <1>1, <2>1 DEF Suffix
    <2>3. CASE Accepts(ms, x)
      <3>1. ~(w.full \/ w.room <= 80) /\ ~w.full /\ w.room > 80 /\ ms[x] <= w.room
        BY <1>4, <1>6, <2>1, <2>3 DEF Accepts
      <3>2. v = [w EXCEPT !.room = @ - ms[x], !.kept = <<Part(x, ms[x])>> \o @]
        BY <1>1, <3>1 DEF Take
      <3>3. /\ v = [room |-> w.room - ms[x], kept |-> <<Part(x, ms[x])>> \o w.kept,
                    full |-> FALSE]
        BY <1>3, <1>6, <3>2
      <3>4. v.kept = Whole(ms, x, n)
        <4>1. <<Part(x, ms[x])>> \o Whole(ms, x + 1, Len(ms)) = Whole(ms, x, Len(ms))
          BY <1>1, <1>2, WholeWithOneMore
        <4>2. QED
          BY <1>1, <2>2, <3>3, <4>1
      <3>5. \A y \in x .. n : Accepts(ms, y)
        BY <1>2, <2>2, <2>3
      <3>6. v.room = Left(ms, x - 1) /\ v.full = FALSE
        BY <1>4, <2>1, <3>3
      <3>7. QED
        BY <1>1, <3>3, <3>4, <3>5, <3>6 DEF LoopAt, Suffix
    <2>4. CASE ~Accepts(ms, x) /\ x < n
      <3>1. x + 1 \in 4 .. n /\ Suffix(ms, x + 1, w.kept) /\ ~Accepts(ms, x + 1 - 1)
        BY <1>2, <2>1, <2>4
      <3>2. Stopped(ms, w.kept)
        BY <1>1, <3>1 DEF Stopped
      <3>3. w.kept # <<>>
        <4>1. x + 1 \in 1 .. n + 1 /\ n \in x + 1 - 1 .. n /\ n + 1 - (x + 1) > 0
          BY <1>2, <2>4
        <4>2. PICK y : y = x + 1
          OBVIOUS
        <4>3. y \in 1 .. Len(ms) + 1 /\ n \in y - 1 .. Len(ms)
          BY <1>1, <4>1, <4>2
        <4>4. Len(Whole(ms, y, n)) = n + 1 - y
          BY <1>2, <4>3, WholeIs
        <4>5. QED
          BY <2>2, <4>1, <4>2, <4>4
      <3>4. v = [room |-> w.room, kept |-> w.kept, full |-> TRUE]
        <4>1. CASE w.room <= 80
          <5>1. w.room \in Int /\ (w.full \/ w.room <= 80)
            BY <1>4, <2>1, <4>1
          <5>2. v = [w EXCEPT !.full = TRUE]
            BY <1>1, <1>6, <5>1 DEF Take
          <5>3. QED
            BY <1>3, <5>2
        <4>2. CASE ~(w.room <= 80)
          <5>1. ~(w.full \/ w.room <= 80) /\ ~(~w.full /\ w.room > 80 /\ ms[x] <= w.room)
            BY <1>4, <1>6, <2>1, <2>4, <4>2 DEF Accepts
          <5>2. v = [w EXCEPT !.full = TRUE,
                              !.kept = IF @ = <<>> THEN <<Part(x, w.room - 30 + 20)>> ELSE @]
            BY <1>1, <5>1 DEF Take
          <5>3. QED
            BY <1>3, <3>3, <5>2
        <4>3. QED
          BY <4>1, <4>2
      <3>5. QED
        BY <1>1, <3>2, <3>4 DEF LoopAt
    <2>5. CASE ~Accepts(ms, x) /\ x = n
      <3>1. w.room = Room(ms) /\ w.room > 80 /\ ms[n] > Room(ms)
        BY <1>4, <2>1, <2>5 DEF Accepts
      <3>2. w.kept = <<>>
        <4>1. x + 1 \in 1 .. n + 1 /\ n \in x + 1 - 1 .. n /\ n + 1 - (x + 1) = 0
          BY <1>2, <2>5
        <4>2. PICK y : y = x + 1
          OBVIOUS
        <4>3. y \in 1 .. Len(ms) + 1 /\ n \in y - 1 .. Len(ms)
          BY <1>1, <4>1, <4>2
        <4>4. Whole(ms, y, n) \in Seq(Parts) /\ Len(Whole(ms, y, n)) = n + 1 - y
          BY <1>2, <4>3, WholeIs
        <4>5. w.kept \in Seq(Parts) /\ Len(w.kept) = 0
          BY <2>2, <4>1, <4>2, <4>4
        <4>6. QED
          BY <4>5, EmptySeq
      <3>3. ~(w.full \/ w.room <= 80) /\ ~(~w.full /\ w.room > 80 /\ ms[x] <= w.room)
        BY <1>4, <1>6, <2>5, <3>1
      <3>4. v = [w EXCEPT !.full = TRUE,
                          !.kept = IF @ = <<>> THEN <<Part(x, w.room - 30 + 20)>> ELSE @]
        BY <1>1, <3>3 DEF Take
      <3>5. v = [room |-> w.room, kept |-> <<Part(x, w.room - 30 + 20)>>, full |-> TRUE]
        BY <1>3, <3>2, <3>4
      <3>6. w.room - 30 + 20 = Room(ms) - 10
        BY <1>4, <3>1
      <3>7. Cut(ms, v.kept)
        BY <1>1, <2>5, <3>1, <3>5, <3>6 DEF Cut
      <3>8. QED
        BY <1>1, <3>5, <3>7 DEF LoopAt, Stopped
    <2>6. QED
      BY <1>2, <2>3, <2>4, <2>5
  <1>7. QED
    BY <1>5, <1>6 DEF LoopAt

\* f is the function that Loop(ms) defines, as far as n.
Begins(ms) == [room |-> PromptChars - ms[1] - ms[2], kept |-> <<>>, full |-> FALSE]
Looping(f, ms, n) ==
  f = [k \in 0 .. n |-> IF k = 0 THEN Begins(ms) ELSE Take(ms, Len(ms) + 1 - k, f[k - 1])]

LEMMA LoopingExists ==
  ASSUME NEW ms, NEW n \in Nat
  PROVE  \E f : Looping(f, ms, n)
  <1> DEFINE P == {m \in Nat : \E f : Looping(f, ms, m)}
  <1>1. 0 \in P
    <2> DEFINE f == [k \in 0 .. 0 |-> Begins(ms)]
    <2>1. f = [k \in 0 .. 0 |-> IF k = 0 THEN Begins(ms) ELSE Take(ms, Len(ms) + 1 - k, f[k - 1])]
      OBVIOUS
    <2>2. Looping(f, ms, 0)
      BY <2>1, Zenon DEF Looping
    <2>3. QED
      BY <2>2
  <1>2. ASSUME NEW m \in 1 .. n, m - 1 \in P
        PROVE  m \in P
    <2>1. PICK p : p = m - 1
      OBVIOUS
    <2>2. p \in Nat /\ m = p + 1 /\ m \notin 0 .. p /\ m \in 0 .. m /\ m \in Nat
      BY <2>1
    <2>3. PICK f : Looping(f, ms, p)
      BY <1>2, <2>1
    <2>4. f = [k \in 0 .. p |-> IF k = 0 THEN Begins(ms) ELSE Take(ms, Len(ms) + 1 - k, f[k - 1])]
      BY <2>3, Zenon DEF Looping
    <2>5. PICK last : last = Take(ms, Len(ms) + 1 - m, f[p])
      OBVIOUS
    <2>6. PICK g : g = [k \in 0 .. m |-> IF k = m THEN last ELSE f[k]]
      OBVIOUS
    <2>7. ASSUME NEW k \in 0 .. m
          PROVE  g[k] = IF k = 0 THEN Begins(ms) ELSE Take(ms, Len(ms) + 1 - k, g[k - 1])
      <3>1. CASE k = m
        <4>1. g[k] = last /\ k # 0 /\ k - 1 = p /\ p \in 0 .. m /\ p # m
          BY <2>2, <2>6, <3>1
        <4>2. g[p] = f[p]
          BY <2>6, <4>1
        <4>3. QED
          BY <2>5, <3>1, <4>1, <4>2
      <3>2. CASE k # m /\ k = 0
        <4>1. g[k] = f[k] /\ k \in 0 .. p
          BY <2>2, <2>6, <3>2
        <4>2. QED
          BY <2>4, <3>2, <4>1
      <3>3. CASE k # m /\ k # 0
        <4>1. g[k] = f[k] /\ k \in 0 .. p /\ k - 1 \in 0 .. m /\ k - 1 # m
          BY <2>2, <2>6, <3>3
        <4>2. g[k - 1] = f[k - 1]
          BY <2>6, <4>1
        <4>3. f[k] = Take(ms, Len(ms) + 1 - k, f[k - 1])
          BY <2>4, <3>3, <4>1
        <4>4. QED
          BY <3>3, <4>1, <4>2, <4>3
      <3>4. QED
        BY <3>1, <3>2, <3>3
    <2>8. g = [k \in 0 .. m |-> IF k = 0 THEN Begins(ms) ELSE Take(ms, Len(ms) + 1 - k, g[k - 1])]
      BY <2>6, <2>7
    <2>9. Looping(g, ms, m)
      BY <2>8, Zenon DEF Looping
    <2>10. QED
      BY <2>2, <2>9
  <1> HIDE DEF P
  <1>3. n \in P
    <2>1. n \in 0 .. n
      OBVIOUS
    <2>2. QED
      BY <1>1, <1>2, <2>1, UpTo
  <1>4. QED
    BY <1>3 DEF P

\* What the loop keeps.
LEMMA LoopIs ==
  ASSUME NEW ms, TooMuch(ms)
  PROVE  LET kept == Loop(ms)[Len(ms) - Anchors].kept
         IN  Suffix(ms, 3, kept) \/ Stopped(ms, kept)
  <1>1. PICK n, m, f : n = Len(ms) /\ m = n - Anchors /\ f = Loop(ms)
    OBVIOUS
  <1>2. ms \in Seq(Nat) /\ n \in Nat /\ n >= 3 /\ m \in Nat /\ m = n - 2 /\ n + 1 - m = 3
    BY <1>1 DEF TooMuch, Anchors
  <1>3. Looping(f, ms, m)
    <2>1. f = CHOOSE g : Looping(g, ms, m)
      BY <1>1, Zenon DEF Loop, Looping, Begins
    <2>2. QED
      BY <1>2, <2>1, LoopingExists
  <1>4. \A k \in 0 .. m : f[k] = IF k = 0 THEN Begins(ms) ELSE Take(ms, n + 1 - k, f[k - 1])
    <2>1. f = [k \in 0 .. m |->
                 IF k = 0 THEN Begins(ms) ELSE Take(ms, n + 1 - k, f[k - 1])]
      BY <1>1, <1>3, Zenon DEF Looping
    <2>2. QED
      BY <2>1, Zenon
  <1> DEFINE P == {k \in Nat : LoopAt(ms, n + 1 - k, f[k])}
  <1>5. 0 \in P
    <2>1. f[0] = Begins(ms)
      BY <1>2, <1>4
    <2>2. PICK w, x : w = f[0] /\ x = n + 1 - 0
      OBVIOUS
    <2>3. x \in 1 .. n + 1 /\ x - 1 = n /\ n \in x - 1 .. n /\ x = n + 1
      BY <1>2, <2>2
    <2>4. w = [room |-> Room(ms), kept |-> <<>>, full |-> FALSE]
      BY <2>1, <2>2 DEF Begins, Room
    <2>5. w.room = Left(ms, x - 1)
      BY <1>1, <2>3, <2>4, LeftIs
    <2>6. Whole(ms, x, n) \in Seq(Parts) /\ Len(Whole(ms, x, n)) = n + 1 - x
      BY <1>1, <1>2, <2>3, WholeIs
    <2>7. w.kept = Whole(ms, x, n)
      <3>1. Len(Whole(ms, x, n)) = 0
        BY <1>2, <2>3, <2>6
      <3>2. QED
        BY <2>4, <2>6, <3>1, EmptySeq
    <2>8. Suffix(ms, x, w.kept)
      BY <1>1, <1>2, <2>3, <2>7 DEF Suffix
    <2>9. LoopAt(ms, x, w)
      BY <2>4, <2>5, <2>8 DEF LoopAt
    <2>10. QED
      BY <2>2, <2>9
  <1>6. ASSUME NEW k \in 1 .. m, k - 1 \in P PROVE k \in P
    <2>1. PICK x, w : x = n + 1 - k /\ w = f[k - 1]
      OBVIOUS
    <2>2. x \in 3 .. n /\ x + 1 = n + 1 - (k - 1) /\ k \in 0 .. m /\ k # 0
      BY <1>2, <2>1
    <2>3. LoopAt(ms, x + 1, w)
      BY <1>6, <2>1, <2>2
    <2>4. f[k] = Take(ms, x, w)
      BY <1>4, <2>1, <2>2
    <2>5. LoopAt(ms, x, f[k])
      BY <1>1, <2>2, <2>3, <2>4, TakeKeeps
    <2>6. QED
      BY <2>1, <2>5
  <1>7. m \in P
    <2> HIDE DEF P
    <2>1. m \in 0 .. m
      BY <1>2
    <2>2. QED
      BY <1>2, <1>5, <1>6, <2>1, UpTo
  <1>8. LoopAt(ms, 3, f[m])
    BY <1>2, <1>7
  <1>9. QED
    BY <1>1, <1>8 DEF LoopAt

----------------------------------------------------------------------------
(* The prompt of an agent.                                                 *)

\* It is all of the messages when they fit; else the first two, and the last from j on
\* or the newest cut.
Start(ms, p) == p[1] = Part(1, ms[1]) /\ p[2] = Part(2, ms[2])
LastMessages(ms, j, p) ==
  /\ Len(p) = Len(ms) + 3 - j
  /\ Start(ms, p)
  /\ \A k \in 3 .. Len(p) : p[k] = Part(j + k - 3, ms[j + k - 3])
OnlyNewest(ms, p) ==
  Len(p) = 3 /\ Start(ms, p) /\ p[3] = Part(Len(ms), Room(ms) - 10) /\ ms[Len(ms)] > Room(ms)

Everything(ms, p) == Sums(ms)[Len(ms)] <= PromptChars /\ LastMessages(ms, 3, p)
Shortened(ms, p) ==
  /\ Sums(ms)[Len(ms)] > PromptChars /\ TooMuch(ms)
  /\ \/ \E j \in 3 .. Len(ms) : /\ LastMessages(ms, j, p)
                                /\ \A x \in j .. Len(ms) : Accepts(ms, x)
                                /\ j = 3 \/ ~Accepts(ms, j - 1)
     \/ OnlyNewest(ms, p)

AgentForm(ms, p) ==
  /\ ms \in Seq(Nat) /\ Len(ms) >= 2
  /\ p \in Seq(Parts) /\ Chars(p) <= PromptChars
  /\ Everything(ms, p) \/ Shortened(ms, p)

\* The sum of the first two.
LEMMA FirstTwo ==
  ASSUME NEW ms \in Seq(Nat), Len(ms) >= 2
  PROVE  /\ ms[1] \in Nat /\ ms[2] \in Nat
         /\ Sums(ms)[0] = 0 /\ Sums(ms)[2] = ms[1] + ms[2]
  <1>1. 1 \in 1 .. Len(ms) /\ 2 \in 1 .. Len(ms)
    OBVIOUS
  <1>2. PICK f : f = Sums(ms)
    OBVIOUS
  <1>3. f[0] = 0 /\ \A k \in 1 .. Len(ms) : f[k] = f[k - 1] + ms[k]
    BY <1>2, SumsAre
  <1>4. ms[1] \in Nat /\ ms[2] \in Nat
    BY <1>1, ElementOfSeq
  <1>5. f[1] = f[1 - 1] + ms[1] /\ f[2] = f[2 - 1] + ms[2]
    BY <1>1, <1>3
  <1>6. QED
    BY <1>2, <1>3, <1>4, <1>5

\* The first two, and what is kept after them.
LEMMA AfterFirstTwo ==
  ASSUME NEW ms \in Seq(Nat), Len(ms) >= 2, NEW kept \in Seq(Parts),
         NEW p, p = Whole(ms, 1, 2) \o kept
  PROVE  /\ p \in Seq(Parts)
         /\ Len(p) = 2 + Len(kept)
         /\ Start(ms, p)
         /\ \A k \in 3 .. Len(p) : p[k] = kept[k - 2]
         /\ Chars(p) = ms[1] + ms[2] + Chars(kept)
         /\ Chars(kept) \in Nat
  <1>1. PICK a : a = Whole(ms, 1, 2) /\ p = a \o kept
    OBVIOUS
  <1>2. /\ a \in Seq(Parts) /\ Len(a) = 2 + 1 - 1
        /\ \A k \in 1 .. 2 + 1 - 1 : a[k] = Part(1 + k - 1, ms[1 + k - 1])
        /\ Chars(a) = Sums(ms)[2] - Sums(ms)[1 - 1]
    <2>1. 1 \in 1 .. Len(ms) + 1 /\ 2 \in 1 - 1 .. Len(ms)
      OBVIOUS
    <2>2. QED
      BY <1>1, <2>1, WholeIs
  <1>3. Len(a) = 2 /\ a[1] = Part(1, ms[1]) /\ a[2] = Part(2, ms[2])
    <2>1. 1 \in 1 .. 2 + 1 - 1 /\ 2 \in 1 .. 2 + 1 - 1 /\ 1 + 1 - 1 = 1 /\ 1 + 2 - 1 = 2
      OBVIOUS
    <2>2. QED
      BY <1>2, <2>1
  <1>4. Chars(a) = ms[1] + ms[2]
    BY <1>2, FirstTwo
  <1>5. /\ p \in Seq(Parts) /\ Len(p) = Len(a) + Len(kept)
        /\ \A k \in 1 .. Len(a) + Len(kept) : p[k] = IF k <= Len(a) THEN a[k] ELSE kept[k - Len(a)]
    BY <1>1, <1>2, ConcatProperties
  <1>6. Len(kept) \in Nat
    OBVIOUS
  <1>7. Start(ms, p)
    BY <1>3, <1>5, <1>6 DEF Start
  <1>8. \A k \in 3 .. Len(p) : p[k] = kept[k - 2]
    BY <1>3, <1>5, <1>6
  <1>9. Chars(p) = Chars(a) + Chars(kept) /\ Chars(kept) \in Nat
    BY <1>1, <1>2, CharsOfConcat, CharsAre
  <1>10. QED
    BY <1>1, <1>3, <1>4, <1>5, <1>7, <1>8, <1>9

LEMMA BoundedIs ==
  ASSUME NEW ms \in Seq(Nat), Len(ms) >= 2, ~TooLong(ms)
  PROVE  AgentForm(ms, Bounded(ms))
  <1>1. PICK n, f, p : n = Len(ms) /\ f = Sums(ms) /\ p = Bounded(ms)
    OBVIOUS
  <1>2. n \in Nat /\ n >= 2
    BY <1>1
  <1>3. /\ f[0] = 0
        /\ \A x \in 1 .. n : f[x] = f[x - 1] + ms[x]
        /\ \A x \in 0 .. n : f[x] \in Nat
    BY <1>1, SumsAre
  <1>4. ms[1] \in Nat /\ ms[2] \in Nat /\ f[2] = ms[1] + ms[2]
    BY <1>1, FirstTwo
  <1>5. CASE f[n] <= PromptChars
    <2>1. p = Whole(ms, 1, n)
      BY <1>1, <1>5 DEF Bounded, Total
    <2>2. /\ p \in Seq(Parts) /\ Len(p) = n + 1 - 1
          /\ \A k \in 1 .. n + 1 - 1 : p[k] = Part(1 + k - 1, ms[1 + k - 1])
          /\ Chars(p) = f[n] - f[1 - 1]
      <3>1. 1 \in 1 .. Len(ms) + 1 /\ n \in 1 - 1 .. Len(ms)
        BY <1>1, <1>2
      <3>2. /\ Whole(ms, 1, n) \in Seq(Parts) /\ Len(Whole(ms, 1, n)) = n + 1 - 1
            /\ \A k \in 1 .. n + 1 - 1 : Whole(ms, 1, n)[k] = Part(1 + k - 1, ms[1 + k - 1])
            /\ Chars(Whole(ms, 1, n)) = Sums(ms)[n] - Sums(ms)[1 - 1]
        BY <3>1, WholeIs
      <3>3. QED
        BY <1>1, <2>1, <3>2
    <2>3. Chars(p) <= PromptChars
      BY <1>2, <1>3, <1>5, <2>2
    <2>4. Len(p) = n + 3 - 3
      BY <1>2, <2>2
    <2>5. ASSUME NEW k \in 1 .. n PROVE p[k] = Part(k, ms[k])
      <3>1. k \in 1 .. n + 1 - 1 /\ 1 + k - 1 = k
        BY <1>2
      <3>2. QED
        BY <2>2, <3>1
    <2>6. Start(ms, p)
      BY <1>2, <2>5 DEF Start
    <2>7. ASSUME NEW k \in 3 .. Len(p) PROVE p[k] = Part(3 + k - 3, ms[3 + k - 3])
      <3>1. k \in 1 .. n /\ 3 + k - 3 = k
        BY <1>2, <2>4
      <3>2. QED
        BY <2>5, <3>1
    <2>8. QED
      BY <1>1, <1>2, <1>5, <2>2, <2>3, <2>4, <2>6, <2>7 DEF AgentForm, Everything, LastMessages
  <1>6. CASE ~(f[n] <= PromptChars)
    <2>1. PICK kept : kept = Loop(ms)[Len(ms) - Anchors].kept
      OBVIOUS
    <2>2. p = Whole(ms, 1, 2) \o kept
      BY <1>1, <1>6, <2>1 DEF Bounded, Total, Anchors
    <2>3. f[n] \in Nat /\ PromptChars \in Nat
      BY <1>2, <1>3, LengthsAssumption
    <2>4. f[n] > PromptChars
      BY <1>6, <2>3
    <2>5. ~(ms[1] + ms[2] >= PromptChars - 100)
      BY <1>1, <2>4 DEF TooLong, Total
    <2>6. Room(ms) > 100
      BY <1>4, <2>3, <2>5 DEF Room
    <2>7. n # 2
      BY <1>4, <2>3, <2>4, <2>5
    <2>8. TooMuch(ms)
      BY <1>1, <1>2, <2>6, <2>7 DEF TooMuch
    <2>9. Suffix(ms, 3, kept) \/ Stopped(ms, kept)
      BY <2>1, <2>8, LoopIs
    <2>10. /\ Room(ms) \in Int /\ Left(ms, n) = Room(ms)
           /\ \A x \in 0 .. n : Left(ms, x) \in Int
           /\ \A x \in 1 .. n : ms[x] \in Nat /\ Left(ms, x - 1) = Left(ms, x) - ms[x]
      BY <1>1, <2>8, LeftIs
    <2>11. ASSUME NEW j \in 3 .. n, Suffix(ms, j, kept), j = 3 \/ ~Accepts(ms, j - 1)
           PROVE  AgentForm(ms, p)
      <3>1. kept = Whole(ms, j, n) /\ \A x \in j .. n : Accepts(ms, x)
        BY <1>1, <2>11 DEF Suffix
      <3>2. /\ kept \in Seq(Parts) /\ Len(kept) = n + 1 - j
            /\ \A k \in 1 .. n + 1 - j : kept[k] = Part(j + k - 1, ms[j + k - 1])
            /\ Chars(kept) = f[n] - f[j - 1]
        <4>1. j \in 1 .. Len(ms) + 1 /\ n \in j - 1 .. Len(ms)
          BY <1>1, <1>2
        <4>2. kept = Whole(ms, j, n)
          BY <3>1
        <4>3. /\ Whole(ms, j, n) \in Seq(Parts)
              /\ Len(Whole(ms, j, n)) = n + 1 - j
              /\ \A k \in 1 .. n + 1 - j : Whole(ms, j, n)[k] = Part(j + k - 1, ms[j + k - 1])
              /\ Chars(Whole(ms, j, n)) = Sums(ms)[n] - Sums(ms)[j - 1]
          BY <4>1, WholeIs
        <4>4. QED
          BY <1>1, <4>2, <4>3
      <3>3. /\ p \in Seq(Parts) /\ Len(p) = 2 + Len(kept) /\ Start(ms, p)
            /\ \A k \in 3 .. Len(p) : p[k] = kept[k - 2]
            /\ Chars(p) = ms[1] + ms[2] + Chars(kept)
        <4>1. kept \in Seq(Parts) /\ Len(ms) >= 2
          BY <1>1, <1>2, <3>2
        <4>2. QED
          BY <2>2, <4>1, AfterFirstTwo
      <3>4. Accepts(ms, j)
        BY <3>1
      <3>5. ms[j] <= Left(ms, j) /\ Left(ms, j) = Room(ms) - (f[n] - f[j])
        BY <1>1, <3>4 DEF Accepts, Left
      <3>6. f[j] = f[j - 1] + ms[j] /\ f[j] \in Nat /\ f[j - 1] \in Nat /\ ms[j] \in Nat
        <4>1. j \in 1 .. n /\ j \in 0 .. n /\ j - 1 \in 0 .. n
          BY <1>2
        <4>2. QED
          BY <1>3, <2>10, <4>1
      <3>7. Chars(p) <= PromptChars
        <4>1. PICK a, b : a = f[j] /\ b = f[j - 1]
          OBVIOUS
        <4>2. ms[j] <= Room(ms) - (f[n] - a) /\ a = b + ms[j] /\ a \in Nat /\ b \in Nat
          BY <3>5, <3>6, <4>1
        <4>3. f[n] - b <= Room(ms)
          <5>1. PICK c, d, r : c = f[n] /\ d = ms[j] /\ r = Room(ms)
            OBVIOUS
          <5>2. /\ c \in Nat /\ d \in Nat /\ r \in Int /\ a \in Nat /\ b \in Nat
                /\ d <= r - (c - a) /\ a = b + d
            BY <2>3, <2>10, <3>6, <4>2, <5>1
          <5>3. c - b <= r
            BY <5>2
          <5>4. QED
            BY <5>1, <5>3
        <4>4. Chars(p) = ms[1] + ms[2] + (f[n] - b)
          BY <3>2, <3>3, <4>1
        <4>5. Room(ms) = PromptChars - ms[1] - ms[2]
          BY DEF Room
        <4>6. QED
          <5>1. PICK c, d, e, r : c = f[n] /\ d = ms[1] /\ e = ms[2] /\ r = Room(ms)
            OBVIOUS
          <5>2. /\ c \in Nat /\ d \in Nat /\ e \in Nat /\ r \in Int /\ b \in Nat
                /\ PromptChars \in Nat /\ c - b <= r /\ r = PromptChars - d - e
            BY <1>4, <2>3, <2>10, <4>2, <4>3, <4>5, <5>1
          <5>3. d + e + (c - b) <= PromptChars
            BY <5>2
          <5>4. QED
            BY <4>4, <5>1, <5>3
      <3>8. Len(p) = n + 3 - j
        BY <1>2, <3>2, <3>3
      <3>9. ASSUME NEW k \in 3 .. Len(p) PROVE p[k] = Part(j + k - 3, ms[j + k - 3])
        <4>1. PICK l : l = k - 2
          OBVIOUS
        <4>2. l \in 1 .. n + 1 - j /\ j + l - 1 = j + k - 3
          BY <1>2, <3>8, <4>1
        <4>3. p[k] = kept[l] /\ kept[l] = Part(j + l - 1, ms[j + l - 1])
          BY <3>2, <3>3, <4>1, <4>2
        <4>4. QED
          BY <4>2, <4>3
      <3>10. LastMessages(ms, j, p)
        BY <1>1, <3>3, <3>8, <3>9 DEF LastMessages
      <3>11. Shortened(ms, p)
        BY <1>1, <2>4, <2>8, <2>11, <3>1, <3>10 DEF Shortened
      <3>12. QED
        BY <1>1, <1>2, <3>3, <3>7, <3>11 DEF AgentForm
    <2>12. CASE Cut(ms, kept)
      <3>1. PICK r : r = Room(ms) - 10
        OBVIOUS
      <3>2. r \in Nat /\ ms[n] > Room(ms) /\ kept = <<Part(n, r)>>
        <4>1. Room(ms) \in Int /\ Room(ms) > 100
          BY <2>6, <2>10
        <4>2. r \in Nat
          BY <3>1, <4>1
        <4>3. QED
          BY <1>1, <2>12, <3>1, <4>2 DEF Cut
      <3>3. kept \in Seq(Parts) /\ Chars(kept) = r /\ Len(kept) = 1 /\ kept[1] = Part(n, r)
        BY <1>2, <3>2, CharsOfOne
      <3>4. /\ p \in Seq(Parts) /\ Len(p) = 2 + Len(kept) /\ Start(ms, p)
            /\ \A k \in 3 .. Len(p) : p[k] = kept[k - 2]
            /\ Chars(p) = ms[1] + ms[2] + Chars(kept)
        <4>1. kept \in Seq(Parts) /\ Len(ms) >= 2
          BY <1>1, <1>2, <3>3
        <4>2. QED
          BY <2>2, <4>1, AfterFirstTwo
      <3>5. Len(p) = 3 /\ p[3] = Part(n, r)
        BY <3>3, <3>4
      <3>6. Chars(p) <= PromptChars
        <4>1. PICK d, e, q : d = ms[1] /\ e = ms[2] /\ q = Chars(p)
          OBVIOUS
        <4>2. /\ d \in Nat /\ e \in Nat /\ PromptChars \in Nat /\ r \in Nat
              /\ r = PromptChars - d - e - 10 /\ q = d + e + r
          BY <1>4, <2>3, <3>1, <3>2, <3>3, <3>4, <4>1 DEF Room
        <4>3. q <= PromptChars
          BY <4>2
        <4>4. QED
          BY <4>1, <4>3
      <3>7. OnlyNewest(ms, p)
        BY <1>1, <3>1, <3>2, <3>4, <3>5 DEF OnlyNewest
      <3>8. QED
        BY <1>1, <1>2, <2>4, <2>8, <3>4, <3>6, <3>7 DEF AgentForm, Shortened
    <2>13. QED
      <3>1. CASE Suffix(ms, 3, kept)
        <4>1. 3 \in 3 .. n
          BY <1>2, <2>7
        <4>2. QED
          BY <1>1, <2>11, <3>1, <4>1
      <3>2. CASE Stopped(ms, kept)
        <4>1. CASE \E j \in 4 .. n : Suffix(ms, j, kept) /\ ~Accepts(ms, j - 1)
          <5>1. PICK j \in 4 .. n : Suffix(ms, j, kept) /\ ~Accepts(ms, j - 1)
            BY <4>1
          <5>2. j \in 3 .. n
            BY <1>2
          <5>3. QED
            BY <1>1, <2>11, <5>1, <5>2
        <4>2. QED
          BY <1>1, <2>12, <3>2, <4>1 DEF Stopped
      <3>3. QED
        BY <2>9, <3>1, <3>2
  <1>7. QED
    BY <1>5, <1>6

\* What LastMessages says of the parts.
LEMMA LastMessagesAre ==
  ASSUME NEW ms \in Seq(Nat), Len(ms) >= 2, NEW p \in Seq(Parts),
         NEW j \in 3 .. Len(ms) + 1, j = 3 \/ j <= Len(ms), LastMessages(ms, j, p)
  PROVE  /\ Last(p).nr = Len(ms)
         /\ \A k \in Anchors + 2 .. Len(p) : p[k].nr = p[k - 1].nr + 1
         /\ \A k \in 1 .. Len(p) : p[k].chars = ms[p[k].nr]
         /\ \A k \in 1 .. Len(p) : p[k].nr <= 2 \/ p[k].nr >= j
         /\ \A i \in 1 .. Len(ms) : i <= 2 \/ i >= j => \E k \in 1 .. Len(p) : p[k].nr = i
  <1>1. PICK n, l : n = Len(ms) /\ l = Len(p)
    OBVIOUS
  <1>2. n \in Nat /\ l \in Nat /\ n >= 2 /\ j \in 3 .. n + 1 /\ l = n + 3 - j /\ l >= 2
    BY <1>1 DEF LastMessages
  <1>3. p[1] = Part(1, ms[1]) /\ p[2] = Part(2, ms[2])
    BY DEF LastMessages, Start
  <1>4. \A k \in 3 .. l : p[k] = Part(j + k - 3, ms[j + k - 3])
    BY <1>1 DEF LastMessages
  <1>5. \A i, c : Part(i, c).nr = i /\ Part(i, c).chars = c
    BY DEF Part
  <1>6. /\ p[1].nr = 1 /\ p[1].chars = ms[1] /\ p[2].nr = 2 /\ p[2].chars = ms[2]
        /\ \A k \in 3 .. l : p[k].nr = j + k - 3 /\ p[k].chars = ms[j + k - 3]
    <2>1. p[1].nr = 1 /\ p[1].chars = ms[1] /\ p[2].nr = 2 /\ p[2].chars = ms[2]
      BY <1>3, <1>5
    <2>2. ASSUME NEW k \in 3 .. l PROVE p[k].nr = j + k - 3 /\ p[k].chars = ms[j + k - 3]
      <3>1. p[k] = Part(j + k - 3, ms[j + k - 3])
        BY <1>4
      <3>2. QED
        BY <3>1 DEF Part
    <2>3. QED
      BY <2>1, <2>2
  <1>7. p[l].nr = n
    <2>1. CASE l = 2
      <3>1. n = 2
        BY <1>1, <1>2, <2>1
      <3>2. QED
        BY <1>6, <2>1, <3>1
    <2>2. CASE l # 2
      <3>1. l \in 3 .. l /\ j + l - 3 = n
        BY <1>2, <2>2
      <3>2. QED
        BY <1>6, <3>1
    <2>3. QED
      BY <2>1, <2>2
  <1>8. ASSUME NEW k \in Anchors + 2 .. l PROVE p[k].nr = p[k - 1].nr + 1
    <2>1. k \in 3 .. l /\ k - 1 \in 3 .. l /\ j + k - 3 = j + (k - 1) - 3 + 1
      BY <1>2 DEF Anchors
    <2>2. QED
      BY <1>6, <2>1
  <1>9. ASSUME NEW k \in 1 .. l
        PROVE  p[k].chars = ms[p[k].nr] /\ (p[k].nr <= 2 \/ p[k].nr >= j)
    <2>1. CASE k \in 3 .. l
      <3>1. j + k - 3 >= j
        BY <1>2, <2>1
      <3>2. QED
        BY <1>6, <2>1, <3>1
    <2>2. CASE k \notin 3 .. l
      <3>1. k = 1 \/ k = 2
        BY <1>2, <2>2
      <3>2. QED
        BY <1>6, <3>1
    <2>3. QED
      BY <2>1, <2>2
  <1>10. ASSUME NEW i \in 1 .. n, i <= 2 \/ i >= j
         PROVE  \E k \in 1 .. l : p[k].nr = i
    <2>1. CASE i <= 2
      <3>1. i \in 1 .. l /\ (i = 1 \/ i = 2)
        BY <1>2, <2>1
      <3>2. QED
        BY <1>6, <3>1
    <2>2. CASE i >= j
      <3>1. PICK k : k = i + 3 - j
        OBVIOUS
      <3>2. k \in 3 .. l /\ k \in 1 .. l /\ j + k - 3 = i
        BY <1>2, <2>2, <3>1
      <3>3. p[k].nr = i
        BY <1>6, <3>2
      <3>4. QED
        BY <3>2, <3>3
    <2>3. QED
      BY <1>10, <2>1, <2>2
  <1>11. QED
    BY <1>1, <1>7, <1>8, <1>9, <1>10 DEF Last

\* The numbers shown, of either kind of prompt.
LEMMA OnlyNewestIs ==
  ASSUME NEW ms \in Seq(Nat), TooMuch(ms), NEW p \in Seq(Parts), OnlyNewest(ms, p)
  PROVE  /\ Len(p) = 3 /\ p[1].nr = 1 /\ p[2].nr = 2 /\ p[3].nr = Len(ms)
         /\ p[1].chars = ms[1] /\ p[2].chars = ms[2] /\ p[3].chars < ms[Len(ms)]
  <1>1. \A i, c : Part(i, c).nr = i /\ Part(i, c).chars = c
    BY DEF Part
  <1>2. /\ Len(p) = 3 /\ p[1] = Part(1, ms[1]) /\ p[2] = Part(2, ms[2])
        /\ p[3] = Part(Len(ms), Room(ms) - 10) /\ ms[Len(ms)] > Room(ms)
    BY DEF OnlyNewest, Start
  <1>3. Room(ms) \in Int
    BY LeftIs
  <1>4. Len(ms) \in 1 .. Len(ms)
    BY DEF TooMuch
  <1>5. ms[Len(ms)] \in Nat
    BY <1>4, ElementOfSeq
  <1>6. Room(ms) - 10 < ms[Len(ms)]
    BY <1>2, <1>3, <1>5
  <1>7. QED
    BY <1>1, <1>2, <1>6

LEMMA AgentFits ==
  ASSUME NEW ms, NEW p, AgentForm(ms, p)
  PROVE  /\ SubSeq(p, 1, Anchors) = Whole(ms, 1, Anchors)
         /\ Last(p).nr = Len(ms)
         /\ \A k \in Anchors + 2 .. Len(p) : p[k].nr = p[k - 1].nr + 1
         /\ \A k \in DOMAIN p :
              \/ p[k].chars = ms[p[k].nr]
              \/ k = Len(p) /\ k = Anchors + 1 /\ p[k].chars < ms[Len(ms)]
  <1>1. ms \in Seq(Nat) /\ Len(ms) >= 2 /\ Len(ms) \in Nat /\ p \in Seq(Parts)
    BY DEF AgentForm
  <1>2. Len(p) \in Nat /\ DOMAIN p = 1 .. Len(p)
    BY <1>1
  <1>3. ASSUME Len(p) >= 2, Start(ms, p)
        PROVE  SubSeq(p, 1, Anchors) = Whole(ms, 1, Anchors)
    <2>1. PICK a, b : a = SubSeq(p, 1, 2) /\ b = Whole(ms, 1, 2)
      OBVIOUS
    <2>2. /\ b \in Seq(Parts) /\ Len(b) = 2 + 1 - 1
          /\ \A k \in 1 .. 2 + 1 - 1 : b[k] = Part(1 + k - 1, ms[1 + k - 1])
      <3>1. 1 \in 1 .. Len(ms) + 1 /\ 2 \in 1 - 1 .. Len(ms)
        BY <1>1
      <3>2. QED
        BY <1>1, <2>1, <3>1, WholeIs
    <2>3. \A k \in 1 .. 2 : p[k] \in Parts
      <3>1. \A k \in 1 .. 2 : k \in 1 .. Len(p)
        BY <1>2, <1>3
      <3>2. QED
        BY <1>1, <3>1, ElementOfSeq
    <2>4. /\ a \in Seq(Parts) /\ Len(a) = IF 1 <= 2 THEN 2 - 1 + 1 ELSE 0
          /\ \A k \in 1 .. 2 - 1 + 1 : a[k] = p[1 + k - 1]
      BY <2>1, <2>3, SubSeqProperties
    <2>5. Len(a) = 2 /\ Len(b) = 2
      BY <2>2, <2>4
    <2>6. ASSUME NEW k \in 1 .. 2 PROVE a[k] = b[k]
      <3>1. k \in 1 .. 2 + 1 - 1 /\ k \in 1 .. 2 - 1 + 1 /\ 1 + k - 1 = k /\ (k = 1 \/ k = 2)
        OBVIOUS
      <3>2. a[k] = p[k] /\ b[k] = Part(k, ms[k])
        BY <2>2, <2>4, <3>1
      <3>3. QED
        BY <1>3, <3>1, <3>2 DEF Start
    <2>7. a = b
      BY <2>2, <2>4, <2>5, <2>6, SeqEqual
    <2>8. QED
      BY <2>1, <2>7 DEF Anchors
  <1>4. ASSUME NEW j \in 3 .. Len(ms) + 1, j = 3 \/ j <= Len(ms), LastMessages(ms, j, p)
        PROVE  /\ SubSeq(p, 1, Anchors) = Whole(ms, 1, Anchors)
               /\ Last(p).nr = Len(ms)
               /\ \A k \in Anchors + 2 .. Len(p) : p[k].nr = p[k - 1].nr + 1
               /\ \A k \in DOMAIN p : p[k].chars = ms[p[k].nr]
    <2>1. Len(p) >= 2 /\ Start(ms, p)
      BY <1>1, <1>4 DEF LastMessages
    <2>2. SubSeq(p, 1, Anchors) = Whole(ms, 1, Anchors)
      BY <1>3, <2>1
    <2>3. /\ Last(p).nr = Len(ms)
          /\ \A k \in Anchors + 2 .. Len(p) : p[k].nr = p[k - 1].nr + 1
          /\ \A k \in 1 .. Len(p) : p[k].chars = ms[p[k].nr]
      BY <1>1, <1>4, LastMessagesAre
    <2>4. QED
      BY <1>2, <2>2, <2>3
  <1>5. CASE Everything(ms, p)
    <2>1. 3 \in 3 .. Len(ms) + 1 /\ LastMessages(ms, 3, p)
      BY <1>1, <1>5 DEF Everything
    <2>2. QED
      BY <1>4, <2>1
  <1>6. CASE Shortened(ms, p)
    <2>1. CASE \E j \in 3 .. Len(ms) : LastMessages(ms, j, p)
      <3>1. PICK j \in 3 .. Len(ms) : LastMessages(ms, j, p)
        BY <2>1
      <3>2. j \in 3 .. Len(ms) + 1
        BY <1>1
      <3>3. QED
        BY <1>4, <3>1, <3>2
    <2>2. CASE OnlyNewest(ms, p)
      <3>1. /\ Len(p) = 3 /\ p[1].nr = 1 /\ p[2].nr = 2 /\ p[3].nr = Len(ms)
            /\ p[1].chars = ms[1] /\ p[2].chars = ms[2] /\ p[3].chars < ms[Len(ms)]
        BY <1>1, <1>6, <2>2, OnlyNewestIs DEF Shortened
      <3>2. SubSeq(p, 1, Anchors) = Whole(ms, 1, Anchors)
        BY <1>3, <2>2, <3>1 DEF OnlyNewest
      <3>3. Last(p).nr = Len(ms)
        BY <3>1 DEF Last
      <3>4. Anchors + 2 .. Len(p) = {} /\ Anchors + 1 = 3 /\ DOMAIN p = {1, 2, 3}
        BY <1>2, <3>1 DEF Anchors
      <3>5. QED
        BY <3>1, <3>2, <3>3, <3>4
    <2>3. QED
      BY <1>6, <2>1, <2>2 DEF Shortened
  <1>7. QED
    BY <1>5, <1>6 DEF AgentForm

\* What is taken of a longer list is taken of its beginning.
LEMMA AcceptsLess ==
  ASSUME NEW ms, TooMuch(ms), NEW more, TooMuch(more), Len(ms) <= Len(more),
         \A k \in 1 .. Len(ms) : ms[k] = more[k],
         NEW x \in 1 .. Len(ms), Accepts(more, x)
  PROVE  Accepts(ms, x)
  <1>1. /\ ms \in Seq(Nat) /\ more \in Seq(Nat)
        /\ Len(ms) \in Nat /\ Len(more) \in Nat /\ Len(ms) >= 3
    BY DEF TooMuch
  <1>2. \A k \in 0 .. Len(ms) : Sums(more)[k] = Sums(ms)[k]
    <2>1. PICK z : z = 0
      OBVIOUS
    <2>2. z \in Nat /\ z + Len(ms) <= Len(more) /\ \A k \in 1 .. Len(ms) : ms[k] = more[z + k]
      BY <1>1, <2>1
    <2>3. \A k \in 0 .. Len(ms) : Sums(more)[z + k] = Sums(more)[z] + Sums(ms)[k]
      BY <1>1, <2>2, SumsOfPart
    <2>4. Sums(more)[0] = 0 /\ \A k \in 0 .. Len(ms) : Sums(ms)[k] \in Nat
      BY <1>1, SumsAre
    <2>5. QED
      BY <2>1, <2>3, <2>4
  <1>3. PICK a, b, c, d, r : /\ a = Sums(ms)[x] /\ b = Sums(ms)[Len(ms)]
                             /\ c = Sums(more)[Len(ms)] /\ d = Sums(more)[Len(more)]
                             /\ r = Room(ms)
    OBVIOUS
  <1>4. a \in Nat /\ b \in Nat /\ d \in Nat /\ c = b /\ Sums(more)[x] = a
    <2>1. x \in 0 .. Len(ms) /\ Len(ms) \in 0 .. Len(ms) /\ Len(more) \in 0 .. Len(more)
      BY <1>1
    <2>2. QED
      BY <1>1, <1>2, <1>3, <2>1, SumsAre
  <1>5. c <= d
    <2>1. Len(ms) \in 0 .. Len(more) /\ Len(more) \in Len(ms) .. Len(more)
      BY <1>1
    <2>2. QED
      BY <1>1, <1>3, <2>1, SumsGrow
  <1>6. r \in Int /\ Room(more) = r
    <2>1. 1 \in 1 .. Len(ms) /\ 2 \in 1 .. Len(ms)
      BY <1>1
    <2>2. Room(more) = Room(ms)
      BY <2>1 DEF Room
    <2>3. QED
      BY <1>3, <2>2, LeftIs
  <1>7. Left(ms, x) = r - (b - a) /\ Left(more, x) = r - (d - a)
    BY <1>3, <1>4, <1>6 DEF Left
  <1>8. PICK m : m = ms[x] /\ m = more[x]
    OBVIOUS
  <1>9. m \in Nat
    BY <1>1, <1>8, ElementOfSeq
  <1>10. r - (d - a) > 80 /\ m <= r - (d - a)
    BY <1>7, <1>8 DEF Accepts
  <1>11. r - (b - a) > 80 /\ m <= r - (b - a)
    BY <1>4, <1>5, <1>6, <1>9, <1>10
  <1>12. QED
    BY <1>7, <1>8, <1>11 DEF Accepts

\* What is not in an agent's prompt whole is in no prompt of a longer list.
LEMMA AgentForgets ==
  ASSUME NEW ms, NEW p, AgentForm(ms, p),
         NEW more, NEW q, AgentForm(more, q), Len(ms) < Len(more),
         \A k \in 1 .. Len(ms) : ms[k] = more[k],
         NEW i \in 1 .. Len(ms), i \notin ShownWhole(p, ms)
  PROVE  i \notin Shown(q)
  <1>1. /\ ms \in Seq(Nat) /\ more \in Seq(Nat) /\ p \in Seq(Parts) /\ q \in Seq(Parts)
        /\ Len(ms) \in Nat /\ Len(more) \in Nat /\ Len(ms) >= 2 /\ Len(more) >= 2
    BY DEF AgentForm
  <1>2. PICK n, m : n = Len(ms) /\ m = Len(more)
    OBVIOUS
  <1>3. /\ DOMAIN p = 1 .. Len(p) /\ DOMAIN q = 1 .. Len(q)
    BY <1>1
  <1>4. \A k \in 1 .. Len(p) : p[k].nr = i => p[k].chars # ms[i]
    <2>1. SUFFICES ASSUME NEW k \in 1 .. Len(p), p[k].nr = i, p[k].chars = ms[i]
                   PROVE  FALSE
      OBVIOUS
    <2>2. p[k] \in Range(p)
      BY <1>3 DEF Range
    <2>3. i \in ShownWhole(p, ms)
      BY <2>1, <2>2 DEF ShownWhole
    <2>4. QED
      BY <2>3
  <1>5. SUFFICES ASSUME NEW k \in 1 .. Len(q), q[k].nr = i
                 PROVE  FALSE
    BY <1>3 DEF Shown, Range
  \* It is not among the messages that are whole from j on in the earlier prompt ...
  <1>6. ASSUME NEW j \in 3 .. n + 1, j = 3 \/ j <= n, LastMessages(ms, j, p)
        PROVE  i >= 3 /\ i < j
    <2>1. ~(i <= 2 \/ i >= j)
      <3>1. SUFFICES ASSUME i <= 2 \/ i >= j PROVE FALSE
        OBVIOUS
      <3>2. j \in 3 .. Len(ms) + 1 /\ (j = 3 \/ j <= Len(ms)) /\ LastMessages(ms, j, p)
        BY <1>2, <1>6
      <3>3. /\ \A l \in 1 .. Len(p) : p[l].chars = ms[p[l].nr]
            /\ \A x \in 1 .. Len(ms) : x <= 2 \/ x >= j => \E l \in 1 .. Len(p) : p[l].nr = x
        BY <1>1, <3>2, LastMessagesAre
      <3>4. PICK l \in 1 .. Len(p) : p[l].nr = i
        BY <3>1, <3>3
      <3>5. p[l].chars = ms[i]
        BY <3>3, <3>4
      <3>6. QED
        BY <1>4, <3>4, <3>5
    <2>2. QED
      BY <1>1, <1>2, <2>1
  \* ... so it was left out there.
  <1>7. Shortened(ms, p)
    <2>1. SUFFICES ASSUME Everything(ms, p) PROVE FALSE
      BY DEF AgentForm
    <2>2. 3 \in 3 .. n + 1 /\ LastMessages(ms, 3, p)
      BY <1>1, <1>2, <2>1 DEF Everything
    <2>3. i >= 3 /\ i < 3
      BY <1>6, <2>2
    <2>4. QED
      BY <1>1, <2>3
  <1>8. TooMuch(ms) /\ Sums(ms)[n] > PromptChars
    BY <1>2, <1>7 DEF Shortened
  <1>9. Shortened(more, q)
    <2>1. SUFFICES ASSUME Everything(more, q) PROVE FALSE
      BY DEF AgentForm
    <2>2. PICK a, b : a = Sums(ms)[n] /\ b = Sums(more)[m]
      OBVIOUS
    <2>3. Sums(more)[n] = a
      <3>1. PICK z : z = 0
        OBVIOUS
      <3>2. z \in Nat /\ z + Len(ms) <= Len(more) /\ \A l \in 1 .. Len(ms) : ms[l] = more[z + l]
        BY <1>1, <3>1
      <3>3. \A l \in 0 .. Len(ms) : Sums(more)[z + l] = Sums(more)[z] + Sums(ms)[l]
        BY <1>1, <3>2, SumsOfPart
      <3>4. Sums(more)[0] = 0 /\ n \in 0 .. Len(ms) /\ Sums(ms)[n] \in Nat
        BY <1>1, <1>2, SumsAre
      <3>5. Sums(more)[z + n] = Sums(more)[z] + a /\ z + n = n
        BY <1>1, <1>2, <2>2, <3>1, <3>3, <3>4
      <3>6. QED
        BY <2>2, <3>1, <3>4, <3>5
    <2>4. a <= b
      <3>1. n \in 0 .. Len(more) /\ m \in n .. Len(more)
        BY <1>1, <1>2
      <3>2. QED
        BY <1>1, <2>2, <2>3, <3>1, SumsGrow
    <2>5. a \in Nat /\ b \in Nat /\ a > PromptChars /\ b <= PromptChars
      <3>1. n \in 0 .. Len(ms) /\ m \in 0 .. Len(more)
        BY <1>1, <1>2
      <3>2. QED
        BY <1>1, <1>2, <1>8, <2>1, <2>2, <3>1, SumsAre DEF Everything
    <2>6. QED
      BY <2>4, <2>5, LengthsAssumption
  <1>10. TooMuch(more)
    BY <1>9 DEF Shortened
  <1>11. ASSUME NEW x \in 3 .. n, Accepts(more, x) PROVE Accepts(ms, x)
    <2>1. x \in 1 .. Len(ms) /\ Len(ms) <= Len(more)
      BY <1>1, <1>2
    <2>2. QED
      BY <1>8, <1>10, <1>11, <2>1, AcceptsLess
  <1>12. CASE OnlyNewest(more, q)
    <2>1. Len(q) = 3 /\ q[1].nr = 1 /\ q[2].nr = 2 /\ q[3].nr = m
      BY <1>1, <1>2, <1>10, <1>12, OnlyNewestIs
    <2>2. i = 1 \/ i = 2
      <3>1. k = 1 \/ k = 2 \/ k = 3
        BY <2>1
      <3>2. i # m
        BY <1>1, <1>2
      <3>3. QED
        BY <1>5, <2>1, <3>1, <3>2
    <2>3. p[1].nr = 1 /\ p[2].nr = 2 /\ p[1].chars = ms[1] /\ p[2].chars = ms[2] /\ Len(p) >= 2
      <3>1. CASE OnlyNewest(ms, p)
        <4>1. /\ Len(p) = 3 /\ p[1].nr = 1 /\ p[2].nr = 2
              /\ p[1].chars = ms[1] /\ p[2].chars = ms[2]
          BY <1>1, <1>8, <3>1, OnlyNewestIs
        <4>2. Len(p) >= 2
          BY <4>1
        <4>3. QED
          BY <4>1, <4>2
      <3>2. CASE \E j \in 3 .. Len(ms) : LastMessages(ms, j, p)
        BY <1>1, <3>2 DEF LastMessages, Start, Part
      <3>3. QED
        BY <1>7, <3>1, <3>2 DEF Shortened
    <2>4. 1 \in 1 .. Len(p) /\ 2 \in 1 .. Len(p)
      BY <1>1, <2>3
    <2>5. QED
      BY <1>4, <2>2, <2>3, <2>4
  <1>13. ASSUME NEW j \in 3 .. m, LastMessages(more, j, q), \A x \in j .. m : Accepts(more, x)
         PROVE  FALSE
    <2>1. i <= 2 \/ i >= j
      <3>1. j \in 3 .. Len(more) + 1 /\ j <= Len(more)
        BY <1>1, <1>2
      <3>2. \A l \in 1 .. Len(q) : q[l].nr <= 2 \/ q[l].nr >= j
        BY <1>1, <1>13, <3>1, LastMessagesAre
      <3>3. QED
        BY <1>5, <3>2
    <2>2. CASE OnlyNewest(ms, p)
      <3>1. /\ Len(p) = 3 /\ p[1].nr = 1 /\ p[2].nr = 2
            /\ p[1].chars = ms[1] /\ p[2].chars = ms[2]
        BY <1>1, <1>8, <2>2, OnlyNewestIs
      <3>2. i # 1 /\ i # 2
        BY <1>4, <3>1
      <3>3. i >= j /\ n \in 3 .. n /\ n \in j .. m
        <4>1. i \in Nat /\ i <= n /\ n < m /\ n \in Nat /\ m \in Nat /\ j \in Nat /\ j >= 3
          BY <1>1, <1>2
        <4>2. i >= j
          BY <2>1, <3>2, <4>1
        <4>3. QED
          BY <4>1, <4>2
      <3>4. Accepts(ms, n)
        BY <1>11, <1>13, <3>3
      <3>5. ms[n] <= Room(ms)
        BY <1>2, <1>8, <3>4, LeftIs DEF Accepts
      <3>6. ms[n] > Room(ms)
        BY <1>2, <2>2 DEF OnlyNewest
      <3>7. ms[n] \in Nat /\ Room(ms) \in Int
        <4>1. n \in 1 .. Len(ms)
          BY <1>1, <1>2
        <4>2. QED
          BY <1>8, <4>1, LeftIs
      <3>8. QED
        BY <3>5, <3>6, <3>7
    <2>3. CASE \E l \in 3 .. n : LastMessages(ms, l, p) /\ (l = 3 \/ ~Accepts(ms, l - 1))
      <3>1. PICK l \in 3 .. n : LastMessages(ms, l, p) /\ (l = 3 \/ ~Accepts(ms, l - 1))
        BY <2>3
      <3>2. i >= 3 /\ i < l
        <4>1. l \in 3 .. n + 1 /\ l <= n
          BY <1>1, <1>2
        <4>2. QED
          BY <1>6, <3>1, <4>1
      <3>3. PICK y : y = l - 1
        OBVIOUS
      <3>4. y \in 3 .. n /\ y \in j .. m /\ l # 3
        <4>1. i >= j /\ i \in Nat /\ j \in Nat /\ n < m /\ n \in Nat /\ m \in Nat
          BY <1>1, <1>2, <2>1, <3>2
        <4>2. l \in Nat /\ l <= n /\ j >= 3 /\ i < l
          BY <3>2, <4>1
        <4>3. QED
          BY <3>3, <4>1, <4>2
      <3>5. Accepts(ms, y)
        BY <1>11, <1>13, <3>4
      <3>6. QED
        BY <3>1, <3>3, <3>4, <3>5
    <2>4. QED
      BY <1>2, <1>7, <2>2, <2>3 DEF Shortened
  <1>14. QED
    BY <1>2, <1>9, <1>12, <1>13 DEF Shortened

\* A prompt that shows nothing in part or not at all, when the next does not fit.
LEMMA AgentForgetsNothing ==
  ASSUME NEW ms, NEW p, AgentForm(ms, p),
         NEW more, TooLong(more), ms[1] = more[1], ms[2] = more[2],
         NEW i \in 1 .. Len(ms)
  PROVE  i \in ShownWhole(p, ms)
  <1>1. /\ ms \in Seq(Nat) /\ p \in Seq(Parts) /\ Len(ms) \in Nat /\ Len(ms) >= 2
    BY DEF AgentForm
  <1>2. ms[1] \in Nat /\ ms[2] \in Nat
    BY <1>1, FirstTwo
  <1>3. ~(Room(ms) > 100)
    BY <1>2, LengthsAssumption DEF TooLong, Room
  <1>4. Everything(ms, p)
    BY <1>3 DEF AgentForm, Shortened, TooMuch
  <1>5. 3 \in 3 .. Len(ms) + 1 /\ LastMessages(ms, 3, p)
    BY <1>1, <1>4 DEF Everything
  <1>6. i <= 2 \/ i >= 3
    BY <1>1
  <1>7. PICK k \in 1 .. Len(p) : p[k].nr = i
    BY <1>1, <1>5, <1>6, LastMessagesAre
  <1>8. p[k].chars = ms[p[k].nr]
    BY <1>1, <1>5, LastMessagesAre
  <1>9. p[k] \in Range(p)
    BY <1>1 DEF Range
  <1>10. QED
    BY <1>7, <1>8, <1>9 DEF ShownWhole

----------------------------------------------------------------------------
(* The prompt of a chat.                                                   *)

\* The message after the first n, and before it all of these but the first d: as many
\* exchanges as there may be.
ChatForm(ms, n, d, p) ==
  /\ n \in 0 .. Len(ms) - 1 /\ d \in 0 .. n
  /\ n % 2 = 0 /\ d % 2 = 0
  /\ p = Append(Whole(ms, d + 1, n), Part(n + 1, ms[n + 1]))
  /\ n - d <= ChatMessages
  /\ Sums(ms)[n] - Sums(ms)[d] <= ChatChars
  /\ \/ d = 0
     \/ n - d = ChatMessages
     \/ d >= 2 /\ Sums(ms)[n] - Sums(ms)[d - 2] > ChatChars

\* The sum of the last lengths.
LEMMA TotalOfLast ==
  ASSUME NEW h \in Seq(Nat), NEW d \in 0 .. Len(h)
  PROVE  Total(SubSeq(h, d + 1, Len(h))) = Sums(h)[Len(h)] - Sums(h)[d]
  <1>1. PICK n, m, t : n = Len(h) /\ m = d + 1 /\ t = SubSeq(h, m, n)
    OBVIOUS
  <1>2. n \in Nat /\ m \in Int /\ n \in Int /\ d \in Nat /\ d <= n
    BY <1>1
  <1>3. \A k \in m .. n : h[k] \in Nat
    <2>1. \A k \in m .. n : k \in 1 .. Len(h)
      BY <1>1, <1>2
    <2>2. QED
      BY <2>1, ElementOfSeq
  <1>4. /\ t \in Seq(Nat)
        /\ Len(t) = IF m <= n THEN n - m + 1 ELSE 0
        /\ \A k \in 1 .. n - m + 1 : t[k] = h[m + k - 1]
    BY <1>1, <1>2, <1>3, SubSeqProperties
  <1>5. Len(t) = n - d /\ d + Len(t) = n
    BY <1>1, <1>2, <1>4
  <1>6. ASSUME NEW k \in 1 .. Len(t) PROVE t[k] = h[d + k]
    <2>1. k \in 1 .. n - m + 1 /\ m + k - 1 = d + k
      BY <1>1, <1>2, <1>5
    <2>2. QED
      BY <1>4, <2>1
  <1>7. \A k \in 0 .. Len(t) : Sums(h)[d + k] = Sums(h)[d] + Sums(t)[k]
    <2>1. d + Len(t) <= Len(h)
      BY <1>1, <1>2, <1>5
    <2>2. QED
      BY <1>2, <1>4, <1>6, <2>1, SumsOfPart
  <1>8. Len(t) \in 0 .. Len(t)
    BY <1>2, <1>5
  <1>9. Sums(h)[n] = Sums(h)[d] + Sums(t)[Len(t)]
    BY <1>5, <1>7, <1>8
  <1>10. Sums(h)[n] \in Nat /\ Sums(h)[d] \in Nat /\ Sums(t)[Len(t)] \in Nat
    <2>1. n \in 0 .. Len(h)
      BY <1>1, <1>2
    <2>2. QED
      BY <1>4, <1>8, <2>1, SumsAre
  <1>11. Sums(t)[Len(t)] = Sums(h)[n] - Sums(h)[d]
    BY <1>9, <1>10
  <1>12. QED
    BY <1>1, <1>11 DEF Total

\* How many messages the prompt leaves out.
LEMMA RecentIs ==
  ASSUME NEW h \in Seq(Nat), Len(h) % 2 = 0
  PROVE  \E d \in 0 .. Len(h) :
           /\ d % 2 = 0
           /\ Recent(h) = Whole(h, d + 1, Len(h))
           /\ Len(h) - d <= ChatMessages
           /\ Sums(h)[Len(h)] - Sums(h)[d] <= ChatChars
           /\ \/ d = 0
              \/ Len(h) - d = ChatMessages
              \/ d >= 2 /\ Sums(h)[Len(h)] - Sums(h)[d - 2] > ChatChars
  <1>1. PICK n, f, first : /\ n = Len(h) /\ f = Sums(h)
                           /\ first = IF n > ChatMessages THEN n - ChatMessages ELSE 0
    OBVIOUS
  <1>2. PICK drops : drops = {d \in first .. n : /\ (d - first) % 2 = 0
                                                 /\ Total(SubSeq(h, d + 1, n)) <= ChatChars}
    OBVIOUS
  <1>3. /\ n \in Nat /\ n % 2 = 0
        /\ ChatMessages \in Nat /\ ChatMessages % 2 = 0 /\ ChatChars \in Nat
    BY <1>1, LengthsAssumption
  <1>4. /\ first \in 0 .. n /\ first % 2 = 0 /\ n - first <= ChatMessages
        /\ first = 0 \/ n - first = ChatMessages
    <2>1. CASE n > ChatMessages
      BY <1>1, <1>3, <2>1
    <2>2. CASE ~(n > ChatMessages)
      BY <1>1, <1>3, <2>2
    <2>3. QED
      BY <2>1, <2>2
  <1>5. \A d \in 0 .. n : Total(SubSeq(h, d + 1, n)) = f[n] - f[d]
    BY <1>1, TotalOfLast
  <1>6. \A d \in 0 .. n : f[d] \in Nat
    BY <1>1, SumsAre
  <1>7. \A d : d \in drops <=> d \in first .. n /\ (d - first) % 2 = 0 /\ f[n] - f[d] <= ChatChars
    <2>1. \A d \in first .. n : d \in 0 .. n
      BY <1>3, <1>4
    <2>2. QED
      BY <1>2, <1>5, <2>1
  <1>8. n \in drops
    <2>1. n \in first .. n /\ (n - first) % 2 = 0 /\ f[n] - f[n] <= ChatChars
      <3>1. f[n] \in Nat
        BY <1>3, <1>6
      <3>2. QED
        BY <1>3, <1>4, <3>1
    <2>2. QED
      BY <1>7, <2>1
  <1>9. drops \in SUBSET Nat
    BY <1>3, <1>4, <1>7
  <1>10. PICK d : d = Min(drops)
    OBVIOUS
  <1>11. d \in drops /\ \A e \in drops : d <= e
    <2>1. \E x \in drops : \A y \in drops : x <= y
      BY <1>8, <1>9, SmallestOf
    <2>2. QED
      BY <1>10, <2>1 DEF Min
  <1>12. d \in first .. n /\ (d - first) % 2 = 0 /\ f[n] - f[d] <= ChatChars
    BY <1>7, <1>11
  <1>13. d \in 0 .. n /\ d % 2 = 0 /\ n - d <= ChatMessages
    BY <1>3, <1>4, <1>12
  <1>14. Recent(h) = Whole(h, d + 1, n)
    BY <1>1, <1>2, <1>10 DEF Recent
  <1>15. d = first \/ (d >= 2 /\ f[n] - f[d - 2] > ChatChars)
    <2>1. SUFFICES ASSUME d # first PROVE d >= 2 /\ f[n] - f[d - 2] > ChatChars
      OBVIOUS
    <2>2. PICK e : e = d - 2
      OBVIOUS
    <2>3. e \in first .. n /\ (e - first) % 2 = 0 /\ d >= 2 /\ ~(d <= e) /\ e \in 0 .. n
      BY <1>3, <1>4, <1>12, <2>1, <2>2
    <2>4. ~(f[n] - f[e] <= ChatChars)
      BY <1>7, <1>11, <2>3
    <2>5. f[n] \in Nat /\ f[e] \in Nat
      BY <1>3, <1>6, <2>3
    <2>6. f[n] - f[e] > ChatChars
      BY <1>3, <2>4, <2>5
    <2>7. QED
      BY <2>2, <2>3, <2>6
  <1>16. d = 0 \/ n - d = ChatMessages \/ (d >= 2 /\ f[n] - f[d - 2] > ChatChars)
    BY <1>4, <1>15
  <1>17. QED
    BY <1>1, <1>12, <1>13, <1>14, <1>16

\* Messages that stay where they are, whole.
LEMMA WholeStays ==
  ASSUME NEW ms \in Seq(Nat), NEW more \in Seq(Nat), Len(ms) <= Len(more),
         \A k \in 1 .. Len(ms) : ms[k] = more[k]
  PROVE  /\ \A k \in 0 .. Len(ms) : Sums(more)[k] = Sums(ms)[k]
         /\ \A i \in 1 .. Len(ms) + 1 : \A j \in i - 1 .. Len(ms) : Whole(more, i, j) = Whole(ms, i, j)
  <1>1. Len(ms) \in Nat /\ Len(more) \in Nat
    OBVIOUS
  <1>2. \A k \in 0 .. Len(ms) : Sums(more)[k] = Sums(ms)[k]
    <2>1. PICK z : z = 0
      OBVIOUS
    <2>2. z \in Nat /\ z + Len(ms) <= Len(more) /\ \A k \in 1 .. Len(ms) : ms[k] = more[z + k]
      BY <1>1, <2>1
    <2>3. \A k \in 0 .. Len(ms) : Sums(more)[z + k] = Sums(more)[z] + Sums(ms)[k]
      BY <2>2, SumsOfPart
    <2>4. Sums(more)[0] = 0 /\ \A k \in 0 .. Len(ms) : Sums(ms)[k] \in Nat
      BY SumsAre
    <2>5. QED
      BY <2>1, <2>3, <2>4
  <1>3. ASSUME NEW i \in 1 .. Len(ms) + 1, NEW j \in i - 1 .. Len(ms)
        PROVE  Whole(more, i, j) = Whole(ms, i, j)
    <2>1. PICK m : m = j + 1 - i
      OBVIOUS
    <2>2. ASSUME NEW k \in 1 .. m PROVE ms[i + k - 1] = more[i + k - 1]
      <3>1. i + k - 1 \in 1 .. Len(ms)
        BY <1>1, <2>1
      <3>2. QED
        BY <3>1
    <2>3. [k \in 1 .. m |-> Part(i + k - 1, more[i + k - 1])]
          = [k \in 1 .. m |-> Part(i + k - 1, ms[i + k - 1])]
      BY <2>2
    <2>4. QED
      BY <2>1, <2>3 DEF Whole
  <1>4. QED
    BY <1>2, <1>3

\* The parts of a chat's prompt: all messages after the first d.
LEMMA ChatPartsAre ==
  ASSUME NEW ms \in Seq(Nat), NEW n, NEW d, NEW p, ChatForm(ms, n, d, p)
  PROVE  /\ n \in Nat /\ d \in Nat /\ d <= n /\ n + 1 <= Len(ms)
         /\ p \in Seq(Parts) /\ Len(p) = n - d + 1
         /\ \A k \in 1 .. n - d + 1 : p[k] = Part(d + k, ms[d + k])
         /\ Front(p) = Whole(ms, d + 1, n) /\ Last(p) = Part(n + 1, ms[n + 1])
         /\ Len(Whole(ms, d + 1, n)) = n - d
         /\ Chars(Whole(ms, d + 1, n)) = Sums(ms)[n] - Sums(ms)[d]
  <1>1. n \in Nat /\ d \in Nat /\ d <= n /\ n + 1 <= Len(ms) /\ Len(ms) \in Nat
    BY DEF ChatForm
  <1>2. PICK y, w, one : y = d + 1 /\ w = Whole(ms, y, n) /\ one = Part(n + 1, ms[n + 1])
    OBVIOUS
  <1>3. /\ w \in Seq(Parts) /\ Len(w) = n + 1 - y
        /\ \A k \in 1 .. n + 1 - y : w[k] = Part(y + k - 1, ms[y + k - 1])
        /\ Chars(w) = Sums(ms)[n] - Sums(ms)[y - 1]
    <2>1. y \in 1 .. Len(ms) + 1 /\ n \in y - 1 .. Len(ms)
      BY <1>1, <1>2
    <2>2. QED
      BY <1>2, <2>1, WholeIs
  <1>4. Len(w) = n - d /\ y - 1 = d /\ n + 1 - y = n - d
    BY <1>1, <1>2, <1>3
  <1>5. one \in Parts
    <2>1. n + 1 \in 1 .. Len(ms)
      BY <1>1
    <2>2. ms[n + 1] \in Nat /\ n + 1 \in Nat
      BY <1>1, <2>1, ElementOfSeq
    <2>3. QED
      BY <1>2, <2>2 DEF Part, Parts
  <1>6. p = Append(w, one)
    BY <1>2 DEF ChatForm
  <1>7. /\ p \in Seq(Parts) /\ Len(p) = Len(w) + 1
        /\ \A k \in 1 .. Len(w) : p[k] = w[k]
        /\ p[Len(w) + 1] = one
    BY <1>3, <1>5, <1>6, AppendProperties
  <1>8. Len(p) = n - d + 1
    BY <1>4, <1>7
  <1>9. ASSUME NEW k \in 1 .. n - d + 1 PROVE p[k] = Part(d + k, ms[d + k])
    <2>1. CASE k = n - d + 1
      <3>1. d + k = n + 1 /\ k = Len(w) + 1
        BY <1>1, <1>4, <2>1
      <3>2. QED
        BY <1>2, <1>7, <3>1
    <2>2. CASE k # n - d + 1
      <3>1. k \in 1 .. n - d /\ y + k - 1 = d + k
        BY <1>1, <1>2, <2>2
      <3>2. p[k] = w[k] /\ w[k] = Part(y + k - 1, ms[y + k - 1])
        BY <1>3, <1>4, <1>7, <3>1
      <3>3. QED
        BY <3>1, <3>2
    <2>3. QED
      BY <2>1, <2>2
  <1>10. Front(p) = w
    <2>1. PICK l : l = Len(p) - 1
      OBVIOUS
    <2>2. l \in Nat /\ l \in Int /\ 1 \in Int /\ l = Len(w) /\ l <= Len(p)
      BY <1>1, <1>4, <1>8, <2>1
    <2>3. \A k \in 1 .. l : p[k] \in Parts
      <3>1. \A k \in 1 .. l : k \in 1 .. Len(p)
        BY <1>7, <2>2
      <3>2. QED
        BY <1>7, <3>1, ElementOfSeq
    <2>4. PICK u : u = SubSeq(p, 1, l)
      OBVIOUS
    <2>5. /\ u \in Seq(Parts)
          /\ Len(u) = IF 1 <= l THEN l - 1 + 1 ELSE 0
          /\ \A k \in 1 .. l - 1 + 1 : u[k] = p[1 + k - 1]
      BY <2>2, <2>3, <2>4, SubSeqProperties
    <2>6. Len(u) = Len(w)
      BY <2>2, <2>5
    <2>7. ASSUME NEW k \in 1 .. Len(u) PROVE u[k] = w[k]
      <3>1. k \in 1 .. l - 1 + 1 /\ 1 + k - 1 = k /\ k \in 1 .. Len(w)
        BY <2>2, <2>6
      <3>2. QED
        BY <1>7, <2>5, <3>1
    <2>8. u = w
      BY <1>3, <2>5, <2>6, <2>7, SeqEqual
    <2>9. QED
      BY <2>1, <2>4, <2>8 DEF Front
  <1>11. Last(p) = one
    BY <1>4, <1>7, <1>8 DEF Last
  <1>12. QED
    BY <1>1, <1>2, <1>3, <1>4, <1>7, <1>8, <1>9, <1>10, <1>11

\* The prompt of the next turn.
LEMMA ChatFormIs ==
  ASSUME NEW h \in Seq(Nat), Len(h) % 2 = 0, NEW asked \in Nat, NEW answer \in Nat,
         NEW more, more = h \o <<asked, answer>>,
         NEW p, p = Append(Recent(h), Part(Len(h) + 1, asked))
  PROVE  /\ more \in Seq(Nat) /\ Len(more) = Len(h) + 2
         /\ \A k \in 1 .. Len(h) : h[k] = more[k]
         /\ \E d : ChatForm(more, Len(h), d, p)
  <1>1. PICK n, new : n = Len(h) /\ new = <<asked, answer>>
    OBVIOUS
  <1>2. n \in Nat /\ new \in Seq(Nat) /\ Len(new) = 2 /\ new[1] = asked
    BY <1>1
  <1>3. /\ more \in Seq(Nat) /\ Len(more) = n + 2
        /\ \A k \in 1 .. n + 2 : more[k] = IF k <= n THEN h[k] ELSE new[k - n]
    BY <1>1, <1>2, ConcatProperties
  <1>4. ASSUME NEW k \in 1 .. n PROVE h[k] = more[k]
    <2>1. k \in 1 .. n + 2 /\ k <= n
      BY <1>2
    <2>2. more[k] = IF k <= n THEN h[k] ELSE new[k - n]
      BY <1>3, <2>1
    <2>3. QED
      BY <2>1, <2>2
  <1>5. more[n + 1] = asked
    <2>1. PICK y : y = n + 1
      OBVIOUS
    <2>2. y \in 1 .. n + 2 /\ ~(y <= n) /\ y - n = 1
      BY <1>2, <2>1
    <2>3. more[y] = IF y <= n THEN h[y] ELSE new[y - n]
      BY <1>3, <2>2
    <2>4. QED
      BY <1>2, <2>1, <2>2, <2>3
  <1>6. /\ \A k \in 0 .. n : Sums(more)[k] = Sums(h)[k]
        /\ \A i \in 1 .. n + 1 : \A j \in i - 1 .. n : Whole(more, i, j) = Whole(h, i, j)
    <2>1. Len(h) <= Len(more)
      BY <1>1, <1>2, <1>3
    <2>2. QED
      BY <1>1, <1>3, <1>4, <2>1, WholeStays
  <1>7. PICK d \in 0 .. n :
          /\ d % 2 = 0
          /\ Recent(h) = Whole(h, d + 1, n)
          /\ n - d <= ChatMessages
          /\ Sums(h)[n] - Sums(h)[d] <= ChatChars
          /\ \/ d = 0
             \/ n - d = ChatMessages
             \/ d >= 2 /\ Sums(h)[n] - Sums(h)[d - 2] > ChatChars
    BY <1>1, RecentIs
  <1>8. Whole(more, d + 1, n) = Whole(h, d + 1, n)
    <2>1. PICK y : y = d + 1
      OBVIOUS
    <2>2. y \in 1 .. n + 1 /\ n \in y - 1 .. n
      BY <1>2, <2>1
    <2>3. QED
      BY <1>6, <2>1, <2>2
  <1>9. Sums(more)[n] = Sums(h)[n] /\ Sums(more)[d] = Sums(h)[d]
    <2>1. n \in 0 .. n /\ d \in 0 .. n
      BY <1>2
    <2>2. QED
      BY <1>6, <2>1
  <1>10. d >= 2 => Sums(more)[d - 2] = Sums(h)[d - 2]
    <2>1. d >= 2 => d - 2 \in 0 .. n
      BY <1>2
    <2>2. QED
      BY <1>6, <2>1
  <1>11. p = Append(Whole(more, d + 1, n), Part(n + 1, more[n + 1]))
    BY <1>1, <1>5, <1>7, <1>8
  <1>12. n \in 0 .. Len(more) - 1 /\ n % 2 = 0
    BY <1>1, <1>2, <1>3
  <1>13. ChatForm(more, n, d, p)
    BY <1>7, <1>9, <1>10, <1>11, <1>12 DEF ChatForm
  <1>14. QED
    BY <1>1, <1>3, <1>4, <1>13

\* A prompt stays what it was as the conversation goes on.
LEMMA ChatStays ==
  ASSUME NEW ms \in Seq(Nat), NEW more \in Seq(Nat), Len(ms) <= Len(more),
         \A k \in 1 .. Len(ms) : ms[k] = more[k],
         NEW n, NEW d, NEW p, ChatForm(ms, n, d, p)
  PROVE  ChatForm(more, n, d, p)
  <1>1. /\ \A k \in 0 .. Len(ms) : Sums(more)[k] = Sums(ms)[k]
        /\ \A i \in 1 .. Len(ms) + 1 : \A j \in i - 1 .. Len(ms) : Whole(more, i, j) = Whole(ms, i, j)
    BY WholeStays
  <1>2. n \in 0 .. Len(ms) - 1 /\ d \in 0 .. n /\ Len(ms) \in Nat /\ Len(more) \in Nat
    <2>1. n \in 0 .. Len(ms) - 1 /\ d \in 0 .. n
      BY Zenon DEF ChatForm
    <2>2. QED
      BY <2>1
  <1>3. Whole(more, d + 1, n) = Whole(ms, d + 1, n)
    <2>1. PICK y : y = d + 1
      OBVIOUS
    <2>2. y \in 1 .. Len(ms) + 1 /\ n \in y - 1 .. Len(ms)
      BY <1>2, <2>1
    <2>3. QED
      BY <1>1, <2>1, <2>2
  <1>4. Sums(more)[n] = Sums(ms)[n] /\ Sums(more)[d] = Sums(ms)[d]
    BY <1>1, <1>2
  <1>5. d >= 2 => Sums(more)[d - 2] = Sums(ms)[d - 2]
    <2>1. d >= 2 => d - 2 \in 0 .. Len(ms)
      BY <1>2
    <2>2. QED
      BY <1>1, <2>1
  <1>6. ms[n + 1] = more[n + 1]
    BY <1>2
  <1>7. n \in 0 .. Len(more) - 1
    BY <1>2
  <1>8. QED
    BY <1>3, <1>4, <1>5, <1>6, <1>7 DEF ChatForm

LEMMA ChatFits ==
  ASSUME NEW ms \in Seq(Nat), NEW n, NEW d, NEW p, ChatForm(ms, n, d, p),
         NEW window, window = Front(p), NEW l, l = Last(p).nr - 1
  PROVE  /\ Last(p).chars = ms[l + 1]
         /\ Chars(window) <= ChatChars /\ Len(window) <= ChatMessages
         /\ window = Whole(ms, l + 1 - Len(window), l)
         /\ Len(window) % 2 = 0
         /\ Len(window) = l \/ Len(window) = ChatMessages
            \/ Chars(Whole(ms, l - 1 - Len(window), l)) > ChatChars
  <1>1. /\ n \in Nat /\ d \in Nat /\ d <= n /\ n + 1 <= Len(ms) /\ Len(ms) \in Nat
        /\ window = Whole(ms, d + 1, n) /\ Last(p) = Part(n + 1, ms[n + 1])
        /\ Len(window) = n - d
        /\ Chars(window) = Sums(ms)[n] - Sums(ms)[d]
    BY ChatPartsAre
  <1>2. Last(p).nr = n + 1 /\ Last(p).chars = ms[n + 1]
    BY <1>1 DEF Part
  <1>3. l = n
    BY <1>1, <1>2
  <1>4. /\ n % 2 = 0 /\ d % 2 = 0 /\ n - d <= ChatMessages
        /\ Sums(ms)[n] - Sums(ms)[d] <= ChatChars
        /\ d = 0 \/ n - d = ChatMessages
           \/ (d >= 2 /\ Sums(ms)[n] - Sums(ms)[d - 2] > ChatChars)
    BY DEF ChatForm
  <1>5. PICK m : m = Len(window)
    OBVIOUS
  <1>6. m = n - d /\ m % 2 = 0 /\ l + 1 - m = d + 1 /\ l - 1 - m = d - 1 /\ (d = 0 => m = l)
    <2>1. m = n - d
      BY <1>1, <1>5
    <2>2. n \in Nat /\ d \in Nat /\ d <= n /\ n % 2 = 0 /\ d % 2 = 0
      BY <1>1, <1>4
    <2>3. (n - d) % 2 = 0
      BY <2>2
    <2>4. QED
      BY <1>3, <2>1, <2>2, <2>3
  <1>7. d >= 2 => Chars(Whole(ms, d - 1, n)) = Sums(ms)[n] - Sums(ms)[d - 2]
    <2>1. SUFFICES ASSUME d >= 2
                   PROVE  Chars(Whole(ms, d - 1, n)) = Sums(ms)[n] - Sums(ms)[d - 2]
      OBVIOUS
    <2>2. PICK y : y = d - 1
      OBVIOUS
    <2>3. y \in 1 .. Len(ms) + 1 /\ n \in y - 1 .. Len(ms) /\ y - 1 = d - 2
      BY <1>1, <2>1, <2>2
    <2>4. Chars(Whole(ms, y, n)) = Sums(ms)[n] - Sums(ms)[y - 1]
      BY <2>3, WholeIs
    <2>5. QED
      BY <2>2, <2>3, <2>4
  <1>8. m = l \/ m = ChatMessages \/ Chars(Whole(ms, l - 1 - m, l)) > ChatChars
    <2>1. CASE d = 0
      BY <1>6, <2>1
    <2>2. CASE n - d = ChatMessages
      BY <1>6, <2>2
    <2>3. CASE d >= 2 /\ Sums(ms)[n] - Sums(ms)[d - 2] > ChatChars
      <3>1. Chars(Whole(ms, d - 1, n)) > ChatChars
        BY <1>7, <2>3
      <3>2. QED
        BY <1>3, <1>6, <3>1
    <2>4. QED
      BY <1>4, <2>1, <2>2, <2>3
  <1>9. window = Whole(ms, l + 1 - m, l)
    BY <1>1, <1>3, <1>6
  <1>10. Chars(window) <= ChatChars /\ m <= ChatMessages /\ Last(p).chars = ms[l + 1]
    BY <1>1, <1>2, <1>3, <1>4, <1>6
  <1>11. QED
    BY <1>5, <1>6, <1>8, <1>9, <1>10

\* A later prompt begins no earlier.
LEMMA ChatBeginsLater ==
  ASSUME NEW ms \in Seq(Nat), NEW n, NEW d, NEW p, ChatForm(ms, n, d, p),
         NEW n2, NEW d2, NEW q, ChatForm(ms, n2, d2, q), n < n2
  PROVE  d <= d2
  <1>1. /\ n \in Nat /\ d \in Nat /\ d <= n /\ n2 \in Nat /\ d2 \in Nat /\ d2 <= n2
        /\ n <= Len(ms) /\ n2 <= Len(ms) /\ Len(ms) \in Nat
    <2>1. n \in Nat /\ d \in Nat /\ d <= n /\ n + 1 <= Len(ms)
      BY ChatPartsAre
    <2>2. n2 \in Nat /\ d2 \in Nat /\ d2 <= n2 /\ n2 + 1 <= Len(ms)
      BY ChatPartsAre
    <2>3. Len(ms) \in Nat
      OBVIOUS
    <2>4. QED
      BY <2>1, <2>2, <2>3
  <1>2. d % 2 = 0 /\ d2 % 2 = 0 /\ n2 - d2 <= ChatMessages
    BY DEF ChatForm
  <1>3. Sums(ms)[n2] - Sums(ms)[d2] <= ChatChars
    BY DEF ChatForm
  <1>4. SUFFICES ASSUME ~(d <= d2) PROVE FALSE
    OBVIOUS
  <1>5. d # 0 /\ d2 <= d - 2 /\ d >= 2
    <2>1. d \in Nat /\ d2 \in Nat /\ d2 < d
      BY <1>1, <1>4
    <2>2. d # d2 + 1
      BY <1>2, <2>1
    <2>3. QED
      BY <2>1, <2>2
  <1>6. n - d # ChatMessages
    BY <1>1, <1>2, <1>5, LengthsAssumption
  <1>7. Sums(ms)[n] - Sums(ms)[d - 2] > ChatChars
    BY <1>5, <1>6 DEF ChatForm
  <1>8. PICK a, b, e, f, y : /\ y = d - 2 /\ a = Sums(ms)[n] /\ b = Sums(ms)[y]
                             /\ e = Sums(ms)[n2] /\ f = Sums(ms)[d2]
    OBVIOUS
  <1>9. /\ n \in 0 .. Len(ms) /\ n2 \in n .. Len(ms) /\ n2 \in 0 .. Len(ms)
        /\ d2 \in 0 .. Len(ms) /\ y \in d2 .. Len(ms) /\ y \in 0 .. Len(ms)
    BY <1>1, <1>5, <1>8
  <1>10. a <= e /\ f <= b
    BY <1>8, <1>9, SumsGrow
  <1>11. a \in Nat /\ b \in Nat /\ e \in Nat /\ f \in Nat
    BY <1>8, <1>9, SumsAre
  <1>12. a - b > ChatChars /\ e - f <= ChatChars
    BY <1>3, <1>7, <1>8
  <1>13. QED
    BY <1>10, <1>11, <1>12, LengthsAssumption

\* What is not in a chat's prompt is in no later one.
LEMMA ChatForgets ==
  ASSUME NEW ms \in Seq(Nat), NEW n, NEW d, NEW p, ChatForm(ms, n, d, p),
         NEW more \in Seq(Nat), NEW n2, NEW d2, NEW q, ChatForm(more, n2, d2, q),
         n <= n2, d <= d2,
         NEW i \in 1 .. n, i \notin ShownWhole(p, ms)
  PROVE  i \notin Shown(q)
  <1>1. /\ n \in Nat /\ d \in Nat /\ d <= n
        /\ p \in Seq(Parts) /\ Len(p) = n - d + 1
        /\ \A k \in 1 .. n - d + 1 : p[k] = Part(d + k, ms[d + k])
    BY ChatPartsAre
  <1>2. /\ n2 \in Nat /\ d2 \in Nat /\ d2 <= n2
        /\ q \in Seq(Parts) /\ Len(q) = n2 - d2 + 1
        /\ \A k \in 1 .. n2 - d2 + 1 : q[k] = Part(d2 + k, more[d2 + k])
    BY ChatPartsAre
  <1>3. DOMAIN p = 1 .. Len(p) /\ DOMAIN q = 1 .. Len(q)
    BY <1>1, <1>2
  <1>4. i <= d
    <2>1. SUFFICES ASSUME ~(i <= d) PROVE FALSE
      BY <1>1
    <2>2. PICK k : k = i - d
      OBVIOUS
    <2>3. k \in 1 .. n - d + 1 /\ d + k = i
      BY <1>1, <2>1, <2>2
    <2>4. p[k] = Part(i, ms[i]) /\ p[k] \in Range(p)
      BY <1>1, <1>3, <2>3 DEF Range
    <2>5. p[k].nr = i /\ p[k].chars = ms[i]
      BY <2>4 DEF Part
    <2>6. i \in ShownWhole(p, ms)
      BY <2>4, <2>5 DEF ShownWhole
    <2>7. QED
      BY <2>6
  <1>5. SUFFICES ASSUME NEW k \in 1 .. Len(q), q[k].nr = i PROVE FALSE
    BY <1>3 DEF Shown, Range
  <1>6. q[k].nr = d2 + k
    <2>1. k \in 1 .. n2 - d2 + 1
      BY <1>2
    <2>2. q[k] = Part(d2 + k, more[d2 + k])
      BY <1>2, <2>1
    <2>3. QED
      BY <2>2 DEF Part
  <1>7. QED
    BY <1>1, <1>2, <1>4, <1>5, <1>6

----------------------------------------------------------------------------
(* The inductive invariant of Prompt: the prompt has the form that the     *)
(* list of messages, or what it was when a turn was asked, gives it.       *)

PromptInv ==
  /\ user \in {"agent", "chat"} /\ messages \in Seq(Nat)
  /\ user = "agent" => Len(messages) >= 2 /\ (~overflow => AgentForm(messages, prompt))
  /\ user = "chat" =>
       /\ Len(messages) % 2 = 0
       /\ prompt = <<>> \/ \E n, d : ChatForm(messages, n, d, prompt)

LEMMA PromptInvInit == PromptInit => PromptInv
  <1>1. SUFFICES ASSUME PromptInit PROVE PromptInv
    OBVIOUS
  <1>2. Lengths \subseteq Nat
    BY LengthsAssumption
  <1>3. CASE user = "agent"
    <2>1. messages \in [1 .. 2 -> Nat]
      BY <1>1, <1>2, <1>3 DEF PromptInit, Anchors
    <2>2. messages \in Seq(Nat) /\ Len(messages) = 2
      <3>1. PICK n : n = 2
        OBVIOUS
      <3>2. n \in Nat /\ messages \in [1 .. n -> Nat]
        BY <2>1, <3>1
      <3>3. messages \in Seq(Nat) /\ Len(messages) = n
        BY <3>2
      <3>4. QED
        BY <3>1, <3>3
    <2>3. (~overflow => ~TooLong(messages)) /\ (~overflow => prompt = Bounded(messages))
      <3>1. overflow = (user = "agent" /\ TooLong(messages))
        BY <1>1, Zenon DEF PromptInit
      <3>2. overflow <=> TooLong(messages)
        BY <1>3, <3>1, Zenon
      <3>3. prompt = IF user = "agent" /\ ~overflow THEN Bounded(messages) ELSE <<>>
        BY <1>1, Zenon DEF PromptInit
      <3>4. ~overflow => prompt = Bounded(messages)
        BY <1>3, <3>3, Zenon
      <3>5. QED
        BY <3>2, <3>4, Zenon
    <2>4. ~overflow => AgentForm(messages, prompt)
      <3>1. Len(messages) >= 2 /\ messages \in Seq(Nat)
        BY <2>2
      <3>2. ~TooLong(messages) => AgentForm(messages, Bounded(messages))
        BY <3>1, BoundedIs
      <3>3. QED
        BY <2>3, <3>2, Zenon
    <2>5. Len(messages) >= 2
      BY <2>2
    <2>6. QED
      BY <1>3, <2>2, <2>4, <2>5 DEF PromptInv
  <1>4. CASE user = "chat"
    <2>1. messages = <<>> /\ prompt = <<>>
      BY <1>1, <1>4 DEF PromptInit
    <2>2. messages \in Seq(Nat) /\ Len(messages) % 2 = 0
      BY <2>1
    <2>3. QED
      BY <1>4, <2>1, <2>2 DEF PromptInv
  <1>5. QED
    BY <1>1, <1>3, <1>4 DEF PromptInit

\* A step adds to the list.
LEMMA AgentAdds ==
  ASSUME PromptInv, NEW new \in SeqOf(Lengths, 2), new # <<>>, AgentContinues(new)
  PROVE  /\ messages' \in Seq(Nat) /\ Len(messages) < Len(messages')
         /\ \A k \in 1 .. Len(messages) : messages[k] = messages'[k]
  <1>1. Lengths \subseteq Nat
    BY LengthsAssumption
  <1>2. PICK m \in 0 .. 2 : new \in [1 .. m -> Lengths]
    BY DEF SeqOf
  <1>3. new \in [1 .. m -> Nat]
    BY <1>1, <1>2
  <1>4. new \in Seq(Nat) /\ Len(new) = m
    BY <1>3
  <1>5. m # 0
    <2>1. SUFFICES ASSUME m = 0 PROVE FALSE
      OBVIOUS
    <2>2. new = <<>>
      BY <1>4, <2>1, EmptySeq
    <2>3. QED
      BY <2>2
  <1>6. messages \in Seq(Nat) /\ Len(messages) \in Nat
    BY DEF PromptInv
  <1>7. PICK n, more : n = Len(messages) /\ more = messages'
    OBVIOUS
  <1>8. /\ more \in Seq(Nat) /\ Len(more) = n + m
        /\ \A k \in 1 .. n + m : more[k] = IF k <= n THEN messages[k] ELSE new[k - n]
    <2>1. more = messages \o new
      BY <1>7 DEF AgentContinues
    <2>2. QED
      BY <1>4, <1>6, <1>7, <2>1, ConcatProperties
  <1>9. ASSUME NEW k \in 1 .. n PROVE messages[k] = more[k]
    <2>1. k \in 1 .. n + m /\ k <= n
      BY <1>6, <1>7
    <2>2. QED
      BY <1>8, <2>1
  <1>10. n < Len(more)
    BY <1>5, <1>6, <1>7, <1>8
  <1>11. QED
    BY <1>7, <1>8, <1>9, <1>10

LEMMA ChatAdds ==
  ASSUME PromptInv, NEW asked \in Lengths, NEW answer \in Lengths, Exchange(asked, answer)
  PROVE  /\ messages' \in Seq(Nat) /\ Len(messages') = Len(messages) + 2
         /\ \A k \in 1 .. Len(messages) : messages[k] = messages'[k]
         /\ Len(messages) % 2 = 0 /\ Len(messages') % 2 = 0
  <1>1. asked \in Nat /\ answer \in Nat
    BY LengthsAssumption
  <1>2. messages \in Seq(Nat) /\ Len(messages) \in Nat /\ Len(messages) % 2 = 0
    <2>1. user = "chat"
      BY DEF Exchange
    <2>2. messages \in Seq(Nat) /\ Len(messages) % 2 = 0
      BY <2>1, Zenon DEF PromptInv
    <2>3. QED
      BY <2>2
  <1>3. messages' = messages \o <<asked, answer>>
    BY DEF Exchange
  <1>4. /\ messages' \in Seq(Nat) /\ Len(messages') = Len(messages) + 2
        /\ \A k \in 1 .. Len(messages) : messages[k] = messages'[k]
    <2>1. PICK p : p = Append(Recent(messages), Part(Len(messages) + 1, asked))
      OBVIOUS
    <2>2. QED
      BY <1>1, <1>2, <1>3, <2>1, ChatFormIs
  <1>5. QED
    BY <1>2, <1>4

LEMMA PromptInvStep == PromptInv /\ [PromptNext]_promptVars => PromptInv'
  <1>1. SUFFICES ASSUME PromptInv, [PromptNext]_promptVars PROVE PromptInv'
    OBVIOUS
  <1>2. ASSUME NEW new \in SeqOf(Lengths, 2), new # <<>>, AgentContinues(new)
        PROVE  PromptInv'
    <2>1. user = "agent" /\ user' = "agent" /\ Len(messages) >= 2
      BY <1>1, <1>2 DEF AgentContinues, PromptInv
    <2>2. messages' \in Seq(Nat) /\ Len(messages) < Len(messages') /\ messages \in Seq(Nat)
      BY <1>1, <1>2, AgentAdds DEF PromptInv
    <2>3. Len(messages') >= 2
      BY <2>1, <2>2
    <2>4. overflow' = TooLong(messages') /\ (~overflow' => prompt' = Bounded(messages'))
      BY <1>2 DEF AgentContinues
    <2>5. ~overflow' => AgentForm(messages', prompt')
      BY <2>2, <2>3, <2>4, BoundedIs
    <2>6. QED
      BY <2>1, <2>2, <2>3, <2>5 DEF PromptInv
  <1>3. ASSUME NEW asked \in Lengths, NEW answer \in Lengths, ChatContinues(asked, answer)
        PROVE  PromptInv'
    <2>1. Exchange(asked, answer) /\ user = "chat" /\ user' = "chat"
      BY <1>3 DEF ChatContinues, Exchange
    <2>2. /\ messages' \in Seq(Nat) /\ Len(messages) % 2 = 0 /\ Len(messages') % 2 = 0
          /\ messages \in Seq(Nat)
      BY <1>1, <2>1, ChatAdds DEF PromptInv
    <2>3. \E d : ChatForm(messages', Len(messages), d, prompt')
      <3>1. asked \in Nat /\ answer \in Nat
        BY LengthsAssumption
      <3>2. /\ messages' = messages \o <<asked, answer>>
            /\ prompt' = Append(Recent(messages), Part(Len(messages) + 1, asked))
        BY <1>3 DEF ChatContinues, Exchange
      <3>3. QED
        BY <2>2, <3>1, <3>2, ChatFormIs
    <2>4. QED
      BY <2>1, <2>2, <2>3 DEF PromptInv
  <1>4. ASSUME NEW asked \in Lengths, NEW answer \in Lengths, AnsweredElsewhere(asked, answer)
        PROVE  PromptInv'
    <2>1. Exchange(asked, answer) /\ user = "chat" /\ user' = "chat" /\ prompt' = prompt
      BY <1>4 DEF AnsweredElsewhere, Exchange
    <2>2. /\ messages' \in Seq(Nat) /\ Len(messages') % 2 = 0 /\ messages \in Seq(Nat)
          /\ Len(messages') = Len(messages) + 2
          /\ \A k \in 1 .. Len(messages) : messages[k] = messages'[k]
      BY <1>1, <2>1, ChatAdds DEF PromptInv
    <2>3. Len(messages) <= Len(messages')
      BY <2>2
    <2>4. prompt' = <<>> \/ \E n, d : ChatForm(messages', n, d, prompt')
      <3>1. CASE prompt = <<>>
        BY <2>1, <3>1
      <3>2. CASE \E n, d : ChatForm(messages, n, d, prompt)
        <4>1. PICK n, d : ChatForm(messages, n, d, prompt)
          BY <3>2
        <4>2. ChatForm(messages', n, d, prompt)
          BY <2>2, <2>3, <4>1, ChatStays
        <4>3. QED
          BY <2>1, <4>2
      <3>3. QED
        BY <1>1, <2>1, <3>1, <3>2 DEF PromptInv
    <2>5. QED
      BY <2>1, <2>2, <2>4 DEF PromptInv
  <1>5. CASE UNCHANGED promptVars
    BY <1>1, <1>5 DEF promptVars, PromptInv
  <1>6. QED
    BY <1>1, <1>2, <1>3, <1>4, <1>5 DEF PromptNext

\* Whatever is asked and however it goes on, the prompt has that form.
THEOREM PromptInvariant == PromptSpec => []PromptInv
  <1>1. QED
    BY PromptInvInit, PromptInvStep, PTL DEF PromptSpec

LEMMA FormFits == PromptInv => PromptFits
  <1>1. SUFFICES ASSUME PromptInv PROVE AgentPrompt /\ ChatPrompt
    BY DEF PromptFits
  <1>2. AgentPrompt
    <2>1. SUFFICES ASSUME user = "agent", ~overflow
                   PROVE  /\ Chars(prompt) <= PromptChars
                          /\ SubSeq(prompt, 1, Anchors) = Whole(messages, 1, Anchors)
                          /\ Last(prompt).nr = Len(messages)
                          /\ \A k \in Anchors + 2 .. Len(prompt) :
                               prompt[k].nr = prompt[k - 1].nr + 1
                          /\ \A k \in DOMAIN prompt :
                               \/ prompt[k].chars = messages[prompt[k].nr]
                               \/ /\ k = Len(prompt) /\ k = Anchors + 1
                                  /\ prompt[k].chars < messages[Len(messages)]
      BY DEF AgentPrompt
    <2>2. AgentForm(messages, prompt)
      BY <1>1, <2>1 DEF PromptInv
    <2>3. Chars(prompt) <= PromptChars
      BY <2>2 DEF AgentForm
    <2>4. QED
      BY <2>2, <2>3, AgentFits
  <1>3. ChatPrompt
    <2>1. PICK window, l : window = Front(prompt) /\ l = Last(prompt).nr - 1
      OBVIOUS
    <2>2. SUFFICES ASSUME user = "chat", prompt # <<>>
                   PROVE  /\ Last(prompt).chars = messages[l + 1]
                          /\ Chars(window) <= ChatChars /\ Len(window) <= ChatMessages
                          /\ window = Whole(messages, l + 1 - Len(window), l)
                          /\ Len(window) % 2 = 0
                          /\ Len(window) = l \/ Len(window) = ChatMessages
                             \/ Chars(Whole(messages, l - 1 - Len(window), l)) > ChatChars
      BY <2>1 DEF ChatPrompt
    <2>3. messages \in Seq(Nat) /\ \E n, d : ChatForm(messages, n, d, prompt)
      BY <1>1, <2>2 DEF PromptInv
    <2>4. QED
      BY <2>1, <2>3, ChatFits
  <1>4. QED
    BY <1>2, <1>3

\* An agent's prompt stays within its limit with the request and the newest message in
\* it, and a chat's with as many whole exchanges as fit: for lists of any length, and
\* messages of any lengths.
THEOREM PromptsFit == PromptSpec => []PromptFits
  <1>1. QED
    BY PromptInvariant, FormFits, PTL

LEMMA StepForgets ==
  ASSUME PromptInv, PromptNext,
         NEW i \in DOMAIN messages,
         i \notin ShownWhole(prompt, messages),
         user = "agent" \/ (prompt # <<>> /\ i < Last(prompt).nr)
  PROVE  i \notin Shown(prompt')
  <1>1. messages \in Seq(Nat) /\ i \in 1 .. Len(messages) /\ Len(messages) \in Nat
    BY DEF PromptInv
  <1>2. ASSUME NEW new \in SeqOf(Lengths, 2), new # <<>>, AgentContinues(new)
        PROVE  i \notin Shown(prompt')
    <2>1. Len(messages) >= 2 /\ AgentForm(messages, prompt)
      BY <1>2 DEF PromptInv, AgentContinues
    <2>2. /\ messages' \in Seq(Nat) /\ Len(messages) < Len(messages')
          /\ \A k \in 1 .. Len(messages) : messages[k] = messages'[k]
      BY <1>2, AgentAdds
    <2>3. CASE TooLong(messages')
      <3>1. 1 \in 1 .. Len(messages) /\ 2 \in 1 .. Len(messages)
        BY <1>1, <2>1
      <3>2. messages[1] = messages'[1] /\ messages[2] = messages'[2]
        BY <2>2, <3>1
      <3>3. i \in ShownWhole(prompt, messages)
        BY <1>1, <2>1, <2>3, <3>2, AgentForgetsNothing
      <3>4. QED
        BY <3>3
    <2>4. CASE ~TooLong(messages')
      <3>1. Len(messages') >= 2 /\ prompt' = Bounded(messages')
        BY <1>1, <1>2, <2>1, <2>2, <2>4 DEF AgentContinues
      <3>2. AgentForm(messages', prompt')
        BY <2>2, <2>4, <3>1, BoundedIs
      <3>3. QED
        BY <1>1, <2>1, <2>2, <3>2, AgentForgets
    <2>5. QED
      BY <2>3, <2>4
  <1>3. ASSUME NEW asked \in Lengths, NEW answer \in Lengths, Exchange(asked, answer)
        PROVE  /\ messages' \in Seq(Nat) /\ Len(messages') = Len(messages) + 2
               /\ \A k \in 1 .. Len(messages) : messages[k] = messages'[k]
               /\ \E n, d : /\ ChatForm(messages, n, d, prompt)
                            /\ ChatForm(messages', n, d, prompt)
                            /\ i \in 1 .. n /\ n < Len(messages)
    <2>1. user = "chat"
      BY <1>3 DEF Exchange
    <2>2. /\ messages' \in Seq(Nat) /\ Len(messages') = Len(messages) + 2
          /\ \A k \in 1 .. Len(messages) : messages[k] = messages'[k]
      BY <1>3, ChatAdds
    <2>3. PICK n, d : ChatForm(messages, n, d, prompt)
      BY <2>1 DEF PromptInv
    <2>4. Len(messages) <= Len(messages')
      BY <1>1, <2>2
    <2>5. ChatForm(messages', n, d, prompt)
      BY <1>1, <2>2, <2>3, <2>4, ChatStays
    <2>6. n \in Nat /\ n + 1 <= Len(messages) /\ Last(prompt) = Part(n + 1, messages[n + 1])
      BY <1>1, <2>3, ChatPartsAre
    <2>7. i < n + 1
      BY <2>1, <2>6 DEF Part
    <2>8. i \in 1 .. n /\ n < Len(messages)
      BY <1>1, <2>6, <2>7
    <2>9. QED
      BY <2>2, <2>3, <2>5, <2>8
  <1>4. ASSUME NEW asked \in Lengths, NEW answer \in Lengths, ChatContinues(asked, answer)
        PROVE  i \notin Shown(prompt')
    <2>1. Exchange(asked, answer)
      BY <1>4 DEF ChatContinues
    <2>2. messages' \in Seq(Nat)
      BY <1>3, <2>1
    <2>3. PICK n, d : /\ ChatForm(messages, n, d, prompt) /\ ChatForm(messages', n, d, prompt)
                      /\ i \in 1 .. n /\ n < Len(messages)
      BY <1>3, <2>1
    <2>4. PICK e : ChatForm(messages', Len(messages), e, prompt')
      <3>1. asked \in Nat /\ answer \in Nat
        BY LengthsAssumption
      <3>2. /\ messages' = messages \o <<asked, answer>>
            /\ prompt' = Append(Recent(messages), Part(Len(messages) + 1, asked))
        BY <1>4 DEF ChatContinues, Exchange
      <3>3. Len(messages) % 2 = 0
        BY <2>1, ChatAdds
      <3>4. QED
        BY <1>1, <3>1, <3>2, <3>3, ChatFormIs
    <2>5. d <= e
      BY <2>2, <2>3, <2>4, ChatBeginsLater
    <2>6. n <= Len(messages)
      BY <1>1, <2>3 DEF ChatForm
    <2>7. QED
      BY <1>1, <2>2, <2>3, <2>4, <2>5, <2>6, ChatForgets
  <1>5. ASSUME NEW asked \in Lengths, NEW answer \in Lengths, AnsweredElsewhere(asked, answer)
        PROVE  i \notin Shown(prompt')
    <2>1. Exchange(asked, answer) /\ prompt' = prompt
      BY <1>5 DEF AnsweredElsewhere
    <2>2. PICK n, d : ChatForm(messages, n, d, prompt) /\ i \in 1 .. n
      BY <1>3, <2>1
    <2>3. n <= n /\ d <= d
      BY <2>2 DEF ChatForm
    <2>4. i \notin Shown(prompt)
      BY <1>1, <2>2, <2>3, ChatForgets
    <2>5. QED
      BY <2>1, <2>4
  <1>6. QED
    BY <1>2, <1>4, <1>5 DEF PromptNext

\* A step of an agent or a turn of a chat shows nothing again that was left out or cut:
\* for lists of any length, and messages of any lengths.
THEOREM ForgottenStaysForgotten == PromptSpec => ForgottenForGood
  <1>1. PromptInv /\ [PromptNext]_promptVars =>
          [\A i \in DOMAIN messages :
             /\ i \notin ShownWhole(prompt, messages)
             /\ user = "agent" \/ (prompt # <<>> /\ i < Last(prompt).nr)
             => i \notin Shown(prompt')]_promptVars
    BY StepForgets
  <1>2. QED
    BY <1>1, PromptInvariant, PTL DEF PromptSpec, ForgottenForGood
=============================================================================
