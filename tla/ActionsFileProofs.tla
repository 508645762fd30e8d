------------------------- MODULE ActionsFileProofs -------------------------
(***************************************************************************)
(* Proofs about the editor of actions files: what it makes of them is a    *)
(* file that can be loaded.  The argument has three parts.  Whether a file *)
(* can be loaded is decided piece by piece (Joined); reading and writing   *)
(* keep it (ReadFacts, WrittenFacts); every edit takes the file apart and  *)
(* puts together what can be loaded (ResultsGood).  EditInv says which     *)
(* thread has which part of it when.                                       *)
(***************************************************************************)
EXTENDS CgiEdit, NaturalsInduction, WellFoundedInduction, SequenceTheorems, TLAPS

-----------------------------------------------------------------------------
(* Recursive functions, by least counterexamples.                          *)

\* The order on the natural numbers, as the theorems on well-founded relations want it.
LEMMA Smaller == \A i, k \in Nat : <<k, i>> \in OpToRel(<, Nat) <=> k < i
  BY DEF OpToRel

\* Every nonempty set of natural numbers has a least element: what stands in for induction.
LEMMA LeastElement ==
  ASSUME NEW S, S \subseteq Nat, S # {}
  PROVE  \E i \in S : \A k \in S : i <= k
<1>1. PICK i \in S : \A k \in S : ~ (<<k, i>> \in OpToRel(<, Nat))
  BY NatLessThanWellFounded, WFMin
<1>2. \A k \in S : ~ (k < i)
  BY <1>1, Smaller
<1> QED
  BY <1>2

\* A step that is a function can be repeated n times.
LEMMA Repeated ==
  \A A : \A b \in A : \A n \in Nat : \A step \in [1..n -> [A -> A]] :
    \E g \in [0..n -> A] : g[0] = b /\ \A i \in 1..n : g[i] = step[i][g[i - 1]]
<1> TAKE A
<1> TAKE b \in A
<1> TAKE n \in Nat
<1> TAKE step \in [1..n -> [A -> A]]
<1> DEFINE Runs(g, k) == g \in [0..k -> A] /\ g[0] = b /\ \A i \in 1..k : g[i] = step[i][g[i - 1]]
           bad == {k \in 0..n : ~ \E g : Runs(g, k)}
<1>1. SUFFICES ASSUME bad # {} PROVE FALSE
  <2>1. ASSUME bad = {} PROVE \E g : Runs(g, n)
    <3>1. n \in 0..n /\ n \notin bad
      BY <2>1
    <3> QED
      BY <3>1
  <2> QED
    BY <2>1
<1>2. PICK k \in bad : \A i \in bad : k <= i
  <2>1. bad \subseteq Nat
    OBVIOUS
  <2> HIDE DEF bad
  <2> QED
    BY <1>1, <2>1, LeastElement
<1>3. CASE k = 0
  <2> DEFINE g == [i \in 0..0 |-> b]
  <2>1. g \in [0..0 -> A] /\ g[0] = b /\ 1..0 = {}
    OBVIOUS
  <2>2. Runs(g, 0)
    BY <2>1
  <2> QED
    BY <1>2, <1>3, <2>2
<1>4. CASE k # 0
  <2>1. k \in 1..n /\ k - 1 \in 0..n /\ ~(k <= k - 1)
    BY <1>2, <1>4
  <2>2. PICK g : Runs(g, k - 1)
    BY <1>2, <2>1
  <2> DEFINE h == [i \in 0..k |-> IF i < k THEN g[i] ELSE step[k][g[k - 1]]]
  <2>3. /\ k - 1 \in 0..(k - 1) /\ \A i \in 0..(k - 1) : i < k /\ i \in 0..k
        /\ \A i \in 0..k : i < k => i \in 0..(k - 1)
        /\ g \in [0..(k - 1) -> A] /\ g[0] = b
        /\ \A i \in 1..(k - 1) : g[i] = step[i][g[i - 1]]
    BY <2>1, <2>2
  <2>4. g[k - 1] \in A /\ step[k][g[k - 1]] \in A
    BY <2>1, <2>3
  <2>5. h \in [0..k -> A]
    BY <2>3, <2>4
  <2>6. h[0] = b
    BY <2>1, <2>3
  <2>7. ASSUME NEW i \in 1..k PROVE h[i] = step[i][h[i - 1]]
    <3>1. h[i - 1] = g[i - 1] /\ i \in 0..k
      BY <2>1, <2>3
    <3>2. CASE i < k
      <4>1. i \in 1..(k - 1) /\ h[i] = g[i]
        BY <2>1, <3>2
      <4> QED
        BY <2>3, <3>1, <4>1
    <3>3. CASE i = k
      BY <3>1, <3>3
    <3> QED
      BY <2>1, <3>2, <3>3
  <2>8. Runs(h, k)
    <3> HIDE DEF h
    <3> QED
      BY <2>5, <2>6, <2>7
  <2> QED
    BY <1>2, <2>8
<1> QED
  BY <1>3, <1>4

\* What holds at first and is kept by every step holds to the end.
LEMMA ToTheEnd ==
  ASSUME NEW n \in Nat, NEW P, P \subseteq 0..n, 0 \in P,
         \A i \in 1..n : i - 1 \in P => i \in P
  PROVE  n \in P
<1> DEFINE bad == (0..n) \ P
<1>1. SUFFICES ASSUME bad # {} PROVE FALSE
  OBVIOUS
<1>2. PICK k \in bad : \A i \in bad : k <= i
  <2>1. bad \subseteq Nat
    OBVIOUS
  <2> HIDE DEF bad
  <2> QED
    BY <1>1, <2>1, LeastElement
<1>3. k \in 1..n /\ k - 1 \in 0..n /\ ~(k <= k - 1)
  BY <1>2
<1> QED
  BY <1>2, <1>3

-----------------------------------------------------------------------------
(* Lines, and what can be loaded.                                          *)

\* Comments, lines in memory.
Comment    == [type: {"comment"}, id: Nat]
MemoryLine == [type: {"blank", "system", "action", "url", "broken"}, id: Nat, prefix: Seq(Comment)]

\* A section begins; nothing of the blocks at the top, and nothing cut.
HasAction(s) == \E i \in DOMAIN s : s[i].type = "action"
NoSystem(s)  == \A i \in DOMAIN s : s[i].type \notin {"system", "broken"}

\* Part of a file decides about the rest by whether it has a section.
LEMMA Joined ==
  ASSUME NEW S, NEW a \in Seq(S), NEW b \in Seq(S)
  PROVE  /\ a \o b \in Seq(S)
         /\ Parses(a \o b) <=> Parses(a) /\ IF HasAction(a) THEN NoSystem(b) ELSE Parses(b)
         /\ HasAction(a \o b) <=> HasAction(a) \/ HasAction(b)
         /\ NoSystem(a \o b) <=> NoSystem(a) /\ NoSystem(b)
<1> DEFINE c == a \o b
           m == Len(a)
           n == Len(b)
<1>1. /\ c \in Seq(S) /\ m \in Nat /\ n \in Nat
      /\ DOMAIN a = 1..m /\ DOMAIN b = 1..n /\ DOMAIN c = 1..(m + n)
      /\ \A i \in 1..m : c[i] = a[i]
      /\ \A i \in 1..n : c[m + i] = b[i]
  OBVIOUS
<1>2. \A i \in 1..(m + n) : i \in 1..m \/ (i - m \in 1..n /\ i = m + (i - m))
  BY <1>1
<1>3. \A i \in 1..n : m + i \in 1..(m + n) /\ m + i \notin 1..m
  BY <1>1
<1> HIDE DEF c, m, n
<1>13. \A i \in 1..(m + n) : (i \in 1..m /\ c[i] = a[i]) \/ (\E k \in 1..n : c[i] = b[k])
  BY <1>1, <1>2
<1>14. /\ \A i \in 1..m : \E k \in 1..(m + n) : c[k] = a[i]
       /\ \A i \in 1..n : \E k \in 1..(m + n) : c[k] = b[i]
  BY <1>1, <1>3
<1>4. HasAction(c) <=> HasAction(a) \/ HasAction(b)
  <2>1. ASSUME HasAction(c) PROVE HasAction(a) \/ HasAction(b)
    BY <1>1, <1>13, <2>1 DEF HasAction
  <2>2. ASSUME HasAction(a) PROVE HasAction(c)
    BY <1>1, <1>14, <2>2 DEF HasAction
  <2>3. ASSUME HasAction(b) PROVE HasAction(c)
    BY <1>1, <1>14, <2>3 DEF HasAction
  <2> QED
    BY <2>1, <2>2, <2>3
<1>5. NoSystem(c) <=> NoSystem(a) /\ NoSystem(b)
  <2>1. ASSUME NoSystem(c) PROVE NoSystem(a) /\ NoSystem(b)
    BY <1>1, <1>14, <2>1 DEF NoSystem
  <2>2. ASSUME NoSystem(a), NoSystem(b) PROVE NoSystem(c)
    BY <1>1, <1>13, <2>2 DEF NoSystem
  <2> QED
    BY <2>1, <2>2
<1>6. \A i \in 1..m : \A j \in 1..i : j \in 1..m /\ j \in 1..(m + n) /\ c[j] = a[j]
  BY <1>1
<1>7. ASSUME Parses(c) PROVE Parses(a)
  <2>1. SUFFICES ASSUME NEW i \in 1..m
                 PROVE  /\ a[i].type # "broken"
                        /\ a[i].type = "system" => \A j \in 1..i : a[j].type # "action"
                        /\ a[i].type = "url" => \E j \in 1..i : a[j].type = "action"
    BY <1>1 DEF Parses
  <2>2. i \in DOMAIN c /\ c[i] = a[i] /\ \A j \in 1..i : c[j] = a[j]
    BY <1>1, <1>6
  <2>3. /\ c[i].type # "broken"
        /\ c[i].type = "system" => \A j \in 1..i : c[j].type # "action"
        /\ c[i].type = "url" => \E j \in 1..i : c[j].type = "action"
    BY <1>7, <2>2 DEF Parses
  <2> QED
    BY <2>2, <2>3
<1>8. ASSUME Parses(c), HasAction(a) PROVE NoSystem(b)
  <2>1. PICK k \in 1..m : a[k].type = "action"
    BY <1>1, <1>8 DEF HasAction
  <2>2. SUFFICES ASSUME NEW i \in 1..n, b[i].type \in {"system", "broken"} PROVE FALSE
    BY <1>1 DEF NoSystem
  <2>3. m + i \in DOMAIN c /\ c[m + i].type \in {"system", "broken"} /\ k \in 1..(m + i) /\ c[k].type = "action"
    BY <1>1, <1>3, <2>1, <2>2
  <2> QED
    BY <1>8, <2>3 DEF Parses
<1>9. ASSUME Parses(c), ~HasAction(a) PROVE Parses(b)
  <2>1. SUFFICES ASSUME NEW i \in 1..n
                 PROVE  /\ b[i].type # "broken"
                        /\ b[i].type = "system" => \A j \in 1..i : b[j].type # "action"
                        /\ b[i].type = "url" => \E j \in 1..i : b[j].type = "action"
    BY <1>1 DEF Parses
  <2>2. m + i \in DOMAIN c /\ c[m + i] = b[i]
    BY <1>1, <1>3
  <2>3. \A j \in 1..i : j \in 1..n /\ m + j \in 1..(m + i) /\ c[m + j] = b[j]
    BY <1>1
  <2>4. b[i].type = "system" => \A j \in 1..i : b[j].type # "action"
    BY <1>9, <2>2, <2>3 DEF Parses
  <2>5. ASSUME b[i].type = "url" PROVE \E j \in 1..i : b[j].type = "action"
    <3>1. PICK k \in 1..(m + i) : c[k].type = "action"
      BY <1>9, <2>2, <2>5 DEF Parses
    <3>2. k \notin 1..m
      BY <1>1, <1>9, <3>1 DEF HasAction
    <3>3. k - m \in 1..i /\ k = m + (k - m)
      BY <1>1, <3>1, <3>2
    <3>4. b[k - m].type = "action"
      BY <2>3, <3>1, <3>3
    <3> QED
      BY <3>3, <3>4
  <2>6. b[i].type # "broken"
    BY <1>9, <2>2 DEF Parses
  <2> QED
    BY <2>4, <2>5, <2>6
<1>10. ASSUME Parses(a), HasAction(a), NoSystem(b) PROVE Parses(c)
  <2>1. PICK k \in 1..m : a[k].type = "action"
    BY <1>1, <1>10 DEF HasAction
  <2>2. SUFFICES ASSUME NEW i \in 1..(m + n)
                 PROVE  /\ c[i].type # "broken"
                        /\ c[i].type = "system" => \A j \in 1..i : c[j].type # "action"
                        /\ c[i].type = "url" => \E j \in 1..i : c[j].type = "action"
    BY <1>1 DEF Parses
  <2>3. CASE i \in 1..m
    BY <1>1, <1>6, <1>10, <2>3 DEF Parses
  <2>4. CASE i \notin 1..m
    <3>1. i - m \in 1..n /\ i = m + (i - m) /\ c[i] = b[i - m]
      BY <1>1, <1>2, <2>4
    <3>2. c[i].type \notin {"system", "broken"}
      BY <1>1, <1>10, <3>1 DEF NoSystem
    <3>3. k \in 1..i /\ c[k].type = "action"
      BY <1>1, <2>1, <3>1
    <3> QED
      BY <3>2, <3>3
  <2> QED
    BY <2>3, <2>4
<1>11. ASSUME Parses(a), ~HasAction(a), Parses(b) PROVE Parses(c)
  <2>2. SUFFICES ASSUME NEW i \in 1..(m + n)
                 PROVE  /\ c[i].type # "broken"
                        /\ c[i].type = "system" => \A j \in 1..i : c[j].type # "action"
                        /\ c[i].type = "url" => \E j \in 1..i : c[j].type = "action"
    BY <1>1 DEF Parses
  <2>3. CASE i \in 1..m
    BY <1>1, <1>6, <1>11, <2>3 DEF Parses
  <2>4. CASE i \notin 1..m
    <3> DEFINE k == i - m
    <3>1. k \in 1..n /\ i = m + k /\ c[i] = b[k]
      BY <1>1, <1>2, <2>4
    <3> HIDE DEF k
    <3>2. \A j \in 1..k : m + j \in 1..i /\ c[m + j] = b[j]
      BY <1>1, <3>1
    <3>3. \A j \in 1..i : j \in 1..m \/ (j - m \in 1..k /\ j = m + (j - m))
      BY <1>1, <3>1
    <3>4. ASSUME b[k].type = "system", NEW j \in 1..i PROVE c[j].type # "action"
      <4>1. CASE j \in 1..m
        BY <1>1, <1>11, <4>1 DEF HasAction
      <4>2. CASE j \notin 1..m
        <5>1. b[j - m].type # "action" /\ c[j] = b[j - m]
          BY <1>1, <1>11, <3>1, <3>2, <3>3, <3>4, <4>2 DEF Parses
        <5> QED
          BY <5>1
      <4> QED
        BY <4>1, <4>2
    <3>5. ASSUME b[k].type = "url" PROVE \E j \in 1..i : c[j].type = "action"
      <4>1. PICK j \in 1..k : b[j].type = "action"
        BY <1>1, <1>11, <3>1, <3>5 DEF Parses
      <4> QED
        BY <3>2, <4>1
    <3>6. b[k].type # "broken"
      BY <1>1, <1>11, <3>1 DEF Parses
    <3> QED
      BY <3>1, <3>4, <3>5, <3>6
  <2> QED
    BY <2>3, <2>4
<1>12. Parses(c) <=> Parses(a) /\ IF HasAction(a) THEN NoSystem(b) ELSE Parses(b)
  BY <1>7, <1>8, <1>9, <1>10, <1>11
<1> QED
  BY <1>1, <1>4, <1>5, <1>12 DEF c

\* One more line.
LEMMA Appended ==
  ASSUME NEW S, NEW a \in Seq(S), NEW x \in S
  PROVE  /\ Append(a, x) \in Seq(S)
         /\ Parses(Append(a, x)) <=> /\ Parses(a) /\ x.type # "broken"
                                     /\ x.type = "system" => ~HasAction(a)
                                     /\ x.type = "url" => HasAction(a)
         /\ HasAction(Append(a, x)) <=> HasAction(a) \/ x.type = "action"
<1> DEFINE b == <<x>>
<1>1. b \in Seq(S) /\ DOMAIN b = 1..1 /\ 1 \in 1..1 /\ \A i \in 1..1 : i = 1 /\ b[i] = x
  OBVIOUS
<1>2. Append(a, x) = a \o b /\ Append(a, x) \in Seq(S)
  OBVIOUS
<1> HIDE DEF b
<1>3. HasAction(b) <=> x.type = "action"
  BY <1>1 DEF HasAction
<1>4. NoSystem(b) <=> x.type \notin {"system", "broken"}
  BY <1>1 DEF NoSystem
<1>5. Parses(b) <=> x.type \notin {"url", "broken"}
  <2>1. \A i \in 1..1 : \A j \in 1..i : j = 1
    OBVIOUS
  <2>2. 1 \in 1..1
    OBVIOUS
  <2>3. ASSUME x.type = "url" PROVE ~Parses(b)
    <3>1. \A j \in 1..1 : b[j].type # "action"
      BY <1>1, <2>3
    <3>2. b[1].type = "url" /\ 1 \in DOMAIN b
      BY <1>1, <2>3
    <3> QED
      BY <3>1, <3>2 DEF Parses
  <2>5. ASSUME x.type = "broken" PROVE ~Parses(b)
    BY <1>1, <2>2, <2>5 DEF Parses
  <2>4. ASSUME x.type \notin {"url", "broken"} PROVE Parses(b)
    <3>1. SUFFICES ASSUME NEW i \in 1..1
                   PROVE  b[i].type = "system" => \A j \in 1..i : b[j].type # "action"
      BY <1>1, <2>4 DEF Parses
    <3>2. \A j \in 1..i : b[j] = b[i]
      BY <1>1, <2>1
    <3> QED
      BY <3>2
  <2> QED
    BY <2>3, <2>4, <2>5
<1>6. /\ Parses(a \o b) <=> Parses(a) /\ IF HasAction(a) THEN NoSystem(b) ELSE Parses(b)
      /\ HasAction(a \o b) <=> HasAction(a) \/ HasAction(b)
  BY <1>1, Joined
<1>7. x.type = "system" => x.type # "url"
  OBVIOUS
<1> QED
  BY <1>2, <1>3, <1>4, <1>5, <1>6, <1>7

\* Comments make no difference.
LEMMA CommentsOnly ==
  ASSUME NEW a \in Seq(Comment)
  PROVE  Parses(a) /\ ~HasAction(a) /\ NoSystem(a)
<1>1. \A i \in DOMAIN a : a[i].type = "comment"
  <2>1. \A i \in DOMAIN a : a[i] \in Comment
    OBVIOUS
  <2> QED
    BY <2>1 DEF Comment
<1> QED
  BY <1>1 DEF Parses, HasAction, NoSystem

\* Nothing at all.
LEMMA NoLines ==
  Parses(<<>>) /\ ~HasAction(<<>>) /\ NoSystem(<<>>) /\ \A S : <<>> \in Seq(S)
<1>1. DOMAIN <<>> = {}
  OBVIOUS
<1>2. \A S : <<>> \in Seq(S)
  OBVIOUS
<1> QED
  BY <1>1, <1>2 DEF Parses, HasAction, NoSystem

\* The beginning of a sequence, line by line.
LEMMA Beginnings ==
  ASSUME NEW S, NEW a \in Seq(S)
  PROVE  /\ SubSeq(a, 1, 0) = <<>> /\ SubSeq(a, 1, Len(a)) = a
         /\ \A i \in 1..Len(a) : /\ SubSeq(a, 1, i - 1) \in Seq(S) /\ a[i] \in S
                                 /\ SubSeq(a, 1, i) = Append(SubSeq(a, 1, i - 1), a[i])
<1>1. SubSeq(a, 1, 0) = <<>> /\ SubSeq(a, 1, Len(a)) = a
  OBVIOUS
<1>2. ASSUME NEW i \in 1..Len(a)
      PROVE  /\ SubSeq(a, 1, i - 1) \in Seq(S) /\ a[i] \in S
             /\ SubSeq(a, 1, i) = Append(SubSeq(a, 1, i - 1), a[i])
  <2>1. i \in Nat /\ i - 1 \in 0..Len(a) /\ i <= Len(a) /\ Len(a) \in Nat
    OBVIOUS
  <2>2. SubSeq(a, 1, i - 1) \in Seq(S) /\ a[i] \in S
    BY <2>1
  <2>3. SubSeq(a, 1, i) = Append(SubSeq(a, 1, i - 1), a[i])
    BY <2>1
  <2> QED
    BY <2>2, <2>3
<1> QED
  BY <1>1, <1>2

\* The recursive functions are what they say.
LEMMA ReadUpto ==
  ASSUME NEW text \in Seq(TextLine)
  PROVE  \E g \in [0..Len(text) -> [lines: Seq(MemoryLine), prefix: Seq(Comment)]] :
           /\ g[0] = [lines |-> <<>>, prefix |-> <<>>]
           /\ \A i \in 1..Len(text) :
                IF text[i].type = "comment"
                THEN g[i].lines = g[i - 1].lines /\ g[i].prefix = Append(g[i - 1].prefix, text[i])
                ELSE /\ g[i].lines = Append(g[i - 1].lines,
                                            Line(text[i].type, text[i].id, g[i - 1].prefix))
                     /\ g[i].prefix = <<>>
           /\ ReadLines(text) = IF g[Len(text)].prefix = <<>> THEN g[Len(text)].lines
                                ELSE Append(g[Len(text)].lines, Line("blank", New, g[Len(text)].prefix))
<1> DEFINE n == Len(text)
           A == [lines: Seq(MemoryLine), prefix: Seq(Comment)]
           start == [lines |-> <<>>, prefix |-> <<>>]
           After(i, acc) ==
             IF text[i].type = "comment" THEN [acc EXCEPT !.prefix = Append(@, text[i])]
             ELSE [lines |-> Append(acc.lines, Line(text[i].type, text[i].id, acc.prefix)), prefix |-> <<>>]
           step == [i \in 1..n |-> [acc \in A |-> After(i, acc)]]
<1>1. n \in Nat /\ \A i \in 1..n : text[i] \in TextLine
  OBVIOUS
<1>2. start \in A
  BY NoLines
<1>3. ASSUME NEW i \in 1..n, NEW acc \in A PROVE After(i, acc) \in A
  <2>1. acc.lines \in Seq(MemoryLine) /\ acc.prefix \in Seq(Comment) /\ text[i] \in TextLine
        /\ acc = [lines |-> acc.lines, prefix |-> acc.prefix]
    BY <1>1, <1>3
  <2>2. CASE text[i].type = "comment"
    <3>1. text[i] \in Comment
      BY <2>1, <2>2 DEF TextLine, Comment
    <3>2. Append(acc.prefix, text[i]) \in Seq(Comment)
      BY <2>1, <3>1
    <3>3. After(i, acc) = [lines |-> acc.lines, prefix |-> Append(acc.prefix, text[i])]
      BY <2>1, <2>2
    <3> QED
      BY <2>1, <3>2, <3>3
  <2>3. CASE text[i].type # "comment"
    <3>1. Line(text[i].type, text[i].id, acc.prefix) \in MemoryLine
      BY <2>1, <2>3 DEF TextLine, MemoryLine, Line
    <3>2. Append(acc.lines, Line(text[i].type, text[i].id, acc.prefix)) \in Seq(MemoryLine)
      BY <2>1, <3>1
    <3> QED
      BY <2>3, <3>2, NoLines
  <2> QED
    BY <2>2, <2>3
<1>4. step \in [1..n -> [A -> A]]
  <2> HIDE DEF After, A
  <2> QED
    BY <1>3
<1>5. PICK g \in [0..n -> A] : g[0] = start /\ \A i \in 1..n : g[i] = step[i][g[i - 1]]
  <2> HIDE DEF n, A, start, After, step
  <2>1. n \in Nat
    BY <1>1
  <2> QED
    BY <1>2, <1>4, <2>1, Repeated
<1>6. \A i \in 1..n : g[i] = After(i, g[i - 1]) /\ g[i - 1] \in A /\ i - 1 \in 0..n
  <2> HIDE DEF After, A, start
  <2>1. \A i \in 1..n : i - 1 \in 0..n
    BY <1>1
  <2> QED
    BY <1>5, <2>1
<1> DEFINE Upto[i \in 0..n] == IF i = 0 THEN start ELSE After(i, Upto[i - 1])
<1>7. Upto = [i \in 0..n |-> IF i = 0 THEN start ELSE After(i, Upto[i - 1])]
  <2> DEFINE IsUpto(f) == f = [i \in 0..n |-> IF i = 0 THEN start ELSE After(i, f[i - 1])]
  <2>1. IsUpto(g)
    <3> DEFINE h == [i \in 0..n |-> IF i = 0 THEN start ELSE After(i, g[i - 1])]
    <3> HIDE DEF After, A, start, n
    <3>1. \A i \in 0..n : h[i] = g[i]
      BY <1>1, <1>5, <1>6
    <3>2. g = h
      BY <1>5, <3>1
    <3> QED
      BY <3>2
  <2>2. Upto = CHOOSE f : IsUpto(f)
    OBVIOUS
  <2> HIDE DEF IsUpto, Upto
  <2>3. IsUpto(Upto)
    BY <2>1, <2>2
  <2> QED
    BY <2>3 DEF IsUpto
<1>8. ReadLines(text) = IF Upto[n].prefix = <<>> THEN Upto[n].lines
                        ELSE Append(Upto[n].lines, Line("blank", New, Upto[n].prefix))
  BY DEF ReadLines
<1> HIDE DEF Upto
<1>9. Upto = g
  <2> DEFINE P == {i \in 0..n : Upto[i] = g[i]}
  <2> HIDE DEF After, A, start, n
  <2>1. 0 \in P /\ P \subseteq 0..n
    BY <1>1, <1>5, <1>7
  <2>2. 1 = 1
    OBVIOUS
  <2>3. \A i \in 1..n : i - 1 \in P => i \in P
    BY <1>1, <1>6, <1>7
  <2>4. ASSUME NEW k \in 0..n PROVE k \in P
    <3>1. 0 \in P \cap (0..k) /\ P \cap (0..k) \subseteq 0..k /\ k \in Nat
      BY <1>1, <2>1
    <3>2. \A i \in 1..k : i - 1 \in P \cap (0..k) => i \in P \cap (0..k)
      BY <1>1, <2>3
    <3> HIDE DEF P
    <3>3. k \in P \cap (0..k)
      BY <3>1, <3>2, ToTheEnd
    <3> QED
      BY <3>3
  <2>5. \A i \in 0..n : Upto[i] = g[i]
    BY <2>4
  <2> QED
    BY <1>5, <1>7, <2>5
<1>10. \A i \in 1..n :
         IF text[i].type = "comment"
         THEN g[i].lines = g[i - 1].lines /\ g[i].prefix = Append(g[i - 1].prefix, text[i])
         ELSE /\ g[i].lines = Append(g[i - 1].lines, Line(text[i].type, text[i].id, g[i - 1].prefix))
              /\ g[i].prefix = <<>>
  <2> TAKE i \in 1..n
  <2>1. g[i] = After(i, g[i - 1]) /\ g[i - 1] \in A
    BY <1>6
  <2> DEFINE acc == g[i - 1]
  <2>2. acc = [lines |-> acc.lines, prefix |-> acc.prefix] /\ g[i] = After(i, acc)
    BY <2>1
  <2> HIDE DEF acc
  <2>3. CASE text[i].type = "comment"
    <3>1. After(i, acc) = [lines |-> acc.lines, prefix |-> Append(acc.prefix, text[i])]
      BY <2>2, <2>3
    <3>2. g[i].lines = acc.lines /\ g[i].prefix = Append(acc.prefix, text[i])
      BY <2>2, <3>1
    <3> QED
      BY <2>3, <3>2 DEF acc
  <2>4. CASE text[i].type # "comment"
    <3>1. After(i, acc) = [lines |-> Append(acc.lines, Line(text[i].type, text[i].id, acc.prefix)), prefix |-> <<>>]
      BY <2>4
    <3>2. g[i].lines = Append(acc.lines, Line(text[i].type, text[i].id, acc.prefix)) /\ g[i].prefix = <<>>
      BY <2>2, <3>1
    <3> QED
      BY <2>4, <3>2 DEF acc
  <2> QED
    BY <2>3, <2>4
<1> HIDE DEF After, step
<1> QED
  BY <1>5, <1>8, <1>9, <1>10

\* A blank line holds the comments at the end.
BlankLast(s) == \A i \in DOMAIN s : s[i].type = "blank" => i = Len(s)

\* What is read is as valid as the file.
LEMMA ReadFacts ==
  ASSUME NEW text \in Seq(TextLine)
  PROVE  /\ ReadLines(text) \in Seq(MemoryLine) /\ BlankLast(ReadLines(text))
         /\ Parses(ReadLines(text)) <=> Parses(text)
<1> DEFINE n == Len(text)
           A == [lines: Seq(MemoryLine), prefix: Seq(Comment)]
<1>1. PICK g \in [0..n -> A] :
        /\ g[0] = [lines |-> <<>>, prefix |-> <<>>]
        /\ \A i \in 1..n :
             IF text[i].type = "comment"
             THEN g[i].lines = g[i - 1].lines /\ g[i].prefix = Append(g[i - 1].prefix, text[i])
             ELSE /\ g[i].lines = Append(g[i - 1].lines,
                                         Line(text[i].type, text[i].id, g[i - 1].prefix))
                  /\ g[i].prefix = <<>>
        /\ ReadLines(text) = IF g[n].prefix = <<>> THEN g[n].lines
                             ELSE Append(g[n].lines, Line("blank", New, g[n].prefix))
  BY ReadUpto
<1>2. /\ n \in Nat /\ \A i \in 1..n : text[i] \in TextLine /\ i \in 0..n /\ i - 1 \in 0..n
      /\ \A i \in 0..n : g[i].lines \in Seq(MemoryLine) /\ g[i].prefix \in Seq(Comment)
  OBVIOUS
<1>3. /\ SubSeq(text, 1, 0) = <<>> /\ SubSeq(text, 1, n) = text
      /\ \A i \in 1..n : /\ SubSeq(text, 1, i - 1) \in Seq(TextLine)
                          /\ SubSeq(text, 1, i) = Append(SubSeq(text, 1, i - 1), text[i])
  BY Beginnings
<1> DEFINE Same(a, b) == (Parses(a) <=> Parses(b)) /\ (HasAction(a) <=> HasAction(b))
           Ok(i) == /\ Same(g[i].lines, SubSeq(text, 1, i))
                    /\ \A k \in DOMAIN g[i].lines : g[i].lines[k].type # "blank"
           P == {i \in 0..n : Ok(i)}
<1> HIDE DEF n, A
<1>4. 0 \in P
  <2>1. g[0].lines = <<>> /\ SubSeq(text, 1, 0) = <<>> /\ 0 \in 0..n /\ DOMAIN <<>> = {}
    BY <1>1, <1>2, <1>3
  <2> QED
    BY <2>1
<1>5. ASSUME NEW i \in 1..n, i - 1 \in P PROVE i \in P
  <2> DEFINE old == g[i - 1].lines
             sub == SubSeq(text, 1, i - 1)
             x == text[i]
             y == Line(x.type, x.id, g[i - 1].prefix)
  <2>1. /\ old \in Seq(MemoryLine) /\ sub \in Seq(TextLine) /\ x \in TextLine
        /\ SubSeq(text, 1, i) = Append(sub, x) /\ i \in 0..n
    BY <1>2, <1>3
  <2>2. Same(old, sub) /\ \A k \in DOMAIN old : old[k].type # "blank"
    BY <1>5
  <2>3. /\ Parses(Append(sub, x)) <=> /\ Parses(sub) /\ x.type # "broken"
                                      /\ x.type = "system" => ~HasAction(sub)
                                      /\ x.type = "url" => HasAction(sub)
        /\ HasAction(Append(sub, x)) <=> HasAction(sub) \/ x.type = "action"
    <3> HIDE DEF sub, x
    <3> QED
      BY <2>1, Appended
  <2>4. CASE x.type = "comment"
    <3>1. g[i].lines = old
      BY <1>1, <2>4
    <3>2. Same(old, Append(sub, x))
      <4> HIDE DEF sub, x, old
      <4> QED
        BY <2>2, <2>3, <2>4
    <3>3. Ok(i)
      BY <2>1, <2>2, <3>1, <3>2
    <3> QED
      BY <2>1, <3>3
  <2>5. CASE x.type # "comment"
    <3>1. g[i].lines = Append(old, y)
      BY <1>1, <2>5
    <3>2. y \in MemoryLine /\ y.type = x.type /\ y.type # "blank"
      BY <1>2, <2>1, <2>5 DEF TextLine, MemoryLine, Line
    <3>3. /\ Parses(Append(old, y)) <=> /\ Parses(old) /\ y.type # "broken"
                                        /\ y.type = "system" => ~HasAction(old)
                                        /\ y.type = "url" => HasAction(old)
          /\ HasAction(Append(old, y)) <=> HasAction(old) \/ y.type = "action"
      <4> HIDE DEF old, y
      <4> QED
        BY <2>1, <3>2, Appended
    <3>4. Same(Append(old, y), Append(sub, x))
      <4> HIDE DEF old, y, sub, x
      <4> QED
        BY <2>2, <2>3, <3>2, <3>3
    <3>5. \A k \in DOMAIN Append(old, y) : Append(old, y)[k].type # "blank"
      <4> HIDE DEF old, y
      <4>1. \A k \in DOMAIN Append(old, y) : Append(old, y)[k] = y \/ (k \in DOMAIN old /\ Append(old, y)[k] = old[k])
        BY <2>1, <3>2
      <4> QED
        BY <2>2, <3>2, <4>1
    <3>6. Ok(i)
      <4> HIDE DEF old, y, sub, x, Same
      <4> QED
        BY <2>1, <3>1, <3>4, <3>5
    <3> QED
      BY <2>1, <3>6
  <2> QED
    BY <2>4, <2>5
<1>6. n \in P
  <2>1. P \subseteq 0..n
    OBVIOUS
  <2> HIDE DEF P
  <2> QED
    BY <1>2, <1>4, <1>5, <2>1, ToTheEnd
<1> DEFINE all == g[n].lines
           blank == Line("blank", New, g[n].prefix)
<1>7. /\ all \in Seq(MemoryLine) /\ Same(all, text)
      /\ \A k \in DOMAIN all : all[k].type # "blank"
  BY <1>2, <1>3, <1>6
<1>8. ReadLines(text) = all \/ ReadLines(text) = Append(all, blank)
  BY <1>1
<1>9. blank \in MemoryLine /\ blank.type = "blank"
  BY <1>2 DEF MemoryLine, Line, New
<1> HIDE DEF all, blank
<1>10. CASE ReadLines(text) = all
  BY <1>7, <1>10 DEF BlankLast
<1>11. CASE ReadLines(text) = Append(all, blank)
  <2>1. Append(all, blank) \in Seq(MemoryLine) /\ (Parses(Append(all, blank)) <=> Parses(all))
    BY <1>7, <1>9, Appended
  <2>2. BlankLast(Append(all, blank))
    <3>1. \A k \in DOMAIN Append(all, blank) :
            k = Len(Append(all, blank)) \/ (k \in DOMAIN all /\ Append(all, blank)[k] = all[k])
      BY <1>7, <1>9
    <3> QED
      BY <1>7, <3>1 DEF BlankLast
  <2> QED
    BY <1>7, <1>11, <2>1, <2>2
<1> QED
  BY <1>8, <1>10, <1>11

\* The lines of the file that a line in memory stands for, below its comments.
Own(l) == IF l.type = "blank" THEN <<>> ELSE <<[type |-> l.type, id |-> l.id]>>

\* The recursion of Written, step by step.
LEMMA WrittenUpto ==
  ASSUME NEW lines \in Seq(MemoryLine)
  PROVE  \E g \in [0..Len(lines) -> Seq(TextLine)] :
           /\ g[0] = <<>>
           /\ \A i \in 1..Len(lines) : g[i] = g[i - 1] \o lines[i].prefix \o Own(lines[i])
           /\ Written(lines) = g[Len(lines)]
<1> DEFINE n == Len(lines)
           A == Seq(TextLine)
           start == <<>>
           After(i, acc) == acc \o lines[i].prefix \o (IF lines[i].type = "blank" THEN <<>>
                                                       ELSE <<[type |-> lines[i].type, id |-> lines[i].id]>>)
           step == [i \in 1..n |-> [acc \in A |-> After(i, acc)]]
<1>1. n \in Nat /\ \A i \in 1..n : lines[i] \in MemoryLine
  OBVIOUS
<1>2. start \in A
  BY NoLines
<1>3. ASSUME NEW i \in 1..n, NEW acc \in A PROVE After(i, acc) \in A /\ After(i, acc) = acc \o lines[i].prefix \o Own(lines[i])
  <2>1. lines[i] \in MemoryLine
    BY <1>1
  <2>2. lines[i].prefix \in Seq(TextLine)
    <3>1. lines[i].prefix \in Seq(Comment)
      BY <2>1 DEF MemoryLine
    <3>2. Comment \subseteq TextLine
      BY DEF Comment, TextLine
    <3> QED
      BY <3>1, <3>2
  <2>3. Own(lines[i]) \in Seq(TextLine)
    <3>1. CASE lines[i].type = "blank"
      BY <3>1, NoLines DEF Own
    <3>2. CASE lines[i].type # "blank"
      <4>1. [type |-> lines[i].type, id |-> lines[i].id] \in TextLine
        BY <2>1, <3>2 DEF MemoryLine, TextLine
      <4> QED
        BY <3>2, <4>1 DEF Own
    <3> QED
      BY <3>1, <3>2
  <2>4. After(i, acc) = acc \o lines[i].prefix \o Own(lines[i])
    BY DEF Own
  <2> HIDE DEF After
  <2> QED
    BY <2>2, <2>3, <2>4
<1>4. step \in [1..n -> [A -> A]]
  <2> HIDE DEF After, A
  <2> QED
    BY <1>3
<1>5. PICK g \in [0..n -> A] : g[0] = start /\ \A i \in 1..n : g[i] = step[i][g[i - 1]]
  <2> HIDE DEF n, A, start, After, step
  <2>1. n \in Nat
    BY <1>1
  <2> QED
    BY <1>2, <1>4, <2>1, Repeated
<1>6. \A i \in 1..n : g[i] = After(i, g[i - 1]) /\ g[i - 1] \in A /\ i - 1 \in 0..n
  <2> HIDE DEF After, A, start
  <2>1. \A i \in 1..n : i - 1 \in 0..n
    BY <1>1
  <2> QED
    BY <1>5, <2>1
<1> DEFINE Upto[i \in 0..n] == IF i = 0 THEN start ELSE After(i, Upto[i - 1])
<1>7. Upto = [i \in 0..n |-> IF i = 0 THEN start ELSE After(i, Upto[i - 1])]
  <2> DEFINE IsUpto(f) == f = [i \in 0..n |-> IF i = 0 THEN start ELSE After(i, f[i - 1])]
  <2>1. IsUpto(g)
    <3> DEFINE h == [i \in 0..n |-> IF i = 0 THEN start ELSE After(i, g[i - 1])]
    <3> HIDE DEF After, A, start, n
    <3>1. \A i \in 0..n : h[i] = g[i]
      BY <1>1, <1>5, <1>6
    <3>2. g = h
      BY <1>5, <3>1
    <3> QED
      BY <3>2
  <2>2. Upto = CHOOSE f : IsUpto(f)
    OBVIOUS
  <2> HIDE DEF IsUpto, Upto
  <2>3. IsUpto(Upto)
    BY <2>1, <2>2
  <2> QED
    BY <2>3 DEF IsUpto
<1>8. Written(lines) = Upto[n]
  BY DEF Written
<1> HIDE DEF Upto
<1>9. Upto = g
  <2> DEFINE P == {i \in 0..n : Upto[i] = g[i]}
  <2> HIDE DEF After, A, start, n
  <2>1. 0 \in P /\ P \subseteq 0..n
    BY <1>1, <1>5, <1>7
  <2>2. \A i \in 1..n : i - 1 \in P => i \in P
    BY <1>1, <1>6, <1>7
  <2>3. ASSUME NEW k \in 0..n PROVE k \in P
    <3>1. 0 \in P \cap (0..k) /\ P \cap (0..k) \subseteq 0..k /\ k \in Nat
      BY <1>1, <2>1
    <3>2. \A i \in 1..k : i - 1 \in P \cap (0..k) => i \in P \cap (0..k)
      BY <1>1, <2>2
    <3> HIDE DEF P
    <3>3. k \in P \cap (0..k)
      BY <3>1, <3>2, ToTheEnd
    <3> QED
      BY <3>3
  <2>4. \A i \in 0..n : Upto[i] = g[i]
    BY <2>3
  <2> QED
    BY <1>5, <1>7, <2>4
<1>10. \A i \in 1..n : g[i] = g[i - 1] \o lines[i].prefix \o Own(lines[i])
  <2> HIDE DEF After, A, n
  <2> QED
    BY <1>3, <1>6
<1> HIDE DEF After, step
<1> QED
  BY <1>5, <1>8, <1>9, <1>10

\* What is written is as valid as the file in memory.
LEMMA WrittenFacts ==
  ASSUME NEW lines \in Seq(MemoryLine)
  PROVE  /\ Written(lines) \in Seq(TextLine)
         /\ Parses(Written(lines)) <=> Parses(lines)
<1> DEFINE n == Len(lines)
<1>1. PICK g \in [0..n -> Seq(TextLine)] :
        /\ g[0] = <<>>
        /\ \A i \in 1..n : g[i] = g[i - 1] \o lines[i].prefix \o Own(lines[i])
        /\ Written(lines) = g[n]
  BY WrittenUpto
<1>2. /\ n \in Nat /\ \A i \in 1..n : lines[i] \in MemoryLine /\ i \in 0..n /\ i - 1 \in 0..n
      /\ \A i \in 0..n : g[i] \in Seq(TextLine)
  OBVIOUS
<1>3. /\ SubSeq(lines, 1, 0) = <<>> /\ SubSeq(lines, 1, n) = lines
      /\ \A i \in 1..n : /\ SubSeq(lines, 1, i - 1) \in Seq(MemoryLine)
                          /\ SubSeq(lines, 1, i) = Append(SubSeq(lines, 1, i - 1), lines[i])
  BY Beginnings
<1> DEFINE Same(a, b) == (Parses(a) <=> Parses(b)) /\ (HasAction(a) <=> HasAction(b))
           P == {i \in 0..n : Same(g[i], SubSeq(lines, 1, i))}
<1> HIDE DEF n
<1>4. 0 \in P
  <2>1. g[0] = <<>> /\ SubSeq(lines, 1, 0) = <<>> /\ 0 \in 0..n
    BY <1>1, <1>2, <1>3
  <2> QED
    BY <2>1
<1>5. ASSUME NEW i \in 1..n, i - 1 \in P PROVE i \in P
  <2> DEFINE old == g[i - 1]
             sub == SubSeq(lines, 1, i - 1)
             x == lines[i]
             pre == x.prefix
  <2>1. /\ old \in Seq(TextLine) /\ sub \in Seq(MemoryLine) /\ x \in MemoryLine
        /\ SubSeq(lines, 1, i) = Append(sub, x) /\ i \in 0..n
        /\ g[i] = old \o pre \o Own(x)
    BY <1>1, <1>2, <1>3
  <2>2. Same(old, sub)
    BY <1>5
  <2>3. pre \in Seq(Comment) /\ pre \in Seq(TextLine)
    <3>1. pre \in Seq(Comment)
      BY <2>1 DEF MemoryLine
    <3>2. Comment \subseteq TextLine
      BY DEF Comment, TextLine
    <3> HIDE DEF pre
    <3> QED
      BY <3>1, <3>2
  <2> HIDE DEF old, sub, x, pre, P
  <2>4. old \o pre \in Seq(TextLine) /\ Same(old \o pre, old)
    <3>1. Parses(pre) /\ ~HasAction(pre) /\ NoSystem(pre)
      BY <2>3, CommentsOnly
    <3>2. /\ old \o pre \in Seq(TextLine)
          /\ Parses(old \o pre) <=> Parses(old) /\ IF HasAction(old) THEN NoSystem(pre) ELSE Parses(pre)
          /\ HasAction(old \o pre) <=> HasAction(old) \/ HasAction(pre)
      BY <2>1, <2>3, Joined
    <3> QED
      BY <3>1, <3>2
  <2>5. /\ Parses(Append(sub, x)) <=> /\ Parses(sub) /\ x.type # "broken"
                                      /\ x.type = "system" => ~HasAction(sub)
                                      /\ x.type = "url" => HasAction(sub)
        /\ HasAction(Append(sub, x)) <=> HasAction(sub) \/ x.type = "action"
    BY <2>1, Appended
  <2> DEFINE head == old \o pre
             y == [type |-> x.type, id |-> x.id]
  <2>6. CASE x.type = "blank"
    <3>1. g[i] = head
      <4>1. Own(x) = <<>>
        BY <2>6 DEF Own
      <4>2. head \o <<>> = head
        BY <2>4
      <4> QED
        BY <2>1, <4>1, <4>2
    <3>2. Same(head, Append(sub, x))
      <4> HIDE DEF head
      <4> QED
        BY <2>2, <2>4, <2>5, <2>6 DEF head
    <3>3. Same(g[i], SubSeq(lines, 1, i))
      <4> HIDE DEF Same, head
      <4> QED
        BY <2>1, <3>1, <3>2
    <3> QED
      BY <2>1, <3>3 DEF P
  <2>7. CASE x.type # "blank"
    <3>1. g[i] = Append(head, y) /\ y \in TextLine /\ y.type = x.type
      <4>1. Own(x) = <<y>>
        BY <2>7 DEF Own
      <4>2. y \in TextLine
        BY <2>1, <2>7 DEF MemoryLine, TextLine
      <4>3. head \o <<y>> = Append(head, y)
        BY <2>4, <4>2
      <4> QED
        BY <2>1, <4>1, <4>2, <4>3
    <3>2. /\ Parses(Append(head, y)) <=> /\ Parses(head) /\ y.type # "broken"
                                         /\ y.type = "system" => ~HasAction(head)
                                         /\ y.type = "url" => HasAction(head)
          /\ HasAction(Append(head, y)) <=> HasAction(head) \/ y.type = "action"
      <4> HIDE DEF head, y
      <4> QED
        BY <2>4, <3>1, Appended DEF head
    <3>3. Same(Append(head, y), Append(sub, x))
      <4> HIDE DEF y, head
      <4>1. Same(head, sub)
        BY <2>2, <2>4 DEF head
      <4> QED
        BY <2>5, <3>1, <3>2, <4>1
    <3>4. Same(g[i], SubSeq(lines, 1, i))
      <4> HIDE DEF Same, head, y
      <4> QED
        BY <2>1, <3>1, <3>3
    <3> QED
      BY <2>1, <3>4 DEF P
  <2> QED
    BY <2>6, <2>7
<1>6. n \in P
  <2>1. P \subseteq 0..n
    OBVIOUS
  <2> HIDE DEF P
  <2> QED
    BY <1>2, <1>4, <1>5, <2>1, ToTheEnd
<1> QED
  BY <1>1, <1>2, <1>3, <1>6

-----------------------------------------------------------------------------
(* The edits: each takes the file apart and puts it together again.        *)

\* Two pieces of a sequence make a larger one.
LEMMA Slices ==
  ASSUME NEW S, NEW a \in Seq(S), NEW i \in Nat, NEW j \in Nat, i <= j, j <= Len(a)
  PROVE  /\ SubSeq(a, 1, i) \in Seq(S) /\ SubSeq(a, i + 1, j) \in Seq(S)
         /\ SubSeq(a, 1, j) = SubSeq(a, 1, i) \o SubSeq(a, i + 1, j)
         /\ i < j => /\ SubSeq(a, i + 1, j) # <<>> /\ SubSeq(a, i + 1, j)[1] = a[i + 1]
                     /\ i + 1 \in DOMAIN a
         /\ Len(SubSeq(a, 1, i)) = i /\ Len(SubSeq(a, i + 1, j)) = j - i
<1> DEFINE b == SubSeq(a, 1, i)
           c == SubSeq(a, i + 1, j)
           d == SubSeq(a, 1, j)
<1>1. /\ b \in Seq(S) /\ Len(b) = i /\ \A k \in 1..i : b[k] = a[k]
  OBVIOUS
<1>2. /\ c \in Seq(S) /\ Len(c) = j - i /\ \A k \in 1..(j - i) : c[k] = a[i + k]
  <2>1. \A k \in 1..(j - i) : (i + 1) + k - 1 = i + k
    OBVIOUS
  <2> QED
    BY <2>1
<1>3. /\ d \in Seq(S) /\ Len(d) = j /\ \A k \in 1..j : d[k] = a[k]
  OBVIOUS
<1> HIDE DEF b, c, d
<1>4. b \o c \in Seq(S) /\ Len(b \o c) = j
  <2>1. b \o c \in Seq(S) /\ Len(b \o c) = Len(b) + Len(c)
    <3>1. b \in Seq(S) /\ c \in Seq(S)
      BY <1>1, <1>2
    <3> QED
      BY <3>1
  <2>2. i + (j - i) = j
    OBVIOUS
  <2> QED
    BY <1>1, <1>2, <2>1, <2>2
<1>5. \A k \in 1..j : (b \o c)[k] = a[k]
  <2> TAKE k \in 1..j
  <2>1. CASE k <= i
    BY <1>1, <1>2, <2>1
  <2>2. CASE k > i
    <3>1. k - i \in 1..(j - i) /\ i + (k - i) = k
      BY <2>2
    <3>2. (b \o c)[k] = c[k - i]
      BY <1>1, <1>2, <2>2
    <3> QED
      BY <1>2, <3>1, <3>2
  <2>3. k <= i \/ k > i
    OBVIOUS
  <2> QED
    BY <2>1, <2>2, <2>3
<1>6. d = b \o c
  <2> DEFINE e == b \o c
  <2>1. /\ e \in Seq(S) /\ Len(e) = j /\ \A k \in 1..j : e[k] = d[k]
    BY <1>3, <1>4, <1>5
  <2> HIDE DEF e
  <2>2. d = e
    BY <1>3, <2>1
  <2> QED
    BY <2>2 DEF e
<1>7. i < j => c # <<>> /\ c[1] = a[i + 1] /\ i + 1 \in DOMAIN a
  BY <1>2
<1> QED
  BY <1>1, <1>2, <1>6, <1>7 DEF b, c, d

\* What begins with a section.
LEMMA ActionFirst ==
  ASSUME NEW S, NEW a \in Seq(S), a # <<>>, a[1].type = "action"
  PROVE  HasAction(a) /\ (Parses(a) <=> NoSystem(a))
<1>1. 1 \in DOMAIN a /\ \A i \in DOMAIN a : 1 \in 1..i
  OBVIOUS
<1>2. HasAction(a)
  BY <1>1 DEF HasAction
<1>3. Parses(a) => NoSystem(a)
  BY <1>1 DEF Parses, NoSystem
<1>4. NoSystem(a) => Parses(a)
  BY <1>1 DEF Parses, NoSystem
<1> QED
  BY <1>2, <1>3, <1>4

\* The largest of some numbers.
LEMMA MaxFacts ==
  ASSUME NEW n \in Nat, NEW S, S \subseteq 0..n, S # {}
  PROVE  Max(S) \in S /\ \A i \in S : i <= Max(S)
<1> DEFINE T == {n - i : i \in S}
<1>1. T \subseteq Nat /\ T # {}
  <2>1. \A i \in S : n - i \in Nat
    OBVIOUS
  <2>2. T \subseteq Nat
    BY <2>1
  <2>3. T # {}
    OBVIOUS
  <2> QED
    BY <2>2, <2>3
<1>2. PICK t \in T : \A k \in T : t <= k
  <2> HIDE DEF T
  <2> QED
    BY <1>1, LeastElement
<1>3. PICK s \in S : t = n - s
  BY <1>2
<1>4. \A i \in S : n - i \in T
  OBVIOUS
<1>5. \A i \in S : s >= i
  <2> HIDE DEF T
  <2> QED
    BY <1>2, <1>3, <1>4
<1>6. Max(S) \in S /\ \A i \in S : Max(S) >= i
  <2>1. \E x \in S : \A i \in S : x >= i
    BY <1>5
  <2> QED
    BY <2>1 DEF Max
<1>7. \A i \in S : i \in Int
  OBVIOUS
<1> QED
  BY <1>6, <1>7

\* A file in memory: what can be loaded.
Good(s) == s \in Seq(MemoryLine) /\ Parses(s)

\* A file cut in two.
LEMMA Cut ==
  ASSUME NEW s, Good(s), NEW i \in 0..Len(s)
  PROVE  /\ SubSeq(s, 1, i) \in Seq(MemoryLine) /\ From(s, i + 1) \in Seq(MemoryLine)
         /\ s = SubSeq(s, 1, i) \o From(s, i + 1)
         /\ Parses(SubSeq(s, 1, i))
         /\ IF HasAction(SubSeq(s, 1, i)) THEN NoSystem(From(s, i + 1)) ELSE Parses(From(s, i + 1))
         /\ i < Len(s) => /\ From(s, i + 1) # <<>> /\ From(s, i + 1)[1] = s[i + 1]
                          /\ i + 1 \in DOMAIN s
         /\ i = Len(s) => From(s, i + 1) = <<>>
<1> DEFINE m == Len(s)
           a == SubSeq(s, 1, i)
           b == SubSeq(s, i + 1, m)
<1>1. s \in Seq(MemoryLine) /\ m \in Nat /\ i \in Nat /\ i <= m /\ m <= Len(s) /\ SubSeq(s, 1, m) = s
  <2>1. s \in Seq(MemoryLine)
    BY DEF Good
  <2> QED
    BY <2>1, Beginnings
<1>2. /\ a \in Seq(MemoryLine) /\ b \in Seq(MemoryLine) /\ s = a \o b
      /\ i < m => b # <<>> /\ b[1] = s[i + 1] /\ i + 1 \in DOMAIN s
      /\ Len(b) = m - i
  <2> HIDE DEF m
  <2>1. a \in Seq(MemoryLine) /\ b \in Seq(MemoryLine) /\ s = a \o b
    BY <1>1, Slices
  <2>2. Len(b) = m - i
    BY <1>1, Slices
  <2>3. i < m => b[1] = s[i + 1] /\ i + 1 \in DOMAIN s
    BY <1>1, Slices
  <2>4. i < m => b # <<>>
    <3> HIDE DEF b
    <3>1. i < m => Len(b) # 0
      BY <1>1, <2>2
    <3> QED
      BY <3>1
  <2> QED
    BY <2>1, <2>2, <2>3, <2>4
<1>3. i = m => b = <<>>
  <2> HIDE DEF b, m
  <2>1. i = m => Len(b) = 0
    BY <1>1, <1>2
  <2> QED
    BY <1>2, <2>1
<1>4. Parses(a \o b)
  BY <1>2 DEF Good
<1>5. Parses(a) /\ IF HasAction(a) THEN NoSystem(b) ELSE Parses(b)
  <2> HIDE DEF a, b
  <2> QED
    BY <1>2, <1>4, Joined
<1> QED
  BY <1>2, <1>3, <1>5 DEF From

\* A line in between.
LEMMA AddedGood ==
  ASSUME NEW s, Good(s), NEW i \in 0..Len(s), NEW type \in {"url", "action"},
         NoSystem(From(s, i + 1)),
         type = "url" => HasAction(SubSeq(s, 1, i))
  PROVE  Good(Added(s, i, type))
<1> DEFINE a == SubSeq(s, 1, i)
           b == From(s, i + 1)
           x == Line(type, New, <<>>)
<1>1. a \in Seq(MemoryLine) /\ b \in Seq(MemoryLine) /\ Parses(a)
  BY Cut
<1>2. x \in MemoryLine /\ x.type = type
  BY NoLines DEF Line, MemoryLine, New
<1>3. Added(s, i, type) = a \o <<x>> \o b
  BY DEF Added
<1>4. NoSystem(b) /\ (type = "url" => HasAction(a))
  OBVIOUS
<1> HIDE DEF a, b, x
<1> DEFINE c == Append(a, x)
<1>5. a \o <<x>> = c
  BY <1>1, <1>2
<1>6. /\ c \in Seq(MemoryLine)
      /\ Parses(c) <=> Parses(a) /\ (x.type = "system" => ~HasAction(a)) /\ (x.type = "url" => HasAction(a))
      /\ HasAction(c) <=> HasAction(a) \/ x.type = "action"
  BY <1>1, <1>2, Appended
<1> HIDE DEF c
<1>7. Parses(c) /\ HasAction(c)
  BY <1>1, <1>2, <1>4, <1>6
<1>8. c \o b \in Seq(MemoryLine) /\ Parses(c \o b)
  BY <1>1, <1>4, <1>6, <1>7, Joined
<1> QED
  BY <1>3, <1>5, <1>8 DEF Good

\* A header is in what it is in.
LEMMA HeaderAbove ==
  ASSUME NEW s, Good(s), NEW i, IsLine(s, i, "action"), NEW k \in i..Len(s)
  PROVE  k \in 0..Len(s) /\ HasAction(SubSeq(s, 1, k)) /\ NoSystem(From(s, k + 1))
<1> DEFINE m == Len(s)
<1>1. s \in Seq(MemoryLine) /\ m \in Nat /\ i \in 1..m /\ s[i].type = "action" /\ k \in 0..m
  BY DEF Good, IsLine
<1>2. SubSeq(s, 1, k)[i] = s[i] /\ i \in DOMAIN SubSeq(s, 1, k)
  BY <1>1
<1>3. HasAction(SubSeq(s, 1, k))
  BY <1>1, <1>2 DEF HasAction
<1>4. IF HasAction(SubSeq(s, 1, k)) THEN NoSystem(From(s, k + 1)) ELSE Parses(From(s, k + 1))
  BY <1>1, Cut
<1> QED
  BY <1>1, <1>3, <1>4

\* What follows a section begins with one, or is nothing.
LEMMA EndOfSectionFacts ==
  ASSUME NEW s, Good(s), NEW n \in 1..Len(s)
  PROVE  EndOfSection(s, n) \in n..Len(s) /\ NoSystem(From(s, EndOfSection(s, n) + 1))
<1> DEFINE m == Len(s)
           K == {k \in n..m : \A j \in n + 1..k : s[j].type # "action"}
           e == EndOfSection(s, n)
<1>1. s \in Seq(MemoryLine) /\ m \in Nat /\ n \in Nat /\ n \in 1..m
  BY DEF Good
<1>2. e = Max(K)
  BY DEF EndOfSection
<1>3. e \in K /\ \A k \in K : k <= e
  <2>1. K \subseteq 0..m /\ n \in K
    <3> HIDE DEF m
    <3>1. \A j \in n + 1..n : FALSE
      BY <1>1
    <3> QED
      BY <1>1, <3>1
  <2> HIDE DEF K, e, m
  <2> QED
    BY <1>1, <1>2, <2>1, MaxFacts
<1>4. e \in n..m /\ \A j \in n + 1..e : s[j].type # "action"
  BY <1>3
<1> HIDE DEF e
<1> DEFINE a == SubSeq(s, 1, e)
           b == From(s, e + 1)
<1>5. /\ b \in Seq(MemoryLine)
      /\ IF HasAction(a) THEN NoSystem(b) ELSE Parses(b)
      /\ e < m => b # <<>> /\ b[1] = s[e + 1]
      /\ e = m => b = <<>>
  <2>1. e \in 0..Len(s)
    BY <1>1, <1>4
  <2> QED
    BY <2>1, Cut
<1>6. CASE e = m
  BY <1>5, <1>6, NoLines DEF e
<1>7. CASE e < m
  <2>1. s[e + 1].type = "action"
    <3>1. SUFFICES ASSUME s[e + 1].type # "action" PROVE FALSE
      OBVIOUS
    <3>2. e + 1 \in n..m
      BY <1>1, <1>4, <1>7
    <3>3. \A j \in n + 1..(e + 1) : j \in n + 1..e \/ j = e + 1
      BY <1>1, <1>4
    <3>4. e + 1 \in K
      BY <1>4, <3>1, <3>2, <3>3
    <3>5. e + 1 <= e
      BY <1>3, <3>4
    <3> QED
      BY <1>1, <1>4, <3>5
  <2>2. HasAction(b) /\ (Parses(b) <=> NoSystem(b))
    <3> HIDE DEF b
    <3> QED
      BY <1>5, <1>7, <2>1, ActionFirst
  <2>3. NoSystem(b)
    BY <1>5, <2>2
  <2> QED
    BY <1>4, <2>3 DEF e
<1> QED
  BY <1>1, <1>4, <1>6, <1>7 DEF e

\* cgi_edit_actions_submit(), cgi_edit_actions_url(): what decides are the types of lines.
LEMMA ReplaceGood ==
  ASSUME NEW s, Good(s), NEW n, NEW type, NEW r \in Replace(s, n, type)
  PROVE  Good(r)
<1> DEFINE m == Len(s)
<1>1. /\ s \in Seq(MemoryLine) /\ m \in Nat /\ n \in 1..m /\ DOMAIN s = 1..m
      /\ r = [s EXCEPT ![n].id = New] /\ Parses(s)
  BY DEF Good, Replace, IsLine
<1>2. s[n] \in MemoryLine /\ New \in Nat
  BY <1>1 DEF New
<1> DEFINE x == [s[n] EXCEPT !.id = New]
<1>3. x \in MemoryLine /\ x.type = s[n].type
  BY <1>2 DEF MemoryLine
<1>4. r = [s EXCEPT ![n] = x]
  BY <1>1
<1> HIDE DEF x
<1>5. r \in Seq(MemoryLine) /\ Len(r) = m /\ DOMAIN r = 1..m
  BY <1>1, <1>3, <1>4
<1>6. \A i \in 1..m : r[i].type = s[i].type
  BY <1>1, <1>3, <1>4
<1>7. Parses(r)
  <2>1. SUFFICES ASSUME NEW i \in 1..m
                 PROVE  /\ r[i].type # "broken"
                        /\ r[i].type = "system" => \A j \in 1..i : r[j].type # "action"
                        /\ r[i].type = "url" => \E j \in 1..i : r[j].type = "action"
    BY <1>5 DEF Parses
  <2>2. /\ s[i].type # "broken"
        /\ s[i].type = "system" => \A j \in 1..i : s[j].type # "action"
        /\ s[i].type = "url" => \E j \in 1..i : s[j].type = "action"
    BY <1>1 DEF Parses
  <2>3. \A j \in 1..i : j \in 1..m
    BY <1>1
  <2> HIDE DEF m
  <2> QED
    BY <1>6, <2>2, <2>3
<1> QED
  BY <1>5, <1>7 DEF Good

\* cgi_edit_actions_add_url().
LEMMA AddUrlGood ==
  ASSUME NEW s, Good(s), NEW n, NEW r \in AddUrl(s, n)
  PROVE  Good(r)
<1>1. IsLine(s, n, "action") /\ r = Added(s, n, "url")
  BY DEF AddUrl
<1>2. n \in n..Len(s)
  BY <1>1 DEF IsLine, Good
<1>3. n \in 0..Len(s) /\ HasAction(SubSeq(s, 1, n)) /\ NoSystem(From(s, n + 1))
  BY <1>1, <1>2, HeaderAbove
<1> QED
  BY <1>1, <1>3, AddedGood

\* A line and what is around it.
LEMMA Around ==
  ASSUME NEW s, Good(s), NEW n \in DOMAIN s
  PROVE  /\ SubSeq(s, 1, n - 1) \in Seq(MemoryLine) /\ From(s, n + 1) \in Seq(MemoryLine)
         /\ n \in 0..Len(s) /\ n - 1 \in 0..Len(s) /\ s[n] \in MemoryLine
         /\ SubSeq(s, 1, n) = Append(SubSeq(s, 1, n - 1), s[n])
         /\ RemoveAt(s, n) = SubSeq(s, 1, n - 1) \o From(s, n + 1)
         /\ Parses(SubSeq(s, 1, n - 1)) /\ Parses(SubSeq(s, 1, n))
<1>1. s \in Seq(MemoryLine) /\ n \in 1..Len(s) /\ n \in 0..Len(s) /\ n - 1 \in 0..Len(s)
  BY DEF Good
<1>2. /\ SubSeq(s, 1, n - 1) \in Seq(MemoryLine) /\ s[n] \in MemoryLine
      /\ SubSeq(s, 1, n) = Append(SubSeq(s, 1, n - 1), s[n])
  BY <1>1, Beginnings
<1>3. From(s, n + 1) \in Seq(MemoryLine) /\ Parses(SubSeq(s, 1, n))
  BY <1>1, Cut
<1>4. Parses(SubSeq(s, 1, n - 1))
  BY <1>1, Cut
<1>5. RemoveAt(s, n) = SubSeq(s, 1, n - 1) \o From(s, n + 1)
  BY DEF RemoveAt, From
<1> QED
  BY <1>1, <1>2, <1>3, <1>4, <1>5

\* cgi_edit_actions_remove_url(): a pattern is in a section.
LEMMA RemoveUrlGood ==
  ASSUME NEW s, Good(s), NEW n, NEW r \in RemoveUrl(s, n)
  PROVE  Good(r)
<1> DEFINE a == SubSeq(s, 1, n - 1)
           b == From(s, n + 1)
           x == s[n]
<1>1. n \in DOMAIN s /\ x.type = "url" /\ r = RemoveAt(s, n)
  BY DEF RemoveUrl, IsLine
<1>2. /\ a \in Seq(MemoryLine) /\ b \in Seq(MemoryLine) /\ x \in MemoryLine
      /\ SubSeq(s, 1, n) = Append(a, x) /\ r = a \o b
      /\ Parses(a) /\ Parses(Append(a, x)) /\ n \in 0..Len(s)
  BY <1>1, Around
<1>3. IF HasAction(Append(a, x)) THEN NoSystem(b) ELSE Parses(b)
  BY <1>2, Cut
<1> HIDE DEF a, b, x
<1>4. HasAction(a) /\ HasAction(Append(a, x))
  BY <1>1, <1>2, Appended
<1>5. a \o b \in Seq(MemoryLine) /\ Parses(a \o b)
  BY <1>2, <1>3, <1>4, Joined
<1> QED
  BY <1>2, <1>5 DEF Good

\* cgi_edit_actions_section_remove(): a section without patterns.
LEMMA RemoveSectionGood ==
  ASSUME NEW s, Good(s), BlankLast(s), NEW n, NEW r \in RemoveSection(s, n)
  PROVE  Good(r)
<1> DEFINE k == Counted(n)
           a == SubSeq(s, 1, k - 1)
           b == From(s, k + 1)
           x == s[k]
<1>1. k \in DOMAIN s /\ x.type = "action" /\ r = RemoveAt(s, k) /\ ~IsLine(s, k + 1, "url")
  BY DEF RemoveSection, IsLine, NotEmpty
<1>2. /\ a \in Seq(MemoryLine) /\ b \in Seq(MemoryLine) /\ x \in MemoryLine
      /\ SubSeq(s, 1, k) = Append(a, x) /\ r = a \o b
      /\ Parses(a) /\ Parses(Append(a, x)) /\ k \in 0..Len(s)
  <2> HIDE DEF k
  <2> QED
    BY <1>1, Around
<1>3. /\ IF HasAction(Append(a, x)) THEN NoSystem(b) ELSE Parses(b)
      /\ k < Len(s) => b # <<>> /\ b[1] = s[k + 1] /\ k + 1 \in DOMAIN s
      /\ k = Len(s) => b = <<>>
  <2> HIDE DEF k
  <2> QED
    BY <1>2, Cut
<1>4. HasAction(Append(a, x))
  <2> HIDE DEF a, x
  <2> QED
    BY <1>1, <1>2, Appended
<1>5. Parses(b)
  <2>1. CASE k = Len(s)
    <3> HIDE DEF b, k
    <3> QED
      BY <1>3, <2>1, NoLines
  <2>2. CASE k # Len(s)
    <3>1. k < Len(s) /\ s \in Seq(MemoryLine) /\ Len(s) \in Nat /\ k \in Nat
      <4> HIDE DEF k
      <4> QED
        BY <1>2, <2>2 DEF Good
    <3>2. b[1].type # "url" /\ b # <<>> /\ b[1] = s[k + 1] /\ k + 1 \in DOMAIN s
      <4> HIDE DEF b, k
      <4> QED
        BY <1>1, <1>3, <3>1 DEF IsLine
    <3>3. CASE b[1].type = "action"
      <4> HIDE DEF b
      <4> QED
        BY <1>2, <1>3, <1>4, <3>2, <3>3, ActionFirst
    <3>4. CASE b[1].type # "action"
      <4>1. b[1].type = "blank"
        <5>1. b[1] \in MemoryLine
          <6> HIDE DEF b, k
          <6> QED
            BY <1>2, <3>2
        <5>2. b[1].type \notin {"system", "broken"}
          <6> HIDE DEF b, k
          <6>1. NoSystem(b) /\ 1 \in DOMAIN b
            BY <1>2, <1>3, <1>4, <3>2
          <6> QED
            BY <6>1 DEF NoSystem
        <5> HIDE DEF b, k
        <5> QED
          BY <3>2, <3>4, <5>1, <5>2 DEF MemoryLine
      <4>2. k + 1 = Len(s)
        <5> HIDE DEF b, k
        <5> QED
          BY <3>1, <3>2, <4>1 DEF BlankLast
      <4>3. Len(b) = 1
        <5> DEFINE m == Len(s)
        <5>1. b = SubSeq(s, k + 1, m) /\ k <= m /\ m <= Len(s) /\ k \in Nat /\ m \in Nat
          <6> HIDE DEF k
          <6> QED
            BY <3>1 DEF From
        <5> HIDE DEF k, b, m
        <5>2. Len(b) = m - k
          BY <3>1, <5>1, Slices
        <5> QED
          BY <3>1, <4>2, <5>1, <5>2 DEF m
      <4> HIDE DEF b, k
      <4>4. DOMAIN b = 1..1 /\ \A i \in 1..1 : i = 1
        BY <1>2, <4>3
      <4> QED
        BY <4>1, <4>4 DEF Parses
    <3> QED
      BY <3>3, <3>4
  <2> QED
    BY <2>1, <2>2
<1> HIDE DEF a, b, x, k
<1>6. a \o b \in Seq(MemoryLine) /\ Parses(a \o b)
  BY <1>2, <1>3, <1>4, <1>5, Joined
<1> QED
  BY <1>2, <1>6 DEF Good

\* cgi_edit_actions_section_add().
LEMMA AddSectionGood ==
  ASSUME NEW s, Good(s), NEW n \in Nat, NEW r \in AddSection(s, n)
  PROVE  Good(r)
<1>1. s \in Seq(MemoryLine) /\ Len(s) \in Nat
  BY DEF Good
<1>2. CASE n <= 1 /\ (s = <<>> \/ IsLine(s, 1, "action"))
  <2>1. r = Added(s, 0, "action")
    BY <1>2 DEF AddSection
  <2>2. From(s, 0 + 1) = s
    BY <1>1, Beginnings DEF From
  <2>3. NoSystem(s)
    <3>1. CASE s = <<>>
      BY <3>1, NoLines
    <3>2. CASE s # <<>>
      <4>1. s[1].type = "action"
        BY <1>2, <3>2 DEF IsLine
      <4> QED
        BY <1>1, <3>2, <4>1, ActionFirst DEF Good
    <3> QED
      BY <3>1, <3>2
  <2>4. 0 \in 0..Len(s) /\ "action" \in {"url", "action"} /\ "action" # "url"
    BY <1>1
  <2> QED
    BY <2>1, <2>2, <2>3, <2>4, AddedGood
<1>3. CASE n <= 1 /\ ~(s = <<>> \/ IsLine(s, 1, "action"))
  <2> DEFINE e == EndOfSection(s, 1)
  <2>1. r = Added(s, e, "action") /\ 1 \in 1..Len(s)
    BY <1>1, <1>3 DEF AddSection
  <2>2. e \in 1..Len(s) /\ NoSystem(From(s, e + 1))
    BY <2>1, EndOfSectionFacts
  <2> HIDE DEF e
  <2>3. e \in 0..Len(s) /\ "action" \in {"url", "action"} /\ "action" # "url"
    BY <1>1, <2>2
  <2> QED
    BY <2>1, <2>2, <2>3, AddedGood
<1>4. CASE ~(n <= 1)
  <2> DEFINE e == EndOfSection(s, n)
  <2>1. r = Added(s, e, "action") /\ n \in 1..Len(s)
    BY <1>1, <1>4 DEF AddSection, IsLine
  <2>2. e \in n..Len(s) /\ NoSystem(From(s, e + 1))
    BY <2>1, EndOfSectionFacts
  <2> HIDE DEF e
  <2>3. e \in 0..Len(s) /\ "action" \in {"url", "action"} /\ "action" # "url"
    BY <1>1, <2>2
  <2> QED
    BY <2>1, <2>2, <2>3, AddedGood
<1> QED
  BY <1>2, <1>3, <1>4

\* The end of a section is not above its header.
LEMMA LastUrlFacts ==
  ASSUME NEW s, Good(s), NEW n \in 1..Len(s)
  PROVE  LastUrl(s, n) \in n..Len(s)
<1> DEFINE m == Len(s)
           K == {k \in n..m : \A j \in n + 1..k : s[j].type = "url"}
<1>1. m \in Nat /\ n \in Nat /\ n \in 1..m
  BY DEF Good
<1>2. K \subseteq 0..m /\ n \in K /\ K \subseteq n..m
  <2> HIDE DEF m
  <2>1. \A j \in n + 1..n : FALSE
    BY <1>1
  <2> QED
    BY <1>1, <2>1
<1>3. Max(K) \in K
  <2> HIDE DEF K, m
  <2> QED
    BY <1>1, <1>2, MaxFacts
<1> QED
  BY <1>2, <1>3 DEF LastUrl

\* cgi_edit_actions_section_swap(): what begins with a header may be anywhere below the
\* blocks at the top.
LEMMA SwapGood ==
  ASSUME NEW s, Good(s), NEW m \in Nat, NEW n \in Nat, NEW r \in Swap(s, m, n)
  PROVE  Good(r)
<1> DEFINE M == MemoryLine
           start1 == Counted(Min({m, n}))
           end1   == LastUrl(s, start1)
           start2 == Max({end1 + 1, m, n})
           end2   == LastUrl(s, start2)
           all == Len(s)
           A == SubSeq(s, 1, start1 - 1)
           B == SubSeq(s, start1, end1)
           C == SubSeq(s, end1 + 1, start2 - 1)
           D == SubSeq(s, start2, end2)
           E == From(s, end2 + 1)
<1>1. /\ IsLine(s, start1, "action") /\ IsLine(s, start2, "action")
      /\ r = A \o D \o C \o B \o E
  BY DEF Swap
<1>2. /\ s \in Seq(M) /\ all \in Nat /\ start1 \in 1..all /\ start2 \in 1..all
      /\ s[start1].type = "action" /\ s[start2].type = "action"
  <2> HIDE DEF start1, start2
  <2> QED
    BY <1>1 DEF IsLine, Good
<1>3. end1 \in start1..all /\ end2 \in start2..all
  <2> HIDE DEF start1, start2
  <2> QED
    BY <1>2, LastUrlFacts
<1>4. end1 + 1 <= start2
  <2> HIDE DEF end1
  <2>1. {end1 + 1, m, n} \subseteq 0..(end1 + 1 + m + n) /\ {end1 + 1, m, n} # {}
        /\ end1 + 1 + m + n \in Nat
    <3>1. end1 \in Nat
      <4> HIDE DEF start1
      <4> QED
        BY <1>2, <1>3
    <3> QED
      BY <3>1
  <2>2. \A i \in {end1 + 1, m, n} : i <= Max({end1 + 1, m, n})
    <3> DEFINE K == {end1 + 1, m, n}
               k == end1 + 1 + m + n
    <3> HIDE DEF K, k
    <3>1. \A i \in K : i <= Max(K)
      BY <2>1, MaxFacts DEF K, k
    <3> QED
      BY <3>1 DEF K
  <2> QED
    BY <2>2
<1> HIDE DEF start1, end1, start2, end2
<1> DEFINE a == SubSeq(s, 1, start1 - 1)
           b == SubSeq(s, 1, end1)
           c == SubSeq(s, 1, start2 - 1)
           d == SubSeq(s, 1, end2)
<1>5. /\ start1 - 1 \in Nat /\ end1 \in Nat /\ start2 - 1 \in Nat /\ end2 \in Nat
      /\ start1 - 1 < end1 /\ end1 <= start2 - 1 /\ start2 - 1 < end2 /\ end2 <= all
      /\ (start1 - 1) + 1 = start1 /\ (start2 - 1) + 1 = start2
  BY <1>2, <1>3, <1>4
<1>6. /\ A \in Seq(M) /\ B \in Seq(M) /\ b = A \o B /\ B # <<>> /\ B[1] = s[start1]
  <2> DEFINE i == start1 - 1
  <2>1. i \in Nat /\ i < end1 /\ i <= end1 /\ end1 <= Len(s) /\ i + 1 = start1
        /\ s \in Seq(M) /\ end1 \in Nat
    BY <1>2, <1>5
  <2> HIDE DEF i, M
  <2>2. SubSeq(s, 1, i) \in Seq(M) /\ SubSeq(s, i + 1, end1) \in Seq(M)
    BY <2>1, Slices
  <2>3. SubSeq(s, 1, end1) = SubSeq(s, 1, i) \o SubSeq(s, i + 1, end1)
    BY <2>1, Slices
  <2>4. SubSeq(s, i + 1, end1) # <<>> /\ SubSeq(s, i + 1, end1)[1] = s[i + 1]
    <3> DEFINE t == SubSeq(s, i + 1, end1)
    <3>1. i + 1 \in Nat /\ end1 - i \in Nat /\ end1 - i >= 1 /\ (i + 1) + 1 - 1 = i + 1
      BY <2>1
    <3>2. t[1] = s[i + 1] /\ Len(t) = end1 - i
      <4>1. t[1] = s[i + 1]
        BY <2>1, <3>1
      <4>2. Len(t) = end1 - i
        BY <2>1, Slices
      <4> QED
        BY <4>1, <4>2
    <3>3. t # <<>>
      <4> HIDE DEF t
      <4>1. Len(t) # 0
        BY <3>1, <3>2
      <4> QED
        BY <4>1
    <3> QED
      BY <3>2, <3>3
  <2> QED
    BY <2>1, <2>2, <2>3, <2>4 DEF i
<1>7. /\ C \in Seq(M) /\ c = b \o C
  <2> DEFINE j == start2 - 1
  <2>1. j \in Nat /\ end1 <= j /\ j <= Len(s)
    BY <1>2, <1>5
  <2> HIDE DEF j
  <2>2. /\ SubSeq(s, end1 + 1, j) \in Seq(M)
        /\ SubSeq(s, 1, j) = SubSeq(s, 1, end1) \o SubSeq(s, end1 + 1, j)
    BY <1>2, <1>5, <2>1, Slices
  <2> QED
    BY <2>2 DEF j
<1>8. /\ D \in Seq(M) /\ d = c \o D /\ D # <<>> /\ D[1] = s[start2]
  <2> DEFINE i == start2 - 1
  <2>1. i \in Nat /\ i < end2 /\ i <= end2 /\ end2 <= Len(s) /\ i + 1 = start2
        /\ s \in Seq(M) /\ end2 \in Nat
    BY <1>2, <1>5
  <2> HIDE DEF i, M
  <2>2. SubSeq(s, 1, i) \in Seq(M) /\ SubSeq(s, i + 1, end2) \in Seq(M)
    BY <2>1, Slices
  <2>3. SubSeq(s, 1, end2) = SubSeq(s, 1, i) \o SubSeq(s, i + 1, end2)
    BY <2>1, Slices
  <2>4. SubSeq(s, i + 1, end2) # <<>> /\ SubSeq(s, i + 1, end2)[1] = s[i + 1]
    <3> DEFINE t == SubSeq(s, i + 1, end2)
    <3>1. i + 1 \in Nat /\ end2 - i \in Nat /\ end2 - i >= 1 /\ (i + 1) + 1 - 1 = i + 1
      BY <2>1
    <3>2. t[1] = s[i + 1] /\ Len(t) = end2 - i
      <4>1. t[1] = s[i + 1]
        BY <2>1, <3>1
      <4>2. Len(t) = end2 - i
        BY <2>1, Slices
      <4> QED
        BY <4>1, <4>2
    <3>3. t # <<>>
      <4> HIDE DEF t
      <4>1. Len(t) # 0
        BY <3>1, <3>2
      <4> QED
        BY <4>1
    <3> QED
      BY <3>2, <3>3
  <2> QED
    BY <2>1, <2>2, <2>3, <2>4 DEF i
<1>9. /\ E \in Seq(M) /\ s = d \o E /\ Parses(d) /\ IF HasAction(d) THEN NoSystem(E) ELSE Parses(E)
  <2>1. end2 \in 0..Len(s)
    BY <1>2, <1>5
  <2> QED
    BY <2>1, Cut
<1> HIDE DEF A, B, C, D, E, a, b, c, d, M
<1>10. /\ HasAction(B) /\ (Parses(B) <=> NoSystem(B))
       /\ HasAction(D) /\ (Parses(D) <=> NoSystem(D))
  <2>1. HasAction(B) /\ (Parses(B) <=> NoSystem(B))
    BY <1>2, <1>6, ActionFirst
  <2>2. HasAction(D) /\ (Parses(D) <=> NoSystem(D))
    BY <1>2, <1>8, ActionFirst
  <2> QED
    BY <2>1, <2>2
<1>11. /\ b \in Seq(M) /\ (Parses(b) <=> Parses(A) /\ IF HasAction(A) THEN NoSystem(B) ELSE Parses(B))
       /\ HasAction(b)
  BY <1>6, <1>10, Joined
<1>12. /\ c \in Seq(M) /\ (Parses(c) <=> Parses(b) /\ NoSystem(C)) /\ HasAction(c)
  BY <1>7, <1>11, Joined
<1>13. /\ d \in Seq(M) /\ (Parses(d) <=> Parses(c) /\ NoSystem(D)) /\ HasAction(d)
  BY <1>8, <1>12, Joined
<1>14. Parses(A) /\ NoSystem(B) /\ NoSystem(C) /\ NoSystem(D) /\ NoSystem(E)
  BY <1>9, <1>10, <1>11, <1>12, <1>13
<1> DEFINE x == A \o D
           y == x \o C
           z == y \o B
<1>15. x \in Seq(M) /\ Parses(x) /\ HasAction(x)
  BY <1>6, <1>8, <1>10, <1>14, Joined
<1> HIDE DEF x
<1>16. y \in Seq(M) /\ Parses(y) /\ HasAction(y)
  BY <1>7, <1>14, <1>15, Joined
<1> HIDE DEF y
<1>17. z \in Seq(M) /\ Parses(z) /\ HasAction(z)
  BY <1>6, <1>14, <1>16, Joined
<1> HIDE DEF z
<1>18. z \o E \in Seq(M) /\ Parses(z \o E)
  BY <1>9, <1>14, <1>17, Joined
<1> QED
  BY <1>1, <1>18 DEF Good, M, x, y, z

\* Whatever is asked for.
LEMMA ResultsGood ==
  ASSUME NEW s, Good(s), BlankLast(s), NEW kind \in Kinds, NEW m \in Nat, NEW n \in Nat,
         NEW r \in Results(kind, s, m, n)
  PROVE  Good(r)
<1>1. CASE kind = "submit"
  BY <1>1, ReplaceGood DEF Results
<1>2. CASE kind = "url"
  BY <1>2, ReplaceGood DEF Results
<1>3. CASE kind = "add"
  BY <1>3, AddUrlGood DEF Results
<1>4. CASE kind = "remove"
  BY <1>4, RemoveUrlGood DEF Results
<1>5. CASE kind = "removeSection"
  BY <1>5, RemoveSectionGood DEF Results
<1>6. CASE kind = "addSection"
  BY <1>6, AddSectionGood DEF Results
<1>7. CASE kind = "swap"
  BY <1>7, SwapGood DEF Results
<1> QED
  BY <1>1, <1>2, <1>3, <1>4, <1>5, <1>6, <1>7 DEF Kinds

-----------------------------------------------------------------------------
(* The inductive invariant.                                                *)

\* The file and what threads have of it.
Contents ==
  /\ disk \in Seq(TextLine)
  /\ at \in [Threads -> {"idle", "read", "open", "write"}]
  /\ edited \in [Threads -> Seq(MemoryLine) \cup Seq(TextLine)]
  /\ written \in [Threads -> Nat]

\* A thread that read the file can change it, one that changed it can write it.
Reader(t) == at[t] = "open" => Good(edited[t]) /\ BlankLast(edited[t])
Writer(t) == at[t] = "write" => /\ edited[t] \in Seq(TextLine) /\ Parses(edited[t])
                                /\ written[t] <= Len(edited[t])
Rest(t)   == at[t] # "write" => written[t] = 0

\* What a thread has written: lines, and perhaps the beginning of one more.
WrittenBy(t) == \E cut \in Cuts(edited[t], written[t]) : disk = SubSeq(edited[t], 1, written[t]) \o cut

\* The file can be read, but for a line at its end where its writing ended too soon.
Readable == Parses(IF partial THEN Whole(disk) ELSE disk)

\* Unless two were writing, the file is what the one that writes has written, and what the
\* last one wrote of its file can be read.
OneWriter ==
  ~mixed => /\ \A t, u \in Writing : t = u
            /\ \A t \in Writing : WrittenBy(t)
            /\ Writing = {} => Readable

EditInv == Contents /\ (\A t \in Threads : Reader(t) /\ Writer(t) /\ Rest(t)) /\ OneWriter

\* Whoever brings a file brings one that can be loaded.
LEMMA FilesParse == \A f \in Files : f \in Seq(TextLine) /\ Parses(f)
<1> TAKE f \in Files
<1>1. f \in Seq(TextLine) /\ Parses(ReadLines(f))
  BY EditorAssumption
<1> QED
  BY <1>1, ReadFacts

\* Nobody has read anything yet.
LEMMA InitEdit == Init => EditInv
<1> SUFFICES ASSUME Init PROVE EditInv
  OBVIOUS
<1> USE DEF Init
<1>1. disk \in Seq(TextLine) /\ Parses(disk)
  BY FilesParse
<1>2. <<>> \in Seq(MemoryLine) \cup Seq(TextLine)
  BY NoLines
<1>3. Contents
  BY <1>1, <1>2 DEF Contents
<1>4. \A t \in Threads : Reader(t) /\ Writer(t) /\ Rest(t)
  BY DEF Reader, Writer, Rest
<1>5. OneWriter
  BY <1>1 DEF OneWriter, Writing, Readable
<1> QED
  BY <1>3, <1>4, <1>5 DEF EditInv

\* The rest of a file is a file.
LEMMA FromType ==
  ASSUME NEW S, NEW a \in Seq(S), NEW n \in Nat
  PROVE  From(a, n + 1) \in Seq(S) /\ (Len(a) <= n => From(a, n + 1) = <<>>)
<1>1. Len(a) \in Nat
  OBVIOUS
<1>2. CASE n <= Len(a)
  <2> DEFINE j == Len(a)
             b == SubSeq(a, n + 1, j)
  <2>1. b \in Seq(S) /\ Len(b) = j - n
    <3>1. j \in Nat /\ n <= j /\ j <= Len(a)
      BY <1>1, <1>2
    <3> HIDE DEF j
    <3> QED
      BY <3>1, Slices
  <2> HIDE DEF b
  <2>2. Len(a) <= n => b = <<>>
    <3>1. Len(a) <= n => Len(b) = 0
      BY <1>1, <1>2, <2>1
    <3> QED
      BY <2>1, <3>1
  <2> QED
    BY <2>1, <2>2 DEF From, b
<1>3. CASE n > Len(a)
  <2>1. SubSeq(a, n + 1, Len(a)) = <<>>
    BY <1>1, <1>3
  <2> QED
    BY <2>1, NoLines DEF From
<1> QED
  BY <1>1, <1>2, <1>3

\* What may follow the lines that were written is at most one line.
LEMMA CutFacts ==
  ASSUME NEW e \in Seq(TextLine), NEW w \in 0..Len(e), NEW cut \in Cuts(e, w)
  PROVE  /\ cut \in Seq(TextLine) /\ Len(cut) \in {0, 1} /\ (w = Len(e) => cut = <<>>)
         /\ cut = <<>> \/ \E l \in Beginning(e[w + 1]) : cut = <<l>> /\ w + 1 \in 1..Len(e)
<1>1. e \in Seq(TextLine) /\ Len(e) \in Nat /\ w \in Nat /\ w <= Len(e)
  OBVIOUS
<1>2. CASE cut = <<>>
  BY <1>2, NoLines
<1>3. CASE cut # <<>>
  <2>1. w < Len(e) /\ cut \in {<<l>> : l \in Beginning(e[w + 1])}
    BY <1>3 DEF Cuts
  <2>2. PICK l \in Beginning(e[w + 1]) : cut = <<l>>
    BY <2>1
  <2>3. e[w + 1] \in TextLine /\ w + 1 \in 1..Len(e)
    BY <1>1, <2>1
  <2>4. l \in TextLine
    BY <2>2, <2>3 DEF Beginning, TextLine, New
  <2> QED
    BY <1>1, <2>1, <2>2, <2>3, <2>4
<1> QED
  BY <1>2, <1>3

\* The beginning of a file that can be read can be read, but for the line that was cut.
LEMMA CutParses ==
  ASSUME NEW e \in Seq(TextLine), Parses(e), NEW w \in 0..Len(e), NEW cut \in Cuts(e, w)
  PROVE  /\ Parses(Whole(SubSeq(e, 1, w) \o cut))
         /\ w = Len(e) => Parses(SubSeq(e, 1, w) \o cut)
<1> DEFINE a == SubSeq(e, 1, w)
<1>1. e \in Seq(TextLine) /\ Len(e) \in Nat /\ w \in Nat /\ w <= Len(e) /\ SubSeq(e, 1, Len(e)) = e
  BY Beginnings
<1>2. ASSUME NEW i \in 0..Len(e) PROVE SubSeq(e, 1, i) \in Seq(TextLine) /\ Parses(SubSeq(e, 1, i))
  <2> DEFINE j == Len(e)
             b == SubSeq(e, 1, i)
             c == SubSeq(e, i + 1, j)
  <2>1. b \in Seq(TextLine) /\ c \in Seq(TextLine) /\ SubSeq(e, 1, j) = b \o c
    <3>1. e \in Seq(TextLine) /\ i \in Nat /\ j \in Nat /\ i <= j /\ j <= Len(e)
      BY <1>1
    <3> HIDE DEF j
    <3> QED
      BY <3>1, Slices
  <2>2. e = b \o c
    BY <1>1, <2>1
  <2> HIDE DEF b, c
  <2>3. Parses(b)
    BY <2>1, <2>2, Joined
  <2> QED
    BY <2>1, <2>3 DEF b
<1>3. a \in Seq(TextLine) /\ Parses(a)
  BY <1>2
<1>4. /\ cut \in Seq(TextLine) /\ (w = Len(e) => cut = <<>>)
      /\ cut = <<>> \/ \E l \in Beginning(e[w + 1]) : cut = <<l>> /\ w + 1 \in 1..Len(e)
  BY CutFacts
<1> HIDE DEF a
<1>5. CASE cut = <<>>
  <2>1. a \o cut = a
    BY <1>3, <1>5
  <2>2. ~(a # <<>> /\ a[Len(a)].type = "broken")
    <3>1. a # <<>> => Len(a) \in DOMAIN a
      BY <1>3
    <3> QED
      BY <1>3, <3>1 DEF Parses
  <2>3. Whole(a) = a
    BY <2>2 DEF Whole
  <2> QED
    BY <1>3, <2>1, <2>3 DEF a
<1>6. CASE cut # <<>>
  <2>1. PICK l \in Beginning(e[w + 1]) : cut = <<l>> /\ w + 1 \in 1..Len(e)
    BY <1>4, <1>6
  <2> DEFINE x == e[w + 1]
             c == a \o cut
  <2>2. l \in TextLine /\ (l.type = x.type \/ l.type = "broken") /\ x \in TextLine
    <3>1. x \in TextLine
      BY <1>1, <2>1
    <3> QED
      BY <2>1, <3>1 DEF Beginning, TextLine, New
  <2>3. /\ c = Append(a, l) /\ c # <<>> /\ c[Len(c)] = l /\ SubSeq(c, 1, Len(c) - 1) = a
    BY <1>3, <2>1, <2>2
  <2> HIDE DEF c
  <2>4. CASE l.type = "broken"
    <3>1. Whole(c) = a
      BY <2>3, <2>4 DEF Whole
    <3> QED
      BY <1>3, <1>4, <1>6, <3>1 DEF a, c
  <2>5. CASE l.type # "broken"
    <3>1. Whole(c) = c
      BY <2>3, <2>5 DEF Whole
    <3>2. Parses(Append(a, x))
      <4> DEFINE k == w + 1
      <4>1. k \in 1..Len(e) /\ k \in 0..Len(e) /\ k - 1 = w
        BY <1>1, <2>1
      <4>2. SubSeq(e, 1, k) = Append(SubSeq(e, 1, k - 1), e[k])
        <5> HIDE DEF k
        <5> QED
          BY <1>1, <4>1, Beginnings
      <4>3. Parses(SubSeq(e, 1, k))
        BY <1>2, <4>1
      <4> QED
        BY <4>1, <4>2, <4>3 DEF a
    <3> HIDE DEF x
    <3>3. /\ Parses(Append(a, x)) <=> /\ Parses(a) /\ x.type # "broken"
                                      /\ x.type = "system" => ~HasAction(a)
                                      /\ x.type = "url" => HasAction(a)
          /\ Parses(Append(a, l)) <=> /\ Parses(a) /\ l.type # "broken"
                                      /\ l.type = "system" => ~HasAction(a)
                                      /\ l.type = "url" => HasAction(a)
      BY <1>3, <2>2, Appended
    <3>4. Parses(c)
      BY <2>2, <2>3, <2>5, <3>2, <3>3
    <3> QED
      BY <1>4, <1>6, <3>1, <3>4 DEF a, c
  <2> QED
    BY <2>4, <2>5
<1> QED
  BY <1>5, <1>6

\* A request that ends, with its writing or before.
LEMMA EndStep ==
  ASSUME EditInv, NEW t \in Threads, End(t), UNCHANGED <<disk, mixed>>,
         partial' = IF at[t] = "write" THEN written[t] < Len(edited[t]) ELSE partial
  PROVE  EditInv'
<1> USE DEF EditInv
<1>1. /\ at' \in [Threads -> {"idle", "read", "open", "write"}]
      /\ at'[t] = "idle" /\ written'[t] = 0
      /\ \A u \in Threads \ {t} : at'[u] = at[u] /\ edited'[u] = edited[u] /\ written'[u] = written[u]
  BY DEF Contents, End
<1>2. Contents'
  <2>1. <<>> \in Seq(MemoryLine) \cup Seq(TextLine)
    BY NoLines
  <2> QED
    BY <1>1, <2>1 DEF Contents, End
<1>3. \A u \in Threads : Reader(u)' /\ Writer(u)' /\ Rest(u)'
  BY <1>1 DEF Reader, Writer, Rest
<1>4. Writing' = Writing \ {t}
  BY <1>1 DEF Writing
<1>5. ASSUME ~mixed', t \in Writing PROVE Readable'
  <2> DEFINE e == edited[t]
             w == written[t]
  <2>1. PICK cut \in Cuts(e, w) : disk = SubSeq(e, 1, w) \o cut
    BY <1>5 DEF OneWriter, WrittenBy
  <2>2. e \in Seq(TextLine) /\ Parses(e) /\ w <= Len(e) /\ w \in Nat
    BY <1>5 DEF Writing, Writer, Contents
  <2>3. partial' = (w < Len(e)) /\ disk' = disk
    BY <1>5 DEF Writing
  <2> HIDE DEF e, w
  <2>4. w \in 0..Len(e) /\ Len(e) \in Nat
    BY <2>2
  <2>5. Parses(Whole(disk)) /\ (w = Len(e) => Parses(disk))
    BY <2>1, <2>2, <2>4, CutParses
  <2>6. CASE w = Len(e)
    <3>1. ~(w < Len(e))
      BY <2>4, <2>6
    <3>2. ~partial'
      BY <2>3, <3>1, Zenon
    <3> QED
      BY <2>3, <2>5, <2>6, <3>2 DEF Readable
  <2>7. CASE w # Len(e)
    <3>1. w < Len(e)
      BY <2>4, <2>7
    <3>2. partial' = TRUE
      BY <2>3, <3>1, Zenon
    <3> QED
      BY <2>3, <2>5, <3>2 DEF Readable
  <2> QED
    BY <2>6, <2>7
<1>6. OneWriter'
  <2>1. SUFFICES ASSUME ~mixed'
                 PROVE  /\ \A u, v \in Writing' : u = v
                        /\ \A u \in Writing' : WrittenBy(u)'
                        /\ Writing' = {} => Readable'
    BY DEF OneWriter
  <2>2. /\ \A u, v \in Writing : u = v
        /\ \A u \in Writing : WrittenBy(u)
        /\ Writing = {} => Readable
    BY <2>1 DEF OneWriter
  <2>3. \A u, v \in Writing' : u = v
    BY <1>4, <2>2
  <2>4. \A u \in Writing' : WrittenBy(u)'
    <3>1. Writing \subseteq Threads
      BY DEF Writing
    <3> QED
      BY <1>1, <1>4, <2>2, <3>1 DEF WrittenBy
  <2>5. Writing' = {} => Readable'
    <3>1. Writing' = {} => Writing = {} \/ t \in Writing
      BY <1>4
    <3>2. CASE t \in Writing
      BY <1>5, <2>1, <3>2
    <3>3. CASE t \notin Writing
      BY <2>2, <3>1, <3>3 DEF Readable, Writing
    <3> QED
      BY <3>2, <3>3
  <2> QED
    BY <2>3, <2>4, <2>5
<1> QED
  BY <1>2, <1>3, <1>6

\* A thread reads what can be read, or gives up.
LEMMA ReadStep ==
  ASSUME EditInv, NEW t \in Threads, Read(t)
  PROVE  EditInv'
<1> USE DEF EditInv
<1> DEFINE lines == ReadLines(disk)
<1>1. CASE ~Parses(lines)
  <2>1. End(t) /\ UNCHANGED <<disk, mixed, partial>> /\ at[t] = "read"
    BY <1>1 DEF Read
  <2> QED
    BY <2>1, EndStep
<1>2. CASE Parses(lines)
  <2>1. /\ at[t] = "read" /\ at' = [at EXCEPT ![t] = "open"] /\ edited' = [edited EXCEPT ![t] = lines]
        /\ UNCHANGED <<disk, written, mixed, partial>>
    BY <1>2 DEF Read
  <2>2. lines \in Seq(MemoryLine) /\ BlankLast(lines)
    BY ReadFacts DEF Contents
  <2> HIDE DEF lines
  <2>3. /\ at'[t] = "open" /\ edited'[t] = lines /\ written' = written
        /\ \A u \in Threads \ {t} : at'[u] = at[u] /\ edited'[u] = edited[u]
    BY <2>1 DEF Contents
  <2>4. Contents'
    BY <2>1, <2>2 DEF Contents
  <2>5. \A u \in Threads : Reader(u)' /\ Writer(u)' /\ Rest(u)'
    <3> TAKE u \in Threads
    <3>1. CASE u = t
      BY <1>2, <2>1, <2>2, <2>3, <3>1 DEF Reader, Writer, Rest, Good, BlankLast
    <3>2. CASE u # t
      BY <2>3, <3>2 DEF Reader, Writer, Rest, Good, BlankLast
    <3> QED
      BY <3>1, <3>2
  <2>6. Writing' = Writing /\ \A u \in Writing : edited'[u] = edited[u]
    BY <2>1, <2>3 DEF Writing
  <2>7. OneWriter'
    BY <2>1, <2>6 DEF OneWriter, WrittenBy, Readable
  <2> QED
    BY <2>4, <2>5, <2>7
<1> QED
  BY <1>1, <1>2

\* The file is empty, and what will be written can be loaded.
LEMMA OpenStep ==
  ASSUME EditInv, NEW t \in Threads, Open(t)
  PROVE  EditInv'
<1> USE DEF EditInv
<1>1. PICK kind \in Kinds, m \in 0..MaxLine, n \in 0..MaxLine :
        \E result \in Results(kind, edited[t], m, n) : edited' = [edited EXCEPT ![t] = Written(result)]
  BY DEF Open
<1>2. PICK result \in Results(kind, edited[t], m, n) : edited' = [edited EXCEPT ![t] = Written(result)]
  BY <1>1
<1>3. /\ at[t] = "open" /\ at' = [at EXCEPT ![t] = "write"] /\ disk' = <<>> /\ written' = written
      /\ mixed' = (mixed \/ Writing \ {t} # {})
  BY DEF Open, Modify
<1>4. m \in Nat /\ n \in Nat /\ Good(edited[t]) /\ BlankLast(edited[t]) /\ written[t] = 0
  BY <1>3, EditorAssumption DEF Reader, Rest
<1>5. Good(result)
  BY <1>4, ResultsGood
<1> DEFINE text == Written(result)
<1>6. text \in Seq(TextLine) /\ Parses(text) /\ Len(text) \in Nat
  BY <1>5, WrittenFacts DEF Good
<1>7. edited' = [edited EXCEPT ![t] = text]
  BY <1>2
<1> HIDE DEF text
<1>8. /\ at'[t] = "write" /\ edited'[t] = text /\ written'[t] = 0
      /\ \A u \in Threads \ {t} : at'[u] = at[u] /\ edited'[u] = edited[u] /\ written'[u] = written[u]
  BY <1>3, <1>4, <1>7 DEF Contents
<1>9. Contents'
  BY <1>3, <1>6, <1>7, NoLines DEF Contents
<1>10. \A u \in Threads : Reader(u)' /\ Writer(u)' /\ Rest(u)'
  <2> TAKE u \in Threads
  <2>1. CASE u = t
    BY <1>6, <1>8, <2>1 DEF Reader, Writer, Rest
  <2>2. CASE u # t
    BY <1>8, <2>2 DEF Reader, Writer, Rest, Good, BlankLast
  <2> QED
    BY <2>1, <2>2
<1>11. Writing' = Writing \cup {t} /\ t \notin Writing
  BY <1>3, <1>8 DEF Writing
<1>12. OneWriter'
  <2>1. SUFFICES ASSUME ~mixed'
                 PROVE  /\ \A u, v \in Writing' : u = v
                        /\ \A u \in Writing' : WrittenBy(u)'
                        /\ Writing' = {} => Readable'
    BY DEF OneWriter
  <2>2. Writing' = {t}
    BY <1>3, <1>11, <2>1
  <2>3. disk' = SubSeq(edited'[t], 1, written'[t]) \o <<>> /\ <<>> \in Cuts(edited'[t], written'[t])
    <3>1. disk' = SubSeq(edited'[t], 1, written'[t]) /\ disk' \o <<>> = <<>>
      BY <1>3, <1>6, <1>8, Beginnings
    <3> QED
      BY <1>3, <3>1 DEF Cuts
  <2>4. WrittenBy(t)'
    BY <2>3 DEF WrittenBy
  <2> QED
    BY <2>2, <2>4
<1> QED
  BY <1>9, <1>10, <1>12

\* A single writer extends what it wrote.
LEMMA FlushStep ==
  ASSUME EditInv, NEW t \in Threads, Flush(t)
  PROVE  EditInv'
<1> USE DEF EditInv
<1> DEFINE e == edited[t]
           w == written[t]
<1>1. /\ at[t] = "write" /\ at' = at /\ edited' = edited
      /\ mixed' = (mixed \/ Writing \ {t} # {})
  BY DEF Flush, Modify
<1>2. PICK n \in {w, 1, Len(e)} : \E cut \in Cuts(e, n) :
        /\ w < n \/ (w = n /\ cut # <<>>)
        /\ n <= Len(e)
        /\ disk' = SubSeq(e, 1, n) \o cut \o From(disk, n + Len(cut) + 1)
        /\ written' = [written EXCEPT ![t] = n]
  BY DEF Flush
<1>3. PICK cut \in Cuts(e, n) :
        /\ w < n \/ (w = n /\ cut # <<>>)
        /\ n <= Len(e)
        /\ disk' = SubSeq(e, 1, n) \o cut \o From(disk, n + Len(cut) + 1)
        /\ written' = [written EXCEPT ![t] = n]
  BY <1>2
<1>4. e \in Seq(TextLine) /\ Len(e) \in Nat /\ w \in Nat /\ n \in Nat /\ w <= Len(e)
      /\ disk \in Seq(TextLine) /\ t \in Writing
  BY <1>1 DEF Writer, Contents, Writing
<1> HIDE DEF e, w
<1> DEFINE a == SubSeq(e, 1, n)
           k == n + Len(cut)
           rest == From(disk, k + 1)
<1>5. n \in 0..Len(e)
  BY <1>3, <1>4
<1>6. cut \in Seq(TextLine) /\ Len(cut) \in {0, 1} /\ k \in Nat
  BY <1>4, <1>5, CutFacts
<1>7. a \in Seq(TextLine) /\ rest \in Seq(TextLine) /\ (Len(disk) <= k => rest = <<>>)
  <2>1. a \in Seq(TextLine)
    BY <1>3, <1>4, Slices
  <2> HIDE DEF k
  <2> QED
    BY <1>4, <1>6, <2>1, FromType
<1>8. disk' = a \o cut \o rest /\ disk' \in Seq(TextLine)
  <2>1. disk' = a \o cut \o rest
    BY <1>3
  <2> HIDE DEF a, rest
  <2> QED
    BY <1>6, <1>7, <2>1
<1>9. /\ written'[t] = n /\ edited'[t] = e
      /\ \A u \in Threads \ {t} : written'[u] = written[u]
  BY <1>1, <1>3 DEF Contents, e
<1>10. Contents'
  BY <1>1, <1>3, <1>4, <1>8 DEF Contents
<1>11. \A u \in Threads : Reader(u)' /\ Writer(u)' /\ Rest(u)'
  <2> TAKE u \in Threads
  <2>1. CASE u = t
    BY <1>1, <1>3, <1>9, <2>1 DEF Reader, Writer, Rest, e
  <2>2. CASE u # t
    BY <1>1, <1>9, <2>2 DEF Reader, Writer, Rest, Good, BlankLast
  <2> QED
    BY <2>1, <2>2
<1>12. OneWriter'
  <2>1. SUFFICES ASSUME ~mixed'
                 PROVE  /\ \A u, v \in Writing' : u = v
                        /\ \A u \in Writing' : WrittenBy(u)'
                        /\ Writing' = {} => Readable'
    BY DEF OneWriter
  <2>2. Writing' = {t} /\ ~mixed
    <3>1. Writing' = Writing
      BY <1>1 DEF Writing
    <3> QED
      BY <1>1, <1>4, <2>1, <3>1
  <2>3. PICK before \in Cuts(e, w) : disk = SubSeq(e, 1, w) \o before
    BY <1>4, <2>2 DEF OneWriter, WrittenBy, e, w
  <2>4. w \in 0..Len(e)
    BY <1>4
  <2>5. before \in Seq(TextLine) /\ Len(before) \in {0, 1}
    BY <1>4, <2>4, CutFacts
  <2>6. SubSeq(e, 1, w) \in Seq(TextLine) /\ Len(SubSeq(e, 1, w)) = w
    BY <1>4, <2>4
  <2>7. Len(disk) <= w + 1
    BY <1>4, <2>3, <2>5, <2>6
  <2>8. Len(disk) <= k
    <3>1. CASE w < n
      BY <1>4, <1>6, <2>7, <3>1
    <3>2. CASE w = n /\ cut # <<>>
      <4>1. Len(cut) = 1
        BY <1>6, <3>2
      <4> HIDE DEF a, rest
      <4> QED
        BY <1>4, <2>7, <3>2, <4>1
    <3> QED
      BY <1>3, <3>1, <3>2
  <2>9. disk' = a \o cut
    <3>1. rest = <<>>
      BY <1>7, <2>8
    <3> HIDE DEF a, rest, k
    <3> QED
      BY <1>6, <1>7, <1>8, <3>1
  <2>10. WrittenBy(t)'
    BY <1>9, <2>9 DEF WrittenBy
  <2> QED
    BY <2>2, <2>10
<1> QED
  BY <1>10, <1>11, <1>12

\* The program ends, with all its threads: what was being written stays as it is.
LEMMA FatalStep ==
  ASSUME EditInv, Fatal
  PROVE  EditInv'
<1> USE DEF EditInv
<1>1. /\ at' = [t \in Threads |-> "idle"] /\ edited' = [t \in Threads |-> <<>>]
      /\ written' = [t \in Threads |-> 0] /\ UNCHANGED <<disk, mixed>>
      /\ partial' = (partial \/ \E t \in Writing : written[t] < Len(edited[t]))
  BY DEF Fatal
<1>2. Contents'
  BY <1>1, NoLines DEF Contents
<1>3. \A u \in Threads : Reader(u)' /\ Writer(u)' /\ Rest(u)'
  BY <1>1 DEF Reader, Writer, Rest
<1>4. Writing' = {}
  BY <1>1 DEF Writing
<1>5. ASSUME ~mixed PROVE Readable'
  <2>1. CASE Writing = {}
    BY <1>1, <1>5, <2>1 DEF OneWriter, Readable
  <2>2. CASE Writing # {}
    <3>1. PICK t \in Writing : WrittenBy(t) /\ t \in Threads
      BY <1>5, <2>2 DEF OneWriter, Writing
    <3> DEFINE e == edited[t]
               w == written[t]
    <3>2. PICK cut \in Cuts(e, w) : disk = SubSeq(e, 1, w) \o cut
      BY <3>1 DEF WrittenBy
    <3>3. e \in Seq(TextLine) /\ Parses(e) /\ w <= Len(e) /\ w \in Nat
      BY <3>1 DEF Writing, Writer, Contents
    <3>4. w < Len(e) => partial'
      BY <1>1, <3>1
    <3> HIDE DEF e, w
    <3>5. w \in 0..Len(e) /\ Len(e) \in Nat
      BY <3>3
    <3>6. Parses(Whole(disk)) /\ (w = Len(e) => Parses(disk))
      BY <3>2, <3>3, <3>5, CutParses
    <3> QED
      BY <1>1, <3>4, <3>5, <3>6 DEF Readable
  <2> QED
    BY <2>1, <2>2
<1>6. OneWriter'
  BY <1>1, <1>4, <1>5 DEF OneWriter
<1> QED
  BY <1>2, <1>3, <1>6

\* Another editor replaces the file; where a thread was writing, two are.
LEMMA OutsideStep ==
  ASSUME EditInv, Outside
  PROVE  EditInv'
<1> USE DEF EditInv
<1>1. disk' \in Seq(TextLine) /\ Parses(disk')
  BY FilesParse DEF Outside
<1>2. /\ at' = at /\ edited' = edited /\ written' = written
      /\ mixed' = (mixed \/ Writing \ {} # {}) /\ partial' = FALSE
  BY DEF Outside, Modify, requestVars
<1>3. Contents'
  BY <1>1, <1>2 DEF Contents
<1>4. \A u \in Threads : Reader(u)' /\ Writer(u)' /\ Rest(u)'
  BY <1>2 DEF Reader, Writer, Rest
<1>5. OneWriter'
  <2>1. Writing' = Writing
    BY <1>2 DEF Writing
  <2> QED
    BY <1>1, <1>2, <2>1 DEF OneWriter, Readable
<1> QED
  BY <1>3, <1>4, <1>5

\* A request begins.
LEMMA BeginStep ==
  ASSUME EditInv, NEW t \in Threads, Begin(t)
  PROVE  EditInv'
<1> USE DEF EditInv
<1>1. /\ at[t] = "idle" /\ (at' = at \/ at' = [at EXCEPT ![t] = "read"])
      /\ UNCHANGED <<disk, edited, written, mixed, partial>>
  BY DEF Begin, historyVars
<1>2. \A u \in Threads : at'[u] = at[u] \/ (at'[u] = "read" /\ at[u] = "idle")
  BY <1>1 DEF Contents
<1>3. Contents'
  BY <1>1 DEF Contents
<1>4. \A u \in Threads : Reader(u)' /\ Writer(u)' /\ Rest(u)'
  BY <1>1, <1>2 DEF Reader, Writer, Rest
<1>5. Writing' = Writing
  BY <1>2 DEF Writing
<1>6. OneWriter'
  BY <1>1, <1>5 DEF OneWriter, WrittenBy, Readable
<1> QED
  BY <1>3, <1>4, <1>6

\* The other steps are about pages, the clock and the loader.
LEMMA Untouched ==
  ASSUME EditInv, UNCHANGED <<disk, at, edited, written, mixed, partial>>
  PROVE  EditInv'
<1> USE DEF EditInv
<1>1. Contents'
  BY DEF Contents
<1>2. \A u \in Threads : Reader(u)' /\ Writer(u)' /\ Rest(u)'
  BY DEF Reader, Writer, Rest
<1>3. Writing' = Writing
  BY DEF Writing
<1>4. OneWriter'
  BY <1>3 DEF OneWriter, WrittenBy, Readable
<1> QED
  BY <1>1, <1>2, <1>4

\* The invariant is inductive.
LEMMA NextEdit == EditInv /\ [Next]_vars => EditInv'
<1> SUFFICES ASSUME EditInv, [Next]_vars PROVE EditInv'
  OBVIOUS
<1>1. ASSUME NEW t \in Threads, Show(t) PROVE EditInv'
  BY <1>1, Untouched DEF Show, requestVars, historyVars
<1>2. ASSUME NEW t \in Threads, Begin(t) PROVE EditInv'
  BY <1>2, BeginStep
<1>3. ASSUME NEW t \in Threads, Read(t) PROVE EditInv'
  BY <1>3, ReadStep
<1>4. ASSUME NEW t \in Threads, Open(t) PROVE EditInv'
  BY <1>4, OpenStep
<1>5. ASSUME NEW t \in Threads, Refuse(t) PROVE EditInv'
  BY <1>5, EndStep DEF Refuse
<1>6. ASSUME NEW t \in Threads, Flush(t) PROVE EditInv'
  BY <1>6, FlushStep
<1>7. ASSUME NEW t \in Threads, Close(t) PROVE EditInv'
  BY <1>7, EndStep DEF Close
<1>8. CASE Tick
  BY <1>8, Untouched DEF Tick, requestVars, historyVars
<1>9. CASE Load
  BY <1>9, Untouched DEF Load, requestVars, historyVars
<1>10. CASE Outside
  BY <1>10, OutsideStep
<1>11. CASE Reconfigure
  BY <1>11, Untouched DEF Reconfigure, requestVars, historyVars
<1>12. CASE UNCHANGED vars
  BY <1>12, Untouched DEF vars, requestVars, historyVars
<1>13. CASE Fatal
  BY <1>13, FatalStep
<1> QED
  BY <1>1, <1>2, <1>3, <1>4, <1>5, <1>6, <1>7, <1>8, <1>9, <1>10, <1>11, <1>12, <1>13 DEF Next

-----------------------------------------------------------------------------
\* What the editor's threads and the file are, in every state.
THEOREM EditorInvariant == Spec => []EditInv
<1> QED
  BY InitEdit, NextEdit, PTL DEF Spec

\* Whatever line numbers requests have, in whatever order, the editor leaves a file that it can
\* read again, unless two were writing at the same time; when its writing fails half way, the
\* line in whose middle that happened, the last one, is all that is wrong with it.
THEOREM FileAlwaysValid == Spec => []FileStaysValid
<1>1. EditInv => FileStaysValid
  <2> DEFINE text == IF partial THEN Whole(disk) ELSE disk
  <2>1. SUFFICES ASSUME EditInv, Writing = {}, ~mixed PROVE Parses(ReadLines(text))
    BY DEF FileStaysValid
  <2>2. Parses(text) /\ disk \in Seq(TextLine)
    BY <2>1 DEF EditInv, OneWriter, Contents, Readable
  <2>3. text \in Seq(TextLine)
    <3>1. SubSeq(disk, 1, Len(disk) - 1) \in Seq(TextLine)
      BY <2>2
    <3> QED
      BY <2>2, <3>1 DEF Whole
  <2> HIDE DEF text
  <2> QED
    BY <2>2, <2>3, ReadFacts
<1> QED
  BY <1>1, EditorInvariant, PTL
=============================================================================
