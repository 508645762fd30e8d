----------------------- MODULE ClientConnectionProofs -----------------------
(***************************************************************************)
(* Proofs about a client's connection: the requests that are read from it  *)
(* (ClientSession), and the files that TLS with the client needs           *)
(* (Certificates).                                                         *)
(*                                                                         *)
(* ClientSession.  What the client has sent and what is buffered of it is  *)
(* one stream of units, iob \o wire \o todo.  The invariant says for each  *)
(* place of the thread where in a request that stream continues, and of    *)
(* which request the last unit written to the server is.  Sending, closing *)
(* and beginning requests changes the far end of the stream, the thread    *)
(* takes units from the near end; how streams are taken apart and extended *)
(* is shown first, of sequences alone.                                     *)
(*                                                                         *)
(* Certificates.  The invariant follows the thread that holds the mutex    *)
(* through generate_host_certificate(): what the files of its host look    *)
(* like at each step.  No other thread changes a file, and expiry and      *)
(* restarts change nothing that the steps rely on.                         *)
(***************************************************************************)
EXTENDS ClientSession, Certificates, NaturalsInduction, WellFoundedInduction, SequenceTheorems, TLAPS

-----------------------------------------------------------------------------
(* Sequences.                                                              *)

\* The order on the natural numbers, as the theorems on well-founded relations want it.
LEMMA Smaller == \A i, k \in Nat : <<k, i>> \in OpToRel(<, Nat) <=> k < i
  BY DEF OpToRel

\* Every nonempty set of natural numbers has a least element: what stands in for induction.
LEMMA LeastElement ==
  ASSUME NEW S, S \subseteq Nat, S # {}
  PROVE  \E i \in S : \A k \in S : i <= k
<1>1. PICK i \in S : \A k \in S : ~ (<<k, i>> \in OpToRel(<, Nat))
  BY NatLessThanWellFounded, WFMin
<1>2. \A k \in S : ~ (k < i)
  BY <1>1, Smaller
<1> QED
  BY <1>2

\* A sequence is empty when it has no elements.
LEMMA Empty == \A S : \A a \in Seq(S) : Len(a) \in Nat /\ (a = <<>> <=> Len(a) = 0)
<1> TAKE S
<1> TAKE a \in Seq(S)
<1>1. a = <<>> => Len(a) = 0
  OBVIOUS
<1>2. Len(a) = 0 => a = <<>>
  OBVIOUS
<1>3. Len(a) \in Nat
  OBVIOUS
<1> QED
  BY <1>1, <1>2, <1>3

\* Two sequences, one behind the other.
LEMMA Joins ==
  ASSUME NEW S, NEW a \in Seq(S), NEW b \in Seq(S)
  PROVE  /\ a \o b \in Seq(S) /\ Len(a \o b) = Len(a) + Len(b)
         /\ Len(a) \in Nat /\ Len(b) \in Nat
         /\ \A i \in 1..Len(a) : (a \o b)[i] = a[i]
         /\ \A i \in 1..Len(b) : (a \o b)[Len(a) + i] = b[i]
         /\ a \o b = <<>> <=> a = <<>> /\ b = <<>>
<1>1. /\ a \o b \in Seq(S) /\ Len(a \o b) = Len(a) + Len(b)
      /\ \A i \in 1..Len(a) + Len(b) : (a \o b)[i] = IF i <= Len(a) THEN a[i] ELSE b[i - Len(a)]
  BY ConcatProperties
<1>2. Len(a) \in Nat /\ Len(b) \in Nat
  OBVIOUS
<1>3. \A i \in 1..Len(a) : (a \o b)[i] = a[i]
  BY <1>1, <1>2
<1>4. \A i \in 1..Len(b) : (a \o b)[Len(a) + i] = b[i]
  <2> TAKE i \in 1..Len(b)
  <2>1. Len(a) + i \in 1..Len(a) + Len(b) /\ ~ (Len(a) + i <= Len(a)) /\ (Len(a) + i) - Len(a) = i
    BY <1>2
  <2> QED
    BY <1>1, <2>1
<1>5. a \o b = <<>> <=> a = <<>> /\ b = <<>>
  BY ConcatEqualIffEmpty
<1> QED
  BY <1>1, <1>2, <1>3, <1>4, <1>5

\* Three sequences, one behind the other.
LEMMA Associates ==
  ASSUME NEW S, NEW a \in Seq(S), NEW b \in Seq(S), NEW c \in Seq(S)
  PROVE  (a \o b) \o c = a \o (b \o c) /\ b \o c \in Seq(S)
<1>1. b \o c \in Seq(S)
  BY ConcatProperties
<1> QED
  BY <1>1, ConcatAssociative

\* A sequence, cut in two.
LEMMA Cut ==
  ASSUME NEW S, NEW a \in Seq(S), NEW n \in 0..Len(a)
  PROVE  /\ SubSeq(a, 1, n) \in Seq(S) /\ From(a, n + 1) \in Seq(S)
         /\ Len(SubSeq(a, 1, n)) = n /\ Len(From(a, n + 1)) = Len(a) - n
         /\ \A i \in 1..n : SubSeq(a, 1, n)[i] = a[i]
         /\ \A i \in 1..(Len(a) - n) : From(a, n + 1)[i] = a[n + i]
         /\ SubSeq(a, 1, n) \o From(a, n + 1) = a
         /\ n # 0 => SubSeq(a, 1, n) # <<>>
<1>1. Len(a) \in Nat /\ n \in Nat /\ n <= Len(a)
  OBVIOUS
<1>2. \A i \in 1..Len(a) : a[i] \in S
  OBVIOUS
<1>3. /\ SubSeq(a, 1, n) \in Seq(S) /\ Len(SubSeq(a, 1, n)) = n
      /\ \A i \in 1..n : SubSeq(a, 1, n)[i] = a[i]
  BY <1>1, <1>2
<1>4. /\ From(a, n + 1) \in Seq(S) /\ Len(From(a, n + 1)) = Len(a) - n
  BY <1>1, <1>2 DEF From
<1>5. \A i \in 1..(Len(a) - n) : From(a, n + 1)[i] = a[n + i]
  <2> TAKE i \in 1..(Len(a) - n)
  <2>1. (n + 1) + i - 1 = n + i /\ i \in 1..(Len(a) + 1 - (n + 1))
    BY <1>1
  <2> QED
    BY <1>1, <2>1 DEF From
<1>6. SubSeq(a, 1, n) \o From(a, n + 1) = SubSeq(a, 1, Len(a))
  <2>1. 1 \in 1..Len(a) + 1 /\ n \in 1 - 1 .. Len(a) /\ Len(a) \in n .. Len(a)
    BY <1>1
  <2> QED
    BY <2>1, ConcatAdjacentSubSeq DEF From
<1>7. SubSeq(a, 1, Len(a)) = a
  BY SubSeqFull
<1>8. n # 0 => SubSeq(a, 1, n) # <<>>
  <2> DEFINE p == SubSeq(a, 1, n)
  <2>1. p \in Seq(S) /\ Len(p) = n
    BY <1>3
  <2> HIDE DEF p
  <2>2. p = <<>> => Len(p) = 0
    BY <2>1
  <2> QED
    BY <2>1, <2>2 DEF p
<1> QED
  BY <1>3, <1>4, <1>5, <1>6, <1>7, <1>8

-----------------------------------------------------------------------------
(* Streams: units that come one after the other.  They depend on what the  *)
(* client has begun (rs), whether it is open (cl) and which answers did    *)
(* not wait (ab), which are parameters here.                               *)

UnitType == Nat \X Nat
Bodied(rs) == Len(rs) \in Nat /\ \A r \in 1..Len(rs) : rs[r].body \in Nat
Known(rs, x) == \A i \in 1..Len(x) : x[i][1] \in 1..Len(rs)

EndsIn(rs, u) == u[2] = 3 + rs[u[1]].body \/ u[2] = 0
Succ(rs, u)   == IF EndsIn(rs, u) THEN <<u[1] + 1, 1>> ELSE <<u[1], u[2] + 1>>
Chain(rs, x)  == \A i \in 2..Len(x) : x[i] = Succ(rs, x[i - 1])
Said(rs, cl, u) == cl = "open" => EndsIn(rs, u) /\ u[1] = Len(rs)

\* x is what comes behind u.
Continues(rs, cl, u, x) ==
  IF x = <<>> THEN Said(rs, cl, u)
  ELSE Chain(rs, x) /\ x[1] = Succ(rs, u) /\ Said(rs, cl, x[Len(x)])

\* x is what comes behind something.
Lined(rs, cl, x) == x # <<>> => Chain(rs, x) /\ Said(rs, cl, x[Len(x)])

\* What comes behind something is a stream.
LEMMA IsLined == \A rs, cl, u, x : Continues(rs, cl, u, x) => Lined(rs, cl, x)
  BY DEF Continues, Lined

\* Several are taken.
LEMMA TakeMany ==
  ASSUME NEW rs, NEW cl, NEW x \in Seq(UnitType), NEW y \in Seq(UnitType), x # <<>>,
         Lined(rs, cl, x \o y)
  PROVE  Continues(rs, cl, x[Len(x)], y)
<1> DEFINE z == x \o y
<1>1. /\ Len(x) \in Nat /\ Len(y) \in Nat /\ Len(x) # 0 /\ Len(z) = Len(x) + Len(y) /\ z # <<>>
      /\ \A i \in 1..Len(x) : z[i] = x[i]
      /\ \A i \in 1..Len(y) : z[Len(x) + i] = y[i]
  <2>1. Len(x) # 0
    OBVIOUS
  <2> QED
    BY Joins, <2>1
<1>2. Lined(rs, cl, z)
  OBVIOUS
<1> HIDE DEF z
<1>3. \A i \in 2..Len(z) : z[i] = Succ(rs, z[i - 1])
  BY <1>1, <1>2 DEF Lined, Chain
<1>4. Said(rs, cl, z[Len(z)])
  BY <1>1, <1>2 DEF Lined
<1>5. CASE y = <<>>
  <2>1. Len(z) = Len(x) /\ z[Len(x)] = x[Len(x)]
    BY <1>1, <1>5
  <2> QED
    BY <1>4, <1>5, <2>1 DEF Continues
<1>6. CASE y # <<>>
  <2>1. Len(y) # 0
    BY <1>6
  <2>2. z[Len(x) + 1] = y[1] /\ z[Len(x)] = x[Len(x)] /\ z[Len(z)] = y[Len(y)]
    <3>1. 1 \in 1..Len(y) /\ Len(y) \in 1..Len(y) /\ Len(x) \in 1..Len(x)
      BY <1>1, <2>1
    <3> QED
      BY <1>1, <3>1
  <2>3. z[Len(x) + 1] = Succ(rs, z[Len(x)])
    <3>1. Len(x) + 1 \in 2..Len(z) /\ (Len(x) + 1) - 1 = Len(x)
      BY <1>1, <2>1
    <3> QED
      BY <1>3, <3>1
  <2>4. ASSUME NEW i \in 2..Len(y) PROVE y[i] = Succ(rs, y[i - 1])
    <3>1. i \in 1..Len(y) /\ i - 1 \in 1..Len(y) /\ Len(x) + i \in 2..Len(z) /\ (Len(x) + i) - 1 = Len(x) + (i - 1)
      BY <1>1
    <3>2. z[Len(x) + i] = y[i] /\ z[Len(x) + (i - 1)] = y[i - 1]
      BY <1>1, <3>1
    <3>3. z[Len(x) + i] = Succ(rs, z[(Len(x) + i) - 1])
      BY <1>3, <3>1
    <3> QED
      BY <3>1, <3>2, <3>3
  <2> QED
    BY <1>4, <1>6, <2>2, <2>3, <2>4 DEF Continues, Chain
<1> QED
  BY <1>5, <1>6

\* The end may be missing when the client is gone.
LEMMA Shortened ==
  ASSUME NEW rs, NEW cl, NEW x \in Seq(UnitType), NEW y \in Seq(UnitType)
  PROVE  /\ Lined(rs, cl, x \o y) => Lined(rs, "closed", x)
         /\ \A u : Continues(rs, cl, u, x \o y) => Continues(rs, "closed", u, x)
<1> DEFINE z == x \o y
<1>1. /\ Len(x) \in Nat /\ Len(y) \in Nat /\ Len(z) = Len(x) + Len(y)
      /\ \A i \in 1..Len(x) : z[i] = x[i]
  BY Joins
<1>2. x # <<>> => z # <<>> /\ Len(x) # 0
  <2>1. x # <<>> => Len(x) # 0
    OBVIOUS
  <2> QED
    BY <2>1, Joins
<1> HIDE DEF z
<1>3. Chain(rs, z) => Chain(rs, x)
  <2> SUFFICES ASSUME Chain(rs, z), NEW i \in 2..Len(x) PROVE x[i] = Succ(rs, x[i - 1])
    BY DEF Chain
  <2>1. i \in 1..Len(x) /\ i - 1 \in 1..Len(x) /\ i \in 2..Len(z)
    BY <1>1
  <2> QED
    BY <1>1, <2>1 DEF Chain
<1>4. \A u : Said(rs, "closed", u)
  BY DEF Said
<1>5. Lined(rs, cl, z) => Lined(rs, "closed", x)
  BY <1>2, <1>3, <1>4 DEF Lined
<1>6. ASSUME NEW u, Continues(rs, cl, u, z) PROVE Continues(rs, "closed", u, x)
  <2>1. CASE x = <<>>
    BY <1>4, <2>1 DEF Continues
  <2>2. CASE x # <<>>
    <3>1. z[1] = x[1]
      BY <1>1, <1>2, <2>2
    <3> QED
      BY <1>2, <1>3, <1>4, <1>6, <2>2, <3>1 DEF Continues
  <2> QED
    BY <2>1, <2>2
<1> QED
  BY <1>5, <1>6 DEF z

\* The client begins another request.
LEMMA Another ==
  ASSUME NEW R, NEW rs \in Seq(R), NEW k, k.body \in Nat, Bodied(rs),
         NEW x \in Seq(UnitType), Known(rs, x)
  PROVE  LET s == Append(rs, k)
             n == UnitsOf(Len(rs) + 1, k)
         IN  /\ n \in Seq(UnitType) /\ Known(s, n) /\ Bodied(s)
             /\ Lined(rs, "open", x) => Lined(s, "open", x \o n)
             /\ x = <<>> => x \o n # <<>> /\ (x \o n)[1] = <<Len(rs) + 1, 1>>
             /\ \A u \in UnitType : u[1] \in 1..Len(rs) /\ Continues(rs, "open", u, x) => Continues(s, "open", u, x \o n)
<1> DEFINE s == Append(rs, k)
           n == UnitsOf(Len(rs) + 1, k)
           m == Len(rs) + 1
           z == x \o n
<1>1. Len(rs) \in Nat /\ m \in Nat /\ Len(s) = m /\ s[m] = k /\ \A r \in 1..Len(rs) : s[r] = rs[r]
  <2>1. Len(rs) \in Nat
    OBVIOUS
  <2> QED
    BY <2>1
<1>2. /\ n \in Seq(UnitType) /\ Len(n) = 3 + k.body /\ \A i \in 1..Len(n) : n[i] = <<m, i>>
  <2> DEFINE l == 3 + k.body
  <2>1. l \in Nat /\ n = [p \in 1..l |-> <<m, p>>]
    BY DEF UnitsOf
  <2> HIDE DEF l, n
  <2>2. \A p \in 1..l : <<m, p>> \in UnitType
    BY <1>1, <2>1 DEF UnitType
  <2>3. n \in Seq(UnitType) /\ Len(n) = l
    BY <2>1, <2>2
  <2>4. \A i \in 1..l : n[i] = <<m, i>>
    BY <2>1
  <2> QED
    BY <2>3, <2>4 DEF l
<1>3. /\ z \in Seq(UnitType) /\ Len(x) \in Nat /\ Len(n) \in Nat /\ Len(z) = Len(x) + Len(n)
      /\ \A i \in 1..Len(x) : z[i] = x[i]
      /\ \A i \in 1..Len(n) : z[Len(x) + i] = n[i]
      /\ x # <<>> => Len(x) # 0
  <2>1. x # <<>> => Len(x) # 0
    OBVIOUS
  <2> HIDE DEF n
  <2>2. n \in Seq(UnitType)
    BY <1>2
  <2>3. /\ z \in Seq(UnitType) /\ Len(x) \in Nat /\ Len(n) \in Nat /\ Len(z) = Len(x) + Len(n)
        /\ \A i \in 1..Len(x) : z[i] = x[i]
        /\ \A i \in 1..Len(n) : z[Len(x) + i] = n[i]
    BY Joins, <2>2
  <2> QED
    BY <2>1, <2>3
<1> HIDE DEF s, n, m, z
<1>4. z # <<>> /\ z[Len(z)] = <<m, 3 + k.body>>
  <2>1. Len(n) \in 1..Len(n)
    BY <1>2
  <2>2. z[Len(z)] = n[Len(n)]
    BY <2>1, <1>3
  <2>3. Len(z) # 0
    BY <1>2, <1>3
  <2> QED
    BY <1>2, <2>1, <2>2, <2>3
<1>5. Said(s, "open", z[Len(z)])
  BY <1>1, <1>4 DEF Said, EndsIn
<1>6. \A u : u[1] \in 1..Len(rs) => (EndsIn(s, u) <=> EndsIn(rs, u)) /\ Succ(s, u) = Succ(rs, u)
  BY <1>1 DEF EndsIn, Succ
<1>7. \A u : u[1] \in 1..Len(rs) /\ Said(rs, "open", u) => Succ(s, u) = <<m, 1>>
  BY <1>6 DEF Said, Succ, m
<1>8. ASSUME Chain(rs, x), x # <<>> => Said(rs, "open", x[Len(x)])
      PROVE  Chain(s, z)
  <2> SUFFICES ASSUME NEW i \in 2..Len(z) PROVE z[i] = Succ(s, z[i - 1])
    BY DEF Chain
  <2>1. CASE i <= Len(x)
    <3>1. i \in 1..Len(x) /\ i - 1 \in 1..Len(x) /\ i \in 2..Len(x)
      BY <1>3, <2>1
    <3>2. x[i] = Succ(rs, x[i - 1])
      BY <1>8, <3>1 DEF Chain
    <3>3. x[i - 1][1] \in 1..Len(rs)
      BY <3>1 DEF Known
    <3>4. z[i] = x[i] /\ z[i - 1] = x[i - 1]
      BY <3>1, <1>3
    <3> QED
      BY <1>6, <3>2, <3>3, <3>4
  <2>2. CASE i = Len(x) + 1
    <3>1. x # <<>> /\ Len(x) \in 1..Len(x) /\ i - 1 = Len(x)
      <4>1. Len(x) # 0
        BY <1>3, <2>2
      <4> QED
        BY <1>3, <2>2, <4>1
    <3>2. z[i] = n[1] /\ n[1] = <<m, 1>>
      <4>1. 1 \in 1..Len(n)
        BY <1>2
      <4> QED
        BY <1>2, <1>3, <4>1, <2>2
    <3>3. z[i - 1] = x[Len(x)]
      BY <1>3, <3>1
    <3>4. x[Len(x)][1] \in 1..Len(rs) /\ Said(rs, "open", x[Len(x)])
      BY <1>8, <3>1 DEF Known
    <3> QED
      BY <1>7, <3>2, <3>3, <3>4
  <2>3. CASE i > Len(x) + 1
    <3> DEFINE j == i - Len(x)
    <3>1. j \in 1..Len(n) /\ j - 1 \in 1..Len(n) /\ Len(x) + j = i /\ Len(x) + (j - 1) = i - 1
      BY <1>3, <2>3
    <3>2. z[i] = n[j] /\ z[i - 1] = n[j - 1]
      BY <1>3, <3>1
    <3>3. n[j] = <<m, j>> /\ n[j - 1] = <<m, j - 1>>
      BY <1>2, <3>1
    <3>4. ~EndsIn(s, <<m, j - 1>>) /\ (j - 1) + 1 = j
      BY <1>1, <1>2, <3>1 DEF EndsIn
    <3> HIDE DEF j
    <3> QED
      BY <3>2, <3>3, <3>4 DEF Succ
  <2> QED
    BY <1>3, <2>1, <2>2, <2>3
<1>9. Lined(rs, "open", x) => Lined(s, "open", z)
  <2>1. x = <<>> => Chain(rs, x)
    BY DEF Chain
  <2> QED
    BY <1>5, <1>8, <2>1 DEF Lined
<1>10. x = <<>> => z # <<>> /\ z[1] = <<m, 1>>
  <2>1. 1 \in 1..Len(n)
    BY <1>2
  <2>2. x = <<>> => Len(x) = 0
    OBVIOUS
  <2> QED
    BY <1>2, <1>3, <1>4, <2>1, <2>2
<1>11. ASSUME NEW u \in UnitType, u[1] \in 1..Len(rs), Continues(rs, "open", u, x)
       PROVE  Continues(s, "open", u, z)
  <2>1. Chain(s, z)
    <3>1. x = <<>> => Chain(rs, x)
      BY DEF Chain
    <3> QED
      BY <1>8, <1>11, <3>1 DEF Continues
  <2>2. z[1] = Succ(s, u)
    <3>1. CASE x = <<>>
      BY <1>7, <1>10, <1>11, <3>1 DEF Continues
    <3>2. CASE x # <<>>
      <4>1. z[1] = x[1]
        BY <1>3, <3>2
      <4> QED
        BY <1>6, <1>11, <3>2, <4>1 DEF Continues
    <3> QED
      BY <3>1, <3>2
  <2>3. z # <<>>
    BY <1>4
  <2> QED
    BY <1>5, <2>1, <2>2, <2>3 DEF Continues
<1>12. Known(s, n)
  <2> SUFFICES ASSUME NEW i \in 1..Len(n) PROVE n[i][1] \in 1..Len(s)
    BY DEF Known
  <2>1. n[i] = <<m, i>>
    BY <1>2
  <2>2. n[i][1] = m
    BY <2>1
  <2> QED
    BY <1>1, <2>2 DEF m
<1>13. Bodied(s)
  <2>1. \A r \in 1..m : r = m \/ r \in 1..Len(rs)
    BY <1>1 DEF m
  <2> QED
    BY <1>1, <2>1 DEF Bodied
<1> QED
  BY <1>2, <1>9, <1>10, <1>11, <1>12, <1>13 DEF s, n, m, z

\* What is where behind a unit: the rest of its request, then others.
LEMMA Positions ==
  ASSUME NEW rs, Bodied(rs), NEW cl, NEW r \in 1..Len(rs), NEW p \in Nat \ {0}, p <= 3 + rs[r].body,
         NEW x \in Seq(UnitType), Continues(rs, cl, <<r, p>>, x)
  PROVE  \A i \in 1..Len(x) : IF p + i <= 3 + rs[r].body THEN x[i] = <<r, p + i>> ELSE x[i][1] > r
<1> DEFINE e == 3 + rs[r].body
           good(i) == IF p + i <= e THEN x[i] = <<r, p + i>> ELSE x[i][1] > r
           bad == {i \in 1..Len(x) : ~good(i)}
<1>1. e \in Nat /\ r \in Nat /\ Len(x) \in Nat /\ p <= e
  BY DEF Bodied
<1>2. \A q \in Nat \ {0} : EndsIn(rs, <<r, q>>) <=> q = e
  BY <1>1 DEF EndsIn
<1>3. \A q \in Nat \ {0} : Succ(rs, <<r, q>>) = IF q = e THEN <<r + 1, 1>> ELSE <<r, q + 1>>
  BY <1>2 DEF Succ
<1>4. \A u \in UnitType : Succ(rs, u)[1] >= u[1]
  BY DEF Succ, UnitType
<1>5. \A i \in 1..Len(x) : x[i] \in UnitType
  OBVIOUS
<1>6. ASSUME NEW k \in bad, \A i \in bad : k <= i PROVE FALSE
  <2>1. k \in 1..Len(x) /\ ~good(k)
    OBVIOUS
  <2>2. x # <<>>
    BY <2>1
  <2>3. CASE k = 1
    <3>1. x[1] = Succ(rs, <<r, p>>)
      BY <2>2 DEF Continues
    <3>2. x[1] = IF p = e THEN <<r + 1, 1>> ELSE <<r, p + 1>>
      BY <1>3, <3>1
    <3> HIDE DEF e
    <3>3. good(1)
      <4>1. CASE p = e
        <5>1. ~(p + 1 <= e) /\ r + 1 > r
          BY <1>1, <4>1
        <5>2. x[1] = <<r + 1, 1>>
          BY <3>2, <4>1
        <5> QED
          BY <5>1, <5>2
      <4>2. CASE p # e
        <5>1. p + 1 <= e
          BY <1>1, <4>2
        <5> QED
          BY <3>2, <4>2, <5>1
      <4> QED
        BY <4>1, <4>2
    <3> QED
      BY <2>1, <2>3, <3>3
  <2>4. CASE k # 1
    <3> DEFINE j == k - 1
    <3>1. j \in 1..Len(x) /\ k \in 2..Len(x) /\ j < k /\ j + 1 = k
      BY <1>1, <2>1, <2>4
    <3>2. good(j)
      <4>1. j \notin bad
        <5> HIDE DEF bad
        <5>1. j \in Nat /\ k \in Nat /\ ~(k <= j)
          BY <3>1
        <5> QED
          BY <1>6, <5>1
      <4> QED
        BY <3>1, <4>1
    <3>3. x[k] = Succ(rs, x[j])
      BY <2>2, <3>1 DEF Continues, Chain
    <3> HIDE DEF j
    <3>4. CASE p + j <= e
      <4>1. x[j] = <<r, p + j>> /\ p + j \in Nat \ {0}
        BY <3>1, <3>2, <3>4
      <4>2. x[k] = IF p + j = e THEN <<r + 1, 1>> ELSE <<r, (p + j) + 1>>
        BY <1>3, <3>3, <4>1
      <4> HIDE DEF e
      <4>3. (p + j) + 1 = p + k
        BY <3>1
      <4>4. good(k)
        <5>1. CASE p + j = e
          <6>1. ~(p + k <= e) /\ r + 1 > r
            BY <1>1, <3>1, <5>1
          <6>2. x[k] = <<r + 1, 1>>
            BY <4>2, <5>1
          <6> QED
            BY <6>1, <6>2
        <5>2. CASE p + j # e
          <6>1. p + k <= e
            BY <1>1, <3>1, <3>4, <5>2
          <6> QED
            BY <4>2, <4>3, <5>2, <6>1
        <5> QED
          BY <5>1, <5>2
      <4> QED
        BY <2>1, <4>4
    <3>5. CASE ~(p + j <= e)
      <4>1. x[j][1] > r
        BY <3>2, <3>5
      <4>2. x[k][1] >= x[j][1] /\ x[j][1] \in Nat /\ x[k][1] \in Nat
        <5>1. x[j] \in UnitType /\ x[k] \in UnitType
          BY <1>5, <2>1, <3>1
        <5> QED
          BY <1>4, <3>3, <5>1 DEF UnitType
      <4>3. ~(p + k <= e)
        BY <1>1, <3>1, <3>5
      <4> QED
        BY <1>1, <2>1, <4>1, <4>2, <4>3
    <3> QED
      BY <3>4, <3>5
  <2> QED
    BY <2>3, <2>4
<1>7. bad = {}
  <2>1. bad \subseteq Nat
    OBVIOUS
  <2> HIDE DEF bad
  <2> QED
    BY <1>6, <2>1, LeastElement
<1> QED
  BY <1>7

\* Behind a part of the last request there is only the rest of it.
LEMMA OnlyTheRest ==
  ASSUME NEW rs, Bodied(rs), NEW cl, NEW r \in 1..Len(rs), NEW p \in Nat \ {0}, p <= 3 + rs[r].body,
         NEW x \in Seq(UnitType), Known(rs, x), Continues(rs, cl, <<r, p>>, x), r = Len(rs)
  PROVE  p + Len(x) <= 3 + rs[r].body /\ \A i \in 1..Len(x) : x[i] = <<r, p + i>>
<1> DEFINE e == 3 + rs[r].body
<1>1. e \in Nat /\ Len(x) \in Nat /\ p <= e
  BY DEF Bodied
<1>2. \A i \in 1..Len(x) : IF p + i <= e THEN x[i] = <<r, p + i>> ELSE x[i][1] > r
  BY Positions
<1>3. \A i \in 1..Len(x) : x[i][1] \in 1..r
  BY DEF Known
<1> HIDE DEF e
<1>4. \A i \in 1..Len(x) : ~(x[i][1] > r)
  BY <1>3
<1>5. \A i \in 1..Len(x) : p + i <= e /\ x[i] = <<r, p + i>>
  BY <1>2, <1>4
<1>6. p + Len(x) <= e
  <2>1. CASE Len(x) = 0
    BY <1>1, <2>1
  <2>2. CASE Len(x) # 0
    <3>1. Len(x) \in 1..Len(x)
      BY <1>1, <2>2
    <3> QED
      BY <1>5, <3>1
  <2> QED
    BY <2>1, <2>2
<1> QED
  BY <1>5, <1>6 DEF e

-----------------------------------------------------------------------------
(* What a server gets.                                                     *)

Settled(rs, ab, x) == x # <<>> => EndsIn(rs, x[Len(x)]) \/ x[Len(x)][1] \in ab

Orderly(rs, ab, u, v) ==
  \/ v[1] = u[1] /\ (v[2] = u[2] + 1 \/ (u[2] = 3 /\ v[2] = 0))
  \/ v[1] > u[1] /\ v[2] = 3 /\ (EndsIn(rs, u) \/ u[1] \in ab)

Ordered(rs, ab, x) == x # <<>> => x[1][2] = 3 /\ \A i \in 2..Len(x) : Orderly(rs, ab, x[i - 1], x[i])

\* More is sent behind what was sent.
LEMMA SentBehind ==
  ASSUME NEW rs, NEW ab, NEW x \in Seq(UnitType), NEW y \in Seq(UnitType), Ordered(rs, ab, x),
         \A i \in 2..Len(y) : Orderly(rs, ab, y[i - 1], y[i]),
         y # <<>> => IF x = <<>> THEN y[1][2] = 3 ELSE Orderly(rs, ab, x[Len(x)], y[1])
  PROVE  Ordered(rs, ab, x \o y)
<1> DEFINE z == x \o y
<1>1. /\ Len(x) \in Nat /\ Len(y) \in Nat /\ Len(z) = Len(x) + Len(y)
      /\ \A i \in 1..Len(x) : z[i] = x[i]
      /\ \A i \in 1..Len(y) : z[Len(x) + i] = y[i]
      /\ z = <<>> <=> x = <<>> /\ y = <<>>
  BY Joins
<1> HIDE DEF z
<1>2. (x # <<>> => Len(x) # 0) /\ (y # <<>> => Len(y) # 0) /\ (x = <<>> => Len(x) = 0) /\ (y = <<>> => Len(y) = 0)
  OBVIOUS
<1>3. z # <<>> => z[1][2] = 3
  <2>1. CASE x # <<>>
    <3>1. z[1] = x[1]
      BY <1>1, <1>2, <2>1
    <3> QED
      BY <2>1, <3>1 DEF Ordered
  <2>2. CASE x = <<>> /\ y # <<>>
    <3>1. 1 \in 1..Len(y) /\ Len(x) + 1 = 1
      BY <1>1, <1>2, <2>2
    <3>2. z[1] = y[1]
      BY <1>1, <3>1
    <3> QED
      BY <2>2, <3>2
  <2> QED
    BY <1>1, <2>1, <2>2
<1>4. ASSUME NEW i \in 2..Len(z) PROVE Orderly(rs, ab, z[i - 1], z[i])
  <2>1. CASE i <= Len(x)
    <3>1. i \in 1..Len(x) /\ i - 1 \in 1..Len(x) /\ i \in 2..Len(x)
      BY <1>1, <2>1
    <3>2. x # <<>>
      BY <1>2, <3>1
    <3> QED
      BY <1>1, <3>1, <3>2 DEF Ordered
  <2>2. CASE i = Len(x) + 1
    <3>1. x # <<>> /\ Len(x) \in 1..Len(x) /\ i - 1 = Len(x) /\ y # <<>> /\ 1 \in 1..Len(y)
      BY <1>1, <1>2, <2>2
    <3> QED
      BY <1>1, <2>2, <3>1
  <2>3. CASE i > Len(x) + 1
    <3> DEFINE j == i - Len(x)
    <3>1. j \in 2..Len(y) /\ j \in 1..Len(y) /\ j - 1 \in 1..Len(y) /\ Len(x) + j = i /\ Len(x) + (j - 1) = i - 1
      BY <1>1, <2>3
    <3>2. z[i] = y[j] /\ z[i - 1] = y[j - 1]
      BY <1>1, <3>1
    <3>3. Orderly(rs, ab, y[j - 1], y[j])
      BY <3>1
    <3> QED
      BY <3>2, <3>3
  <2> QED
    BY <1>1, <2>1, <2>2, <2>3
<1> QED
  BY <1>3, <1>4 DEF Ordered, z

-----------------------------------------------------------------------------
(* The inductive invariant.                                                *)

Rest   == wire \o todo
Stream == iob \o Rest
Parts  == (DOMAIN reqs) \X Nat
Pcs    == {"line", "headers", "chunked", "parse", "crunch", "buffer", "connect", "send",
           "relay", "established", "done", "idle", "closed"}

Types ==
  /\ conf \in Configurations /\ reqs \in Seq(conf.kinds)
  /\ todo \in Seq(Parts) /\ wire \in Seq(Parts) /\ iob \in Seq(Parts)
  /\ up \in Seq(Parts) /\ pooled \in Seq(Parts)
  /\ client \in {"open", "closed"} /\ sfd \in {"none", "open", "dead"} /\ pc \in Pcs
  /\ req \in {0} \cup DOMAIN reqs /\ stray \in {0} \cup DOMAIN reqs
  /\ expected \in Nat /\ flags \subseteq Flags
  /\ answered \subseteq DOMAIN reqs /\ abandoned \subseteq DOMAIN reqs

\* The client waits for what it does not pipeline behind.
Asked ==
  /\ \A r \in DOMAIN reqs : r < Len(reqs) => r \in answered \/ reqs[r] \in conf.pipelined
  /\ client = "closed" => todo = <<>>

Over == {"done", "idle", "closed"}

\* The flags that are set where.
Marks ==
  /\ pc \notin Over => "lengthSet" \notin flags /\ "crunched" \notin flags /\ "serverKA" \notin flags
  /\ pc \in {"line", "headers", "chunked", "parse"} => "tainted" \notin flags /\ "complete" \notin flags
  /\ pc \in {"headers", "chunked", "parse"} => "waiting" \notin flags /\ ~conf.tls
  /\ conf.tls /\ pc \notin Over => "tainted" \notin flags /\ "complete" \notin flags /\ "waiting" \notin flags

History ==
  /\ Ordered(reqs, abandoned, up)
  /\ Settled(reqs, abandoned, pooled)
  /\ stray # 0 => stray \in abandoned

Clean == "tainted" \notin flags
MayContinue == ~Tainted /\ {"clientKA", "lengthSet"} \subseteq flags

Before(x, r)   == x # <<>> => x[Len(x)][1] < r
AllBelow(A, r) == \A q \in A : q < r

\* Where a request line is looked for, there is one, or the rest of an abandoned request.
Begins(sent, an, ab, x) ==
  x # <<>> => IF x[1][2] = 1 THEN Before(sent, x[1][1]) /\ AllBelow(an, x[1][1])
              ELSE x[1][1] \in ab

Gone == conf.tls /\ client = "closed" /\ iob = <<>> /\ wire = <<>>

AtLine == pc \in {"line", "idle"} \/ (pc = "done" /\ MayContinue)

LineInv ==
  AtLine =>
    /\ Lined(reqs, client, Stream)
    /\ Begins(up, answered, abandoned, Stream)
    /\ sfd = "open" => Settled(reqs, abandoned, up) \/ Gone

DrainedInv ==
  /\ pc = "line" => expected = 0 /\ (~conf.tls /\ LineIn(iob) => "waiting" \in flags)
  /\ pc = "idle" \/ (pc = "done" /\ MayContinue /\ "waiting" \notin flags) => iob = <<>> \/ abandoned # {}
  /\ conf.tls /\ (pc = "idle" \/ (pc = "done" /\ MayContinue)) => iob = <<>>

Middle == {"headers", "chunked", "parse", "crunch", "buffer", "connect", "send"}

MiddleInv ==
  /\ pc \in Middle \cup {"relay", "established"} => req \in DOMAIN reqs /\ AllBelow(answered, req)
  /\ pc \in Middle => Before(up, req) /\ (sfd = "open" => Settled(reqs, abandoned, up))

ReadInv ==
  /\ pc = "headers" => Continues(reqs, client, <<req, 2>>, Stream) /\ expected = 0
  /\ pc \in {"chunked", "parse"} => Continues(reqs, client, <<req, 3>>, Stream)
  /\ pc = "chunked" => Chunked /\ expected = 0
  /\ pc = "parse" => IF Chunked THEN expected = Body(req) /\ Len(iob) >= Body(req) ELSE expected = 0

Single      == Kind \notin conf.pipelined
Filtered    == iob = <<<<req, 0>>>> /\ Rest = <<>> /\ Single /\ Body(req) # 0 /\ conf.filters
Pieces(r, x) == \A i \in 1..Len(x) : x[i] = <<r, 3 + i>>

\* What is buffered is the body as it came.
Unfiltered ==
  /\ Clean => Continues(reqs, client, <<req, 3>>, Stream)
  /\ "waiting" \notin flags => Pieces(req, iob) /\ Len(iob) <= Body(req)
  /\ "complete" \in flags \/ Chunked => Body(req) = 0 \/ Len(iob) = Body(req)
  /\ expected = IF Chunked THEN 0 ELSE Body(req)

RouteInv ==
  pc \in {"crunch", "buffer", "connect", "send"} =>
    /\ Single => Clean
    /\ "waiting" \in flags => Body(req) = 0 /\ Kind.method = "GET"
    /\ "complete" \notin flags => "waiting" \notin flags /\ Single
    /\ (Filtered /\ expected = 0 /\ pc \in {"connect", "send"}) \/ Unfiltered
    /\ pc = "buffer" => expected # 0 /\ conf.filters
    /\ pc = "send" => sfd = "open"

RelayInv ==
  pc = "relay" =>
    /\ conf.tls /\ iob = <<>> /\ up # <<>> /\ Last(up)[1] = req
    /\ Continues(reqs, client, Last(up), Stream)
    /\ expected > 0 /\ Last(up)[2] >= 3 /\ Last(up)[2] + expected = 3 + Body(req)

TalkInv ==
  pc = "established" =>
    /\ up # <<>> /\ Last(up)[1] = req
    /\ Clean => (Filtered /\ ~Whole) \/ Continues(reqs, client, Last(up), Stream)
    /\ iob # <<>> => "waiting" \in flags \/ ~Whole
    /\ conf.tls => iob = <<>> /\ (Ends(Last(up)) \/ (client = "closed" /\ wire = <<>>))
    /\ ~conf.tls /\ "complete" \in flags /\ SentWhole(conf) => Whole
    /\ ~conf.tls /\ "complete" \notin flags =>
         /\ Clean /\ "waiting" \notin flags /\ iob = <<>> /\ Single
         /\ Last(up)[2] <= 3 + Body(req)
         /\ Ends(Last(up)) \/ (Last(up)[2] >= 3 /\ Last(up)[2] + expected >= 3 + Body(req))

Stages == LineInv /\ DrainedInv /\ MiddleInv /\ ReadInv /\ RouteInv /\ RelayInv /\ TalkInv

Inv == Types /\ Asked /\ Marks /\ History /\ Stages

\* What the theorems suppose of the configurations.
Apart == \A c \in Configurations : Separable(c)

\* What the types say of the requests.
LEMMA RequestFacts ==
  ASSUME Types
  PROVE  /\ Len(reqs) \in Nat /\ DOMAIN reqs = 1..Len(reqs) /\ Bodied(reqs)
         /\ \A r \in DOMAIN reqs : /\ reqs[r] \in conf.kinds /\ reqs[r] \in KindType /\ reqs[r].body \in Nat
                                   /\ reqs[r].framing = "none" <=> reqs[r].body = 0
                                   /\ conf.tls => reqs[r].framing # "chunked"
<1>1. conf \in Configurations /\ reqs \in Seq(conf.kinds)
  BY DEF Types
<1>2. conf.kinds \subseteq KindType
  BY <1>1, SessionAssumption DEF ConfigurationType
<1>3. Len(reqs) \in Nat /\ DOMAIN reqs = 1..Len(reqs) /\ \A r \in DOMAIN reqs : reqs[r] \in conf.kinds
  BY <1>1
<1>4. ASSUME NEW r \in DOMAIN reqs
      PROVE  /\ reqs[r] \in conf.kinds /\ reqs[r] \in KindType /\ reqs[r].body \in Nat
             /\ reqs[r].framing = "none" <=> reqs[r].body = 0
             /\ conf.tls => reqs[r].framing # "chunked"
  <2>1. reqs[r] \in conf.kinds /\ reqs[r] \in KindType
    BY <1>2, <1>3
  <2>2. reqs[r].body \in Nat
    BY <2>1 DEF KindType
  <2>3. /\ reqs[r].framing = "none" <=> reqs[r].body = 0
        /\ conf.tls => reqs[r].framing # "chunked"
    BY <1>1, <2>1, SessionAssumption
  <2> QED
    BY <2>1, <2>2, <2>3
<1>5. Bodied(reqs)
  BY <1>3, <1>4 DEF Bodied
<1> QED
  BY <1>3, <1>4, <1>5

\* What they say of a sequence of units.
LEMMA KnownParts ==
  ASSUME Types
  PROVE  \A x \in Seq(Parts) : x \in Seq(UnitType) /\ Known(reqs, x)
<1>1. DOMAIN reqs = 1..Len(reqs) /\ Len(reqs) \in Nat
  BY RequestFacts
<1>2. Parts \subseteq UnitType
  BY <1>1 DEF Parts, UnitType
<1> TAKE x \in Seq(Parts)
<1>3. x \in Seq(UnitType)
  BY <1>2, SeqMonotonic
<1>4. \A i \in 1..Len(x) : x[i] \in Parts
  OBVIOUS
<1>5. Known(reqs, x)
  BY <1>1, <1>4 DEF Known, Parts
<1> QED
  BY <1>3, <1>5

\* What they say of a unit.
LEMMA PartFacts ==
  ASSUME Types
  PROVE  \A u \in Parts : /\ u \in UnitType /\ u = <<u[1], u[2]>>
                           /\ u[1] \in DOMAIN reqs /\ u[1] \in 1..Len(reqs) /\ u[1] \in Nat /\ u[2] \in Nat
<1>1. DOMAIN reqs = 1..Len(reqs) /\ Len(reqs) \in Nat
  BY RequestFacts
<1> TAKE u \in Parts
<1>2. u = <<u[1], u[2]>> /\ u[1] \in DOMAIN reqs /\ u[2] \in Nat
  BY DEF Parts
<1>3. u[1] \in 1..Len(reqs) /\ u[1] \in Nat
  BY <1>1, <1>2
<1>4. u \in UnitType
  BY <1>2, <1>3 DEF UnitType
<1> QED
  BY <1>2, <1>3, <1>4

\* What they say of the stream.
LEMMA StreamFacts ==
  ASSUME Types
  PROVE  /\ Rest \in Seq(Parts) /\ Stream \in Seq(Parts)
         /\ Stream = (iob \o wire) \o todo
<1>1. todo \in Seq(Parts) /\ wire \in Seq(Parts) /\ iob \in Seq(Parts)
  BY DEF Types
<1>2. Rest \in Seq(Parts) /\ Stream \in Seq(Parts)
  BY <1>1, ConcatProperties DEF Rest, Stream
<1>3. Stream = (iob \o wire) \o todo
  BY <1>1, ConcatAssociative DEF Rest, Stream
<1> QED
  BY <1>2, <1>3

\* At first there is nothing.
LEMMA InitInv == Init => Inv
<1> SUFFICES ASSUME Init PROVE Inv
  OBVIOUS
<1> USE DEF Init
<1>1. Types
  <2>1. \A S : <<>> \in Seq(S)
    OBVIOUS
  <2>2. pc \in Pcs
    BY DEF Pcs
  <2> QED
    BY <2>1, <2>2 DEF Types
<1>2. Asked
  <2>1. DOMAIN reqs = {}
    OBVIOUS
  <2> QED
    BY <2>1 DEF Asked
<1>3. Marks
  BY DEF Marks
<1>4. History
  BY DEF History, Ordered, Settled
<1>5. Stream = <<>>
  BY DEF Stream, Rest
<1>6. LineInv
  BY <1>5 DEF LineInv, Lined, Begins
<1>7. DrainedInv /\ MiddleInv /\ ReadInv /\ RouteInv /\ RelayInv /\ TalkInv
  BY DEF DrainedInv, MiddleInv, ReadInv, RouteInv, RelayInv, TalkInv, LineIn, Middle
<1> QED
  BY <1>1, <1>2, <1>3, <1>4, <1>6, <1>7 DEF Inv, Stages

-----------------------------------------------------------------------------
(* What an action of the thread has to show.                               *)

\* Only the part of the invariant about the new place is concerned.
LEMMA OnlyHere ==
  /\ pc' = "closed" \/ (pc' = "done" /\ ~MayContinue') => Stages'
  /\ pc' \in {"line", "idle", "done"} /\ LineInv' /\ DrainedInv' => Stages'
  /\ pc' \in {"headers", "chunked", "parse"} /\ MiddleInv' /\ ReadInv' => Stages'
  /\ pc' \in {"crunch", "buffer", "connect", "send"} /\ MiddleInv' /\ RouteInv' => Stages'
  /\ pc' = "relay" /\ MiddleInv' /\ RelayInv' => Stages'
  /\ pc' = "established" /\ MiddleInv' /\ TalkInv' => Stages'
<1> USE DEF Stages, LineInv, DrainedInv, MiddleInv, ReadInv, RouteInv, RelayInv, TalkInv, AtLine, Middle
<1>1. pc' = "closed" \/ (pc' = "done" /\ ~MayContinue') => Stages'
  OBVIOUS
<1>2. pc' \in {"line", "idle", "done"} /\ LineInv' /\ DrainedInv' => Stages'
  OBVIOUS
<1>3. pc' \in {"headers", "chunked", "parse"} /\ MiddleInv' /\ ReadInv' => Stages'
  OBVIOUS
<1>4. pc' \in {"crunch", "buffer", "connect", "send"} /\ MiddleInv' /\ RouteInv' => Stages'
  OBVIOUS
<1>5. pc' = "relay" /\ MiddleInv' /\ RelayInv' => Stages'
  OBVIOUS
<1>6. pc' = "established" /\ MiddleInv' /\ TalkInv' => Stages'
  OBVIOUS
<1> QED
  BY <1>1, <1>2, <1>3, <1>4, <1>5, <1>6

\* The more answers were not waited for, the more is in order.
LEMMA MoreAbandoned ==
  ASSUME NEW rs, NEW ab, NEW more, ab \subseteq more, NEW x
  PROVE  /\ Ordered(rs, ab, x) => Ordered(rs, more, x)
         /\ Settled(rs, ab, x) => Settled(rs, more, x)
<1>1. \A u, v : Orderly(rs, ab, u, v) => Orderly(rs, more, u, v)
  BY DEF Orderly
<1>2. Ordered(rs, ab, x) => Ordered(rs, more, x)
  BY <1>1 DEF Ordered
<1>3. Settled(rs, ab, x) => Settled(rs, more, x)
  BY DEF Settled
<1> QED
  BY <1>2, <1>3

\* The thread does not touch what the client has begun, and answers stay answered.
LEMMA ThreadAsked ==
  ASSUME Asked, conf' = conf, reqs' = reqs, todo' = todo, client' = client, answered \subseteq answered'
  PROVE  Asked'
  BY DEF Asked

\* What was sent and is known of it stays.
LEMMA SameHistory ==
  History /\ UNCHANGED <<reqs, up, stray, pooled>> /\ abandoned \subseteq abandoned' => History'
<1> SUFFICES ASSUME History, UNCHANGED <<reqs, up, stray, pooled>>, abandoned \subseteq abandoned' PROVE History'
  OBVIOUS
<1>1. Ordered(reqs, abandoned', up) /\ Settled(reqs, abandoned', pooled)
  BY MoreAbandoned DEF History
<1>2. stray # 0 => stray \in abandoned'
  BY DEF History
<1> QED
  BY <1>1, <1>2 DEF History

-----------------------------------------------------------------------------
(* Reading a request.                                                      *)

\* The first units are taken from a stream.
LEMMA Advance ==
  ASSUME Types, NEW b \in Seq(Parts), NEW y \in Seq(Parts), NEW n \in 1..Len(b), Lined(reqs, client, b \o y)
  PROVE  /\ From(b, n + 1) \in Seq(Parts)
         /\ Continues(reqs, client, b[n], From(b, n + 1) \o y)
<1> DEFINE c == SubSeq(b, 1, n)
           d == From(b, n + 1)
<1>1. n \in 0..Len(b) /\ n # 0 /\ n \in 1..n
  OBVIOUS
<1>2. c \in Seq(Parts) /\ d \in Seq(Parts) /\ Len(c) = n /\ c # <<>> /\ c \o d = b /\ c[n] = b[n]
  BY <1>1, Cut
<1> HIDE DEF c, d
<1> DEFINE e == d \o y
<1>3. e \in Seq(Parts) /\ c \o e = b \o y
  <2> SUFFICES d \o y \in Seq(Parts) /\ c \o (d \o y) = b \o y
    OBVIOUS
  <2> HIDE DEF e
  <2>1. c \in Seq(Parts) /\ d \in Seq(Parts) /\ y \in Seq(Parts)
    BY <1>2
  <2>2. (c \o d) \o y = c \o (d \o y) /\ d \o y \in Seq(Parts)
    BY <2>1, Associates
  <2> QED
    BY <1>2, <2>2
<1> HIDE DEF e
<1>4. c \in Seq(UnitType) /\ e \in Seq(UnitType)
  BY <1>2, <1>3, KnownParts
<1>5. Lined(reqs, client, c \o e)
  BY <1>3
<1>6. Continues(reqs, client, c[Len(c)], e)
  BY <1>2, <1>4, <1>5, TakeMany
<1>7. c[Len(c)] = b[n]
  BY <1>2
<1> QED
  BY <1>2, <1>6, <1>7 DEF d, e

\* A line is taken from the front of a stream.
LEMMA Parsed ==
  ASSUME Types, NEW b \in Seq(Parts), NEW y \in Seq(Parts), LineIn(b),
         Lined(reqs, client, b \o y), Begins(up, answered, abandoned, b \o y),
         stray # 0 => stray \in abandoned, ParseLine(b)
  PROVE  /\ iob' \in Seq(Parts) /\ req' \in {0} \cup DOMAIN reqs /\ stray' \in {0} \cup DOMAIN reqs
         /\ pc' \in {"headers", "done"}
         /\ stray' # 0 => stray' \in abandoned
         /\ pc' = "headers" => /\ Continues(reqs, client, <<req', 2>>, iob' \o y)
                               /\ req' \in DOMAIN reqs /\ Before(up, req') /\ AllBelow(answered, req')
<1> DEFINE s == b \o y
           u == b[1]
<1>1. /\ s \in Seq(Parts) /\ Len(b) \in Nat /\ Len(b) # 0 /\ s # <<>>
      /\ \A i \in 1..Len(b) : s[i] = b[i]
  <2>1. b # <<>> /\ Len(b) # 0
    BY DEF LineIn
  <2> QED
    BY Joins, <2>1
<1>2. u \in Parts /\ s[1] = u /\ u[1] \in DOMAIN reqs /\ u[1] \in Nat /\ u[2] \in Nat /\ u = <<u[1], u[2]>>
  <2>1. u \in Parts /\ s[1] = u
    BY <1>1
  <2> QED
    BY <2>1, PartFacts
<1>3. CASE u[2] # 1
  <2>1. stray' = u[1] /\ iob' = Tail(b) /\ req' = req /\ pc' = "done"
    BY <1>3 DEF ParseLine, Return
  <2>2. u[1] \in abandoned
    BY <1>1, <1>2, <1>3 DEF Begins
  <2>3. Tail(b) \in Seq(Parts)
    BY HeadTailProperties DEF LineIn
  <2> QED
    BY <1>2, <2>1, <2>2, <2>3 DEF Types
<1>4. CASE u[2] = 1
  <2>1. stray' = stray /\ iob' = From(b, 3) /\ req' = u[1] /\ pc' \in {"headers", "done"}
    BY <1>4 DEF ParseLine, Return
  <2>2. Len(b) > 1 /\ 2 \in 0..Len(b) /\ 1 \in 1..Len(b) /\ 2 \in 1..Len(b)
    BY <1>1, <1>4 DEF LineIn
  <2>6. s[2] = <<u[1], 2>>
    <3>1. 2 \in 2..Len(s) /\ s[2] = b[2]
      BY <1>1, <2>2, Joins
    <3>2. s[2] = Succ(reqs, s[1])
      BY <1>1, <3>1 DEF Lined, Chain
    <3>3. ~EndsIn(reqs, u)
      BY <1>2, <1>4, RequestFacts DEF EndsIn
    <3> QED
      BY <1>2, <1>4, <3>2, <3>3 DEF Succ
  <2>7. From(b, 3) \in Seq(Parts) /\ Continues(reqs, client, b[2], From(b, 3) \o y)
    <3>1. 2 \in 1..Len(b) /\ 2 + 1 = 3
      BY <2>2
    <3> QED
      BY <3>1, Advance
  <2>8. Before(up, u[1]) /\ AllBelow(answered, u[1])
    BY <1>1, <1>2, <1>4 DEF Begins
  <2>9. b[2] = <<u[1], 2>>
    BY <1>1, <2>2, <2>6
  <2>10. Continues(reqs, client, <<req', 2>>, iob' \o y)
    BY <2>1, <2>7, <2>9
  <2>11. iob' \in Seq(Parts) /\ req' \in DOMAIN reqs /\ stray' = stray /\ stray \in {0} \cup DOMAIN reqs
    BY <1>2, <2>1, <2>7 DEF Types
  <2> QED
    BY <2>1, <2>8, <2>10, <2>11
<1> QED
  BY <1>3, <1>4

\* What is read comes behind what was read.
LEMMA ReadMore ==
  ASSUME Types, iob' = iob \o wire, wire' = <<>>, todo' = todo
  PROVE  iob' \in Seq(Parts) /\ wire' \in Seq(Parts) /\ Rest' = todo /\ Stream' = Stream
<1>1. iob \in Seq(Parts) /\ wire \in Seq(Parts) /\ todo \in Seq(Parts)
  BY DEF Types
<1>2. iob \o wire \in Seq(Parts)
  BY <1>1, ConcatProperties
<1>3. <<>> \o todo = todo
  BY <1>1, ConcatEmptySeq
<1>4. Rest' = todo
  BY <1>3 DEF Rest
<1>5. Stream = (iob \o wire) \o todo
  BY StreamFacts
<1> QED
  BY <1>2, <1>4, <1>5 DEF Stream

\* The line of Inv that every thread action owes to its types.
LEMMA ThreadTypes ==
  ASSUME Types, conf' = conf, reqs' = reqs, todo' = todo, client' = client,
         wire' \in Seq(Parts), iob' \in Seq(Parts), up' \in Seq(Parts), pooled' \in Seq(Parts),
         sfd' \in {"none", "open", "dead"}, pc' \in Pcs,
         req' \in {0} \cup DOMAIN reqs, stray' \in {0} \cup DOMAIN reqs,
         expected' \in Nat, flags' \subseteq Flags,
         answered' \subseteq DOMAIN reqs, abandoned' \subseteq DOMAIN reqs
  PROVE  Types'
<1>1. Parts' = Parts /\ Pcs' = Pcs
  BY DEF Parts, Pcs
<1>2. /\ conf' \in Configurations /\ reqs' \in Seq(conf'.kinds) /\ client' \in {"open", "closed"}
      /\ todo' \in Seq(Parts)
  BY DEF Types
<1> QED
  BY <1>1, <1>2 DEF Types

\* A request line is read, what waits for it first.
LEMMA GetRequestLineStep == Inv /\ GetRequestLine => Inv'
<1> SUFFICES ASSUME Inv, GetRequestLine PROVE Inv'
  OBVIOUS
<1>1. /\ pc = "line" /\ ~conf.tls
      /\ conf' = conf /\ reqs' = reqs /\ todo' = todo /\ client' = client /\ sfd' = sfd /\ up' = up
      /\ expected' = expected /\ answered' = answered /\ abandoned' = abandoned /\ pooled' = pooled
  BY DEF GetRequestLine, clientVars, serverVars
<1>2. /\ Types /\ Asked /\ Marks /\ History
      /\ stray # 0 => stray \in abandoned
  BY DEF Inv, History
<1>3. /\ Lined(reqs, client, Stream) /\ Begins(up, answered, abandoned, Stream) /\ expected = 0
      /\ sfd = "open" => Settled(reqs, abandoned, up)
  BY <1>1 DEF Inv, Stages, LineInv, AtLine, DrainedInv, Gone
<1>4. flags \subseteq Flags /\ "lengthSet" \notin flags /\ "crunched" \notin flags /\ "serverKA" \notin flags
      /\ "tainted" \notin flags /\ "complete" \notin flags
  <2>1. flags \subseteq Flags
    BY <1>2 DEF Types
  <2>2. "lengthSet" \notin flags /\ "crunched" \notin flags /\ "serverKA" \notin flags
    BY <1>1, <1>2 DEF Marks, Over
  <2>3. "tainted" \notin flags /\ "complete" \notin flags
    BY <1>1, <1>2 DEF Marks
  <2> QED
    BY <2>1, <2>2, <2>3
<1>5. Asked'
  BY <1>1, <1>2, ThreadAsked
<1>6. ASSUME NEW b \in Seq(Parts), NEW y \in Seq(Parts), Stream = b \o y, Rest' = y, LineIn(b), ParseLine(b),
             flags' = flags \ {"waiting"}, wire' \in Seq(Parts)
      PROVE  Inv'
  <2>1. /\ iob' \in Seq(Parts) /\ req' \in {0} \cup DOMAIN reqs /\ stray' \in {0} \cup DOMAIN reqs
        /\ pc' \in {"headers", "done"}
        /\ stray' # 0 => stray' \in abandoned
        /\ pc' = "headers" => /\ Continues(reqs, client, <<req', 2>>, iob' \o y)
                              /\ req' \in DOMAIN reqs /\ Before(up, req') /\ AllBelow(answered, req')
    BY <1>2, <1>3, <1>6, Parsed
  <2>2. Types'
    BY <1>1, <1>2, <1>4, <1>6, <2>1, ThreadTypes DEF Types, Pcs
  <2>3. Marks'
    BY <1>1, <1>4, <1>6, <2>1 DEF Marks, Over
  <2>4. History'
    BY <1>1, <1>2, <2>1 DEF History
  <2>5. CASE pc' = "done"
    <3>1. ~MayContinue'
      BY <1>4, <1>6 DEF MayContinue
    <3> QED
      BY <1>5, <2>2, <2>3, <2>4, <2>5, <3>1, OnlyHere DEF Inv
  <2>6. CASE pc' = "headers"
    <3>1. Stream' = iob' \o y
      BY <1>6 DEF Stream
    <3>2. MiddleInv'
      BY <1>1, <1>3, <2>1, <2>6 DEF MiddleInv, Middle
    <3>3. ReadInv'
      BY <1>1, <1>3, <2>1, <2>6, <3>1 DEF ReadInv
    <3> QED
      BY <1>5, <2>2, <2>3, <2>4, <2>6, <3>2, <3>3, OnlyHere DEF Inv
  <2> QED
    BY <2>1, <2>5, <2>6
<1>7. CASE "waiting" \in flags /\ LineIn(iob)
  <2>1. flags' = flags \ {"waiting"} /\ wire' = wire /\ ParseLine(iob)
    BY <1>7 DEF GetRequestLine
  <2>2. iob \in Seq(Parts) /\ wire' \in Seq(Parts)
    BY <1>2, <2>1 DEF Types
  <2>3. Rest \in Seq(Parts) /\ Rest' = Rest /\ Stream = iob \o Rest
    BY <1>1, <1>2, <2>1, StreamFacts DEF Rest, Stream
  <2> QED
    BY <1>6, <1>7, <2>1, <2>2, <2>3
<1>8. CASE ~("waiting" \in flags /\ LineIn(iob)) /\ wire # <<>> /\ flags' = flags \ {"waiting"} /\ wire' = <<>>
           /\ IF LineIn(iob \o wire) THEN ParseLine(iob \o wire)
              ELSE iob' = iob \o wire /\ UNCHANGED <<pc, req, stray>>
  <2>1. iob \o wire \in Seq(Parts) /\ todo \in Seq(Parts) /\ <<>> \in Seq(Parts) /\ <<>> \o todo = todo
    BY <1>2, ConcatProperties, ConcatEmptySeq DEF Types
  <2>2. Stream = (iob \o wire) \o todo /\ Rest' = todo
    <3>1. Rest' = <<>> \o todo
      BY <1>1, <1>8 DEF Rest
    <3> QED
      BY <1>2, <2>1, <3>1, StreamFacts
  <2>3. CASE LineIn(iob \o wire)
    <3> DEFINE b == iob \o wire
    <3>1. b \in Seq(Parts) /\ Stream = b \o todo /\ LineIn(b) /\ ParseLine(b)
      BY <1>8, <2>1, <2>2, <2>3
    <3>2. wire' \in Seq(Parts)
      BY <1>8, <2>1
    <3> HIDE DEF b
    <3> QED
      BY <1>6, <1>8, <2>1, <2>2, <3>1, <3>2
  <2>4. CASE ~LineIn(iob \o wire)
    <3>1. iob' = iob \o wire /\ pc' = pc /\ req' = req /\ stray' = stray
      BY <1>8, <2>4
    <3>2. iob' \in Seq(Parts) /\ wire' \in Seq(Parts) /\ Stream' = Stream
      BY <1>1, <1>2, <1>8, <3>1, ReadMore
    <3>3. Types'
      BY <1>1, <1>2, <1>8, <3>1, <3>2, ThreadTypes DEF Types
    <3>4. Marks'
      BY <1>1, <1>4, <1>8, <3>1 DEF Marks, Over
    <3>5. History'
      BY <1>1, <1>2, <3>1 DEF History
    <3>6. LineInv'
      BY <1>1, <1>3, <3>1, <3>2 DEF LineInv, AtLine, Begins
    <3>7. DrainedInv'
      BY <1>1, <1>3, <2>4, <3>1 DEF DrainedInv
    <3> QED
      BY <1>1, <1>5, <3>1, <3>3, <3>4, <3>5, <3>6, <3>7, OnlyHere DEF Inv
  <2> QED
    BY <2>3, <2>4
<1>9. CASE NoData /\ flags' = (flags \ {"waiting"}) \cup {"tainted"} /\ Return /\ UNCHANGED <<iob, req, wire, stray>>
  <2>1. Types'
    <3>1. pc' \in Pcs /\ flags' \subseteq Flags
      BY <1>4, <1>9 DEF Return, Pcs, Flags
    <3> QED
      BY <1>1, <1>2, <1>9, <3>1, ThreadTypes DEF Types
  <2>2. Marks'
    BY <1>9 DEF Marks, Over, Return
  <2>3. History'
    BY <1>1, <1>2, <1>9 DEF History
  <2>4. pc' = "done" /\ ~MayContinue'
    BY <1>9 DEF Return, MayContinue, Tainted
  <2> QED
    BY <1>5, <2>1, <2>2, <2>3, <2>4, OnlyHere DEF Inv
<1> QED
  BY <1>7, <1>8, <1>9 DEF GetRequestLine

\* The rest of the header is read.
LEMMA GetHeadersStep == Inv /\ GetHeaders => Inv'
<1> SUFFICES ASSUME Inv, GetHeaders PROVE Inv'
  OBVIOUS
<1>1. /\ pc = "headers"
      /\ conf' = conf /\ reqs' = reqs /\ todo' = todo /\ client' = client /\ sfd' = sfd /\ up' = up
      /\ expected' = expected /\ answered' = answered /\ abandoned' = abandoned /\ pooled' = pooled
      /\ req' = req /\ flags' = flags /\ stray' = stray
  BY DEF GetHeaders, clientVars, serverVars, ReadOn
<1>2. Types /\ Asked /\ Marks /\ History
  BY DEF Inv
<1>3. /\ Continues(reqs, client, <<req, 2>>, Stream) /\ expected = 0 /\ MiddleInv
      /\ req \in DOMAIN reqs
  BY <1>1 DEF Inv, Stages, ReadInv, MiddleInv, Middle
<1>4. "lengthSet" \notin flags /\ "tainted" \notin flags /\ "complete" \notin flags /\ "waiting" \notin flags
  BY <1>1, <1>2 DEF Marks, Over
<1>5. Asked' /\ History'
  BY <1>1, <1>2, ThreadAsked DEF History
<1>6. Rest \in Seq(Parts) /\ Stream \in Seq(Parts) /\ iob \in Seq(Parts) /\ wire \in Seq(Parts)
  BY <1>2, StreamFacts DEF Types
<1>7. ASSUME iob' \in Seq(Parts), wire' \in Seq(Parts), pc' \in {"headers", "chunked", "parse", "done"}
      PROVE  Types' /\ Marks' /\ (pc' = "done" => Inv')
  <2>1. pc' \in Pcs
    BY <1>7 DEF Pcs
  <2>2. Types'
    BY <1>1, <1>2, <1>7, <2>1, ThreadTypes DEF Types
  <2>3. Marks'
    BY <1>1, <1>2, <1>7 DEF Marks, Over
  <2>4. pc' = "done" => ~MayContinue'
    BY <1>1, <1>4 DEF MayContinue
  <2>5. pc' = "done" => Stages'
    BY <2>4, OnlyHere
  <2> QED
    BY <1>5, <2>2, <2>3, <2>5 DEF Inv
<1>8. CASE iob # <<>> /\ iob' = Tail(iob) /\ pc' \in {IF Chunked THEN "chunked" ELSE "parse", "done"} /\ wire' = wire
  <2>1. Len(iob) \in Nat /\ Len(iob) # 0 /\ 1 \in 1..Len(iob) /\ 1 + 1 = 2
    BY <1>6, <1>8, Empty
  <2>2. iob' = From(iob, 2)
    BY <1>6, <1>8, TailIsSubSeq DEF From
  <2>3. Lined(reqs, client, Stream)
    BY <1>3, IsLined
  <2>4. iob' \in Seq(Parts) /\ Continues(reqs, client, iob[1], iob' \o Rest)
    BY <1>2, <1>6, <2>1, <2>2, <2>3, Advance DEF Stream
  <2>5. iob[1] = <<req, 3>>
    <3>1. Stream # <<>> /\ Stream[1] = iob[1]
      BY <1>6, <1>8, <2>1, Joins DEF Stream
    <3>2. Stream[1] = Succ(reqs, <<req, 2>>)
      BY <1>3, <3>1 DEF Continues
    <3>3. ~EndsIn(reqs, <<req, 2>>)
      BY <1>2, <1>3, RequestFacts DEF EndsIn
    <3> QED
      BY <3>1, <3>2, <3>3 DEF Succ
  <2>6. Stream' = iob' \o Rest
    BY <1>1, <1>8 DEF Stream, Rest
  <2>7. pc' \in {"headers", "chunked", "parse", "done"}
    BY <1>8
  <2>8. Types' /\ Marks' /\ (pc' = "done" => Inv')
    BY <1>6, <1>7, <1>8, <2>4, <2>7
  <2>9. CASE pc' # "done"
    <3>1. pc' = IF Chunked THEN "chunked" ELSE "parse"
      BY <1>8, <2>9
    <3>2. MiddleInv'
      BY <1>1, <1>3, <3>1 DEF MiddleInv, Middle
    <3>3. Continues(reqs, client, <<req, 3>>, Stream')
      BY <2>4, <2>5, <2>6
    <3>4. Chunked' <=> Chunked
      BY <1>1 DEF Chunked, Kind
    <3>5. ReadInv'
      BY <1>1, <1>3, <3>1, <3>3, <3>4 DEF ReadInv
    <3>6. Stages'
      BY <3>1, <3>2, <3>5, OnlyHere
    <3> QED
      BY <1>5, <2>8, <3>6 DEF Inv
  <2> QED
    BY <2>8, <2>9
<1>9. CASE iob = <<>> /\ ReadOn
  <2>1. iob' = iob \o wire /\ wire' = <<>> /\ pc' = pc
    BY <1>9 DEF ReadOn
  <2>2. iob' \in Seq(Parts) /\ wire' \in Seq(Parts) /\ Stream' = Stream
    BY <1>1, <1>2, <2>1, ReadMore
  <2>3. Types' /\ Marks'
    BY <1>1, <1>7, <2>1, <2>2
  <2>4. MiddleInv' /\ ReadInv'
    BY <1>1, <1>3, <2>1, <2>2 DEF MiddleInv, ReadInv, Middle
  <2>5. Stages'
    BY <1>1, <2>1, <2>4, OnlyHere
  <2> QED
    BY <1>5, <2>3, <2>5 DEF Inv
<1>10. CASE Return /\ iob' = iob /\ wire' = wire
  <2>1. pc' = "done"
    BY <1>10 DEF Return
  <2> QED
    BY <1>6, <1>7, <1>10, <2>1
<1> QED
  BY <1>8, <1>9, <1>10 DEF GetHeaders

\* A chunked body is read as a whole before the request is routed.
LEMMA GetChunkedBodyStep == Inv /\ GetChunkedBody => Inv'
<1> SUFFICES ASSUME Inv, GetChunkedBody PROVE Inv'
  OBVIOUS
<1>1. /\ pc = "chunked"
      /\ conf' = conf /\ reqs' = reqs /\ todo' = todo /\ client' = client /\ sfd' = sfd /\ up' = up
      /\ answered' = answered /\ abandoned' = abandoned /\ pooled' = pooled
      /\ req' = req /\ flags' = flags /\ stray' = stray
  BY DEF GetChunkedBody, clientVars, serverVars, requestVars, ReadOn
<1>2. Types /\ Asked /\ Marks /\ History
  BY DEF Inv
<1>3. /\ Continues(reqs, client, <<req, 3>>, Stream) /\ expected = 0 /\ MiddleInv /\ Chunked
      /\ req \in DOMAIN reqs
  BY <1>1 DEF Inv, Stages, ReadInv, MiddleInv, Middle
<1>4. "lengthSet" \notin flags /\ "tainted" \notin flags /\ "complete" \notin flags /\ "waiting" \notin flags
  BY <1>1, <1>2 DEF Marks, Over
<1>5. Asked' /\ History'
  BY <1>1, <1>2, ThreadAsked DEF History
<1>6. Rest \in Seq(Parts) /\ Stream \in Seq(Parts) /\ iob \in Seq(Parts) /\ wire \in Seq(Parts)
  BY <1>2, StreamFacts DEF Types
<1>7. ASSUME iob' \in Seq(Parts), wire' \in Seq(Parts), pc' \in {"chunked", "parse", "done"}, expected' \in Nat
      PROVE  Types' /\ Marks' /\ MiddleInv' /\ (pc' = "done" => Inv')
  <2>1. pc' \in Pcs
    BY <1>7 DEF Pcs
  <2>2. Types'
    BY <1>1, <1>2, <1>7, <2>1, ThreadTypes DEF Types
  <2>3. Marks'
    BY <1>1, <1>2, <1>7 DEF Marks, Over
  <2>4. pc' = "done" => ~MayContinue'
    BY <1>1, <1>4 DEF MayContinue
  <2>5. pc' = "done" => Stages'
    BY <2>4, OnlyHere
  <2>6. MiddleInv'
    BY <1>1, <1>3, <1>7 DEF MiddleInv, Middle
  <2> QED
    BY <1>5, <2>2, <2>3, <2>5, <2>6 DEF Inv
<1>8. Chunked' /\ Body(req') = Body(req) /\ Body(req)' = Body(req) /\ Body(req) \in Nat
  BY <1>1, <1>2, <1>3, RequestFacts DEF Chunked, Kind, Body
<1>9. CASE Contains(iob, <<req, 3 + Kind.body>>) /\ expected' = Kind.body /\ pc' = "parse" /\ UNCHANGED <<iob, wire>>
  <2>1. Body(req) = Kind.body
    BY DEF Body, Kind
  <2>2. Stream' = Stream
    BY <1>1, <1>9 DEF Stream, Rest
  <2>3. Len(iob) >= Body(req)
    <3>1. PICK i \in 1..Len(iob) : iob[i] = <<req, 3 + Body(req)>>
      BY <1>9, <2>1 DEF Contains
    <3>2. i \in 1..Len(Stream) /\ Stream[i] = iob[i]
      BY <1>6, Joins DEF Stream
    <3>3. IF 3 + i <= 3 + reqs[req].body THEN Stream[i] = <<req, 3 + i>> ELSE Stream[i][1] > req
      <4>1. Stream \in Seq(UnitType) /\ req \in 1..Len(reqs) /\ Bodied(reqs)
        BY <1>2, <1>3, <1>6, KnownParts, RequestFacts
      <4>2. 3 \in Nat \ {0} /\ 3 <= 3 + reqs[req].body
        BY <1>8 DEF Body
      <4> QED
        BY <1>3, <3>2, <4>1, <4>2, Positions
    <3>4. Stream[i] = <<req, 3 + Body(req)>> /\ req \in Nat
      BY <1>2, <1>3, <3>1, <3>2, RequestFacts
    <3>5. 3 + i <= 3 + Body(req)
      BY <3>3, <3>4 DEF Body
    <3>6. 3 + i = 3 + Body(req)
      BY <3>3, <3>4, <3>5 DEF Body
    <3> QED
      BY <1>6, <1>8, <3>6, Empty
  <2>4. ReadInv'
    BY <1>1, <1>3, <1>8, <1>9, <2>1, <2>2, <2>3 DEF ReadInv
  <2>5. expected' \in Nat
    BY <1>8, <1>9, <2>1
  <2>6. Types' /\ Marks' /\ MiddleInv'
    BY <1>6, <1>7, <1>9, <2>5
  <2>7. Stages'
    BY <1>9, <2>4, <2>6, OnlyHere
  <2> QED
    BY <1>5, <2>6, <2>7 DEF Inv
<1>10. CASE ReadOn /\ UNCHANGED expected
  <2>1. iob' = iob \o wire /\ wire' = <<>> /\ pc' = pc
    BY <1>10 DEF ReadOn
  <2>2. iob' \in Seq(Parts) /\ wire' \in Seq(Parts) /\ Stream' = Stream
    BY <1>1, <1>2, <2>1, ReadMore
  <2>3. Types' /\ Marks' /\ MiddleInv'
    BY <1>1, <1>3, <1>7, <1>10, <2>1, <2>2
  <2>4. ReadInv'
    BY <1>1, <1>3, <1>8, <1>10, <2>1, <2>2 DEF ReadInv
  <2>5. Stages'
    BY <1>1, <2>1, <2>3, <2>4, OnlyHere
  <2> QED
    BY <1>5, <2>3, <2>5 DEF Inv
<1>11. CASE Return /\ UNCHANGED <<requestVars, wire>>
  <2>1. pc' = "done" /\ iob' = iob /\ wire' = wire /\ expected' = expected
    BY <1>11 DEF Return, requestVars
  <2> QED
    BY <1>3, <1>6, <1>7, <2>1
<1> QED
  BY <1>9, <1>10, <1>11 DEF GetChunkedBody

\* Behind a part of the last request.
LEMMA RestOfLast ==
  ASSUME Types, NEW r, r = Len(reqs), r \in DOMAIN reqs
  PROVE  \A p \in Nat \ {0} : \A x \in Seq(Parts) : p <= 3 + Body(r) /\ Continues(reqs, client, <<r, p>>, x) =>
            p + Len(x) <= 3 + Body(r) /\ \A i \in 1..Len(x) : x[i] = <<r, p + i>>
<1> TAKE p \in Nat \ {0}
<1> TAKE x \in Seq(Parts)
<1> HAVE p <= 3 + Body(r) /\ Continues(reqs, client, <<r, p>>, x)
<1>1. x \in Seq(UnitType) /\ Known(reqs, x)
  BY KnownParts
<1>2. r \in 1..Len(reqs) /\ Bodied(reqs)
  BY RequestFacts
<1>3. p <= 3 + reqs[r].body
  BY DEF Body
<1>4. p + Len(x) <= 3 + reqs[r].body /\ \A i \in 1..Len(x) : x[i] = <<r, p + i>>
  BY <1>1, <1>2, <1>3, OnlyTheRest
<1> QED
  BY <1>4 DEF Body

\* The client sends nothing behind a request that it does not pipeline behind.
LEMMA LastOne ==
  ASSUME Types, Asked, NEW r \in DOMAIN reqs, AllBelow(answered, r), reqs[r] \notin conf.pipelined
  PROVE  /\ r = Len(reqs)
         /\ \A p \in Nat \ {0} : \A x \in Seq(Parts) : p <= 3 + Body(r) /\ Continues(reqs, client, <<r, p>>, x) =>
              p + Len(x) <= 3 + Body(r) /\ \A i \in 1..Len(x) : x[i] = <<r, p + i>>
<1>1. Len(reqs) \in Nat /\ r \in 1..Len(reqs)
  BY RequestFacts
<1>2. r \notin answered
  BY <1>1 DEF AllBelow
<1>3. r = Len(reqs)
  BY <1>1, <1>2 DEF Asked
<1> QED
  BY <1>3, RestOfLast

\* In an inspected session it pipelines behind none.
LEMMA NoPipelining ==
  ASSUME Types, Apart
  PROVE  /\ conf.tls => \A k : k \notin conf.pipelined
         /\ \A r \in DOMAIN reqs : /\ ~conf.tls /\ reqs[r].method = "GET" => reqs[r].body = 0
                                   /\ reqs[r] \in conf.pipelined => reqs[r].method = "GET" \/ reqs[r].framing = "chunked"
<1>1. Separable(conf) /\ \A r \in DOMAIN reqs : reqs[r] \in conf.kinds
  BY RequestFacts DEF Types, Apart
<1>2. conf.tls => \A k : k \notin conf.pipelined
  BY <1>1 DEF Separable
<1>3. ASSUME NEW r \in DOMAIN reqs
      PROVE  /\ ~conf.tls /\ reqs[r].method = "GET" => reqs[r].body = 0
             /\ reqs[r] \in conf.pipelined => reqs[r].method = "GET" \/ reqs[r].framing = "chunked"
  <2>1. ~conf.tls /\ reqs[r].method = "GET" => reqs[r].framing = "none"
    BY <1>1 DEF Separable
  <2>2. reqs[r] \in conf.pipelined => reqs[r].method = "GET" \/ reqs[r].framing = "chunked"
    BY <1>1 DEF Separable
  <2> QED
    BY <2>1, <2>2, RequestFacts
<1> QED
  BY <1>2, <1>3

\* In an inspected session the header is read with its line.
LEMMA GetEncryptedHeadersStep == Apart /\ Inv /\ GetEncryptedHeaders => Inv'
<1> SUFFICES ASSUME Apart, Inv, GetEncryptedHeaders PROVE Inv'
  OBVIOUS
<1>1. /\ pc = "line" /\ conf.tls
      /\ conf' = conf /\ reqs' = reqs /\ todo' = todo /\ client' = client /\ sfd' = sfd /\ up' = up
      /\ answered' = answered /\ abandoned' = abandoned /\ pooled' = pooled
      /\ flags' = flags \cup {"clientKA"}
  BY DEF GetEncryptedHeaders, clientVars, serverVars
<1>2. Types /\ Asked /\ Marks /\ History
  BY DEF Inv
<1>3. /\ Lined(reqs, client, Stream) /\ Begins(up, answered, abandoned, Stream) /\ expected = 0
      /\ sfd = "open" => Settled(reqs, abandoned, up) \/ Gone
  BY <1>1 DEF Inv, Stages, LineInv, AtLine, DrainedInv
<1>4. /\ "lengthSet" \notin flags /\ "crunched" \notin flags /\ "serverKA" \notin flags
      /\ "tainted" \notin flags /\ "complete" \notin flags /\ "waiting" \notin flags
  BY <1>1, <1>2 DEF Marks, Over
<1>5. Asked'
  BY <1>1, <1>2, ThreadAsked
<1> DEFINE b == iob \o wire
<1>6. b \in Seq(Parts) /\ Stream = b \o todo /\ iob \in Seq(Parts) /\ wire \in Seq(Parts) /\ todo \in Seq(Parts)
      /\ Stream \in Seq(Parts) /\ <<>> \in Seq(Parts) /\ <<>> \o todo = todo
  BY <1>2, StreamFacts, ConcatProperties, ConcatEmptySeq DEF Types
<1>7. wire # <<>> => b # <<>> /\ Len(b) \in Nat /\ Len(b) # 0 /\ Stream # <<>> /\ Stream[1] = b[1] /\ b[1] \in Parts
  <2> SUFFICES ASSUME wire # <<>> PROVE b # <<>> /\ Len(b) \in Nat /\ Len(b) # 0 /\ Stream # <<>> /\ Stream[1] = b[1] /\ b[1] \in Parts
    OBVIOUS
  <2>1. b # <<>>
    BY <1>6, Joins
  <2> HIDE DEF b
  <2>2. Len(b) \in Nat /\ Len(b) # 0
    BY <1>6, <2>1, Empty
  <2>3. Stream # <<>> /\ Stream[1] = b[1]
    BY <1>6, <2>1, <2>2, Joins
  <2> QED
    BY <1>6, <2>1, <2>2, <2>3
<1> HIDE DEF b
<1>8. ASSUME iob' \in Seq(Parts), wire' \in Seq(Parts), pc' \in {"line", "crunch", "done"},
             req' \in {0} \cup DOMAIN reqs, expected' \in Nat, stray' \in {0} \cup DOMAIN reqs,
             stray' # 0 => stray' \in abandoned
      PROVE  Types' /\ Marks' /\ History' /\ (pc' = "done" => Inv')
  <2>1. pc' \in Pcs /\ flags' \subseteq Flags
    BY <1>1, <1>2, <1>8 DEF Pcs, Types, Flags
  <2>2. Types'
    BY <1>1, <1>2, <1>8, <2>1, ThreadTypes DEF Types
  <2>3. Marks'
    BY <1>1, <1>4, <1>8 DEF Marks, Over
  <2>4. pc' = "done" => ~MayContinue'
    BY <1>1, <1>4 DEF MayContinue
  <2>5. pc' = "done" => Stages'
    BY <2>4, OnlyHere
  <2>6. History'
    BY <1>1, <1>2, <1>8 DEF History
  <2> QED
    BY <1>5, <2>2, <2>3, <2>5, <2>6 DEF Inv
<1>9. CASE /\ wire # <<>> /\ wire' = <<>>
           /\ iob' = b /\ UNCHANGED <<pc, req, expected, stray>>
  <2>1. Types' /\ Marks' /\ History'
    BY <1>1, <1>2, <1>3, <1>6, <1>8, <1>9 DEF Types, History
  <2>2. Stream' = Stream
    BY <1>1, <1>2, <1>9, ReadMore DEF b
  <2>3. ~Gone
    BY <1>9 DEF Gone
  <2>4. LineInv'
    BY <1>1, <1>3, <1>9, <2>2, <2>3 DEF LineInv, AtLine, Begins
  <2>5. DrainedInv'
    BY <1>1, <1>3, <1>9 DEF DrainedInv
  <2>6. Stages'
    BY <1>1, <1>9, <2>4, <2>5, OnlyHere
  <2> QED
    BY <1>5, <2>1, <2>6 DEF Inv
<1>10. CASE /\ wire # <<>> /\ wire' = <<>> /\ b[1][2] # 1
            /\ stray' = b[1][1] /\ iob' = Tail(b) /\ Return /\ UNCHANGED <<req, expected>>
  <2>1. stray' \in abandoned
    BY <1>3, <1>7, <1>10 DEF Begins
  <2>2. Tail(b) \in Seq(Parts)
    BY <1>6, <1>7, <1>10, HeadTailProperties
  <2>3. stray' \in DOMAIN reqs /\ req' \in {0} \cup DOMAIN reqs /\ expected' \in Nat
    BY <1>2, <1>10, <2>1 DEF Types
  <2>4. pc' = "done"
    BY <1>10 DEF Return
  <2> QED
    BY <1>6, <1>8, <1>10, <2>1, <2>2, <2>3, <2>4
<1>11. CASE /\ wire # <<>> /\ wire' = <<>> /\ (\E i \in DOMAIN b : b[i][2] = 3) /\ b[1][2] = 1
            /\ iob' = From(b, 4) /\ req' = b[1][1] /\ expected' = Body(b[1][1])
            /\ stray' = stray /\ pc' \in {"crunch", "done"}
  <2> DEFINE r == b[1][1]
  <2>1. r \in DOMAIN reqs /\ r \in Nat /\ b[1] = <<r, 1>> /\ Body(r) \in Nat
    <3>1. b[1] \in Parts
      BY <1>7, <1>11
    <3> QED
      BY <1>2, <1>11, <3>1, PartFacts, RequestFacts DEF Body
  <2>2. \A i \in 1..Len(b) : i <= Len(Stream) /\ Stream[i] = b[i]
    BY <1>6, Joins
  <2>3. \A i \in 2..Len(b) : b[i] = Succ(reqs, b[i - 1])
    <3> TAKE i \in 2..Len(b)
    <3>1. i \in 2..Len(Stream) /\ Stream[i] = b[i] /\ Stream[i - 1] = b[i - 1]
      <4>1. i \in 1..Len(b) /\ i - 1 \in 1..Len(b) /\ Len(b) \in Nat /\ Len(Stream) \in Nat
        BY <1>6, Empty
      <4> QED
        BY <2>2, <4>1
    <3>2. Stream[i] = Succ(reqs, Stream[i - 1])
      BY <1>3, <1>7, <1>11, <3>1 DEF Lined, Chain
    <3> QED
      BY <3>1, <3>2
  <2>4. PICK j \in 1..Len(b) : b[j][2] = 3
    BY <1>6, <1>11
  <2>5. Len(b) \in Nat /\ 2 \in 2..Len(b) /\ b[2] = <<r, 2>>
    <3>1. Len(b) \in Nat
      BY <1>7, <1>11
    <3>2. j # 1
      BY <1>11, <2>4
    <3>3. 2 \in 2..Len(b)
      BY <2>4, <3>1, <3>2
    <3>4. ~EndsIn(reqs, <<r, 1>>)
      BY <2>1 DEF EndsIn, Body
    <3>5. b[2] = Succ(reqs, <<r, 1>>)
      <4>1. b[2] = Succ(reqs, b[2 - 1]) /\ 2 - 1 = 1
        BY <2>3, <3>3
      <4> QED
        BY <2>1, <4>1
    <3> HIDE DEF r
    <3> QED
      BY <3>1, <3>3, <3>4, <3>5 DEF Succ
  <2>6. 3 \in 1..Len(b) /\ b[3] = <<r, 3>>
    <3>1. j # 1 /\ j # 2
      BY <1>11, <2>4, <2>5
    <3>2. 3 \in 2..Len(b) /\ 3 \in 1..Len(b)
      BY <2>4, <2>5, <3>1
    <3>3. ~EndsIn(reqs, <<r, 2>>)
      BY <2>1 DEF EndsIn, Body
    <3>4. b[3] = Succ(reqs, <<r, 2>>)
      <4>1. b[3] = Succ(reqs, b[3 - 1]) /\ 3 - 1 = 2
        BY <2>3, <3>2
      <4> QED
        BY <2>5, <4>1
    <3> HIDE DEF r
    <3> QED
      BY <3>2, <3>3, <3>4 DEF Succ
  <2>7. From(b, 4) \in Seq(Parts) /\ Continues(reqs, client, <<r, 3>>, From(b, 4) \o todo)
    <3>1. 3 + 1 = 4 /\ Lined(reqs, client, b \o todo)
      BY <1>3, <1>6
    <3>2. From(b, 3 + 1) \in Seq(Parts) /\ Continues(reqs, client, b[3], From(b, 3 + 1) \o todo)
      BY <1>2, <1>6, <2>6, <3>1, Advance
    <3> QED
      BY <2>6, <3>1, <3>2
  <2>8. Types' /\ Marks' /\ History' /\ (pc' = "done" => Inv')
    BY <1>2, <1>6, <1>8, <1>11, <2>1, <2>7 DEF Types, History
  <2>9. Stream' = iob' \o todo
    BY <1>1, <1>6, <1>11 DEF Stream, Rest
  <2>10. Before(up, r) /\ AllBelow(answered, r) /\ ~Gone
    BY <1>3, <1>7, <1>11 DEF Begins, Gone
  <2>11. reqs[r] \notin conf.pipelined /\ reqs[r].framing # "chunked"
    BY <1>1, <1>2, <2>1, NoPipelining, RequestFacts
  <2>12. CASE pc' = "crunch"
    <3>1. MiddleInv'
      BY <1>1, <1>3, <1>11, <2>1, <2>10, <2>12 DEF MiddleInv, Middle
    <3>2. Pieces(r, iob') /\ Len(iob') <= Body(r)
      <4> DEFINE x == iob' \o todo
      <4>1. iob' \in Seq(Parts) /\ x \in Seq(Parts) /\ Len(x) = Len(iob') + Len(todo) /\ Len(iob') \in Nat /\ Len(todo) \in Nat
            /\ \A i \in 1..Len(iob') : x[i] = iob'[i]
        BY <1>6, <1>11, <2>7, Joins
      <4>2. Continues(reqs, client, <<r, 3>>, x)
        BY <1>11, <2>7
      <4> HIDE DEF x, r
      <4>3. 3 \in Nat \ {0} /\ 3 <= 3 + Body(r)
        BY <2>1
      <4>4. 3 + Len(x) <= 3 + Body(r) /\ \A i \in 1..Len(x) : x[i] = <<r, 3 + i>>
        BY <1>2, <2>1, <2>10, <2>11, <4>1, <4>2, <4>3, LastOne
      <4>5. Len(iob') <= Body(r)
        BY <2>1, <4>1, <4>4
      <4>6. \A i \in 1..Len(iob') : i \in 1..Len(x)
        BY <4>1
      <4> QED
        BY <4>1, <4>4, <4>5, <4>6 DEF Pieces
    <3>3. Kind' = reqs[r] /\ Body(req)' = Body(r)
      BY <1>1, <1>11 DEF Kind, Body
    <3>4. Unfiltered'
      <4>1. Continues(reqs', client', <<req', 3>>, Stream')
        BY <1>1, <1>11, <2>7, <2>9
      <4>2. Pieces(req', iob') /\ Len(iob') <= Body(req)'
        BY <1>11, <3>2, <3>3
      <4>3. ~Chunked' /\ "complete" \notin flags'
        BY <1>1, <1>4, <2>11, <3>3 DEF Chunked
      <4>4. expected' = Body(req)'
        BY <1>11, <3>3
      <4> QED
        BY <4>1, <4>2, <4>3, <4>4 DEF Unfiltered
    <3>5. RouteInv'
      <4>1. Clean' /\ "waiting" \notin flags' /\ Single'
        BY <1>1, <1>4, <2>11, <3>3 DEF Clean, Single
      <4> QED
        BY <2>12, <3>4, <4>1 DEF RouteInv
    <3>6. Stages'
      BY <2>12, <3>1, <3>5, OnlyHere
    <3> QED
      BY <1>5, <2>8, <3>6 DEF Inv
  <2> QED
    BY <1>11, <2>8, <2>12
<1>12. CASE Return /\ UNCHANGED <<requestVars, wire, stray>>
  <2>1. pc' = "done" /\ iob' = iob /\ wire' = wire /\ expected' = expected /\ req' = req /\ stray' = stray
    BY <1>12 DEF Return, requestVars
  <2> QED
    BY <1>2, <1>3, <1>6, <1>8, <2>1 DEF Types, History
<1> QED
  BY <1>9, <1>10, <1>11, <1>12 DEF GetEncryptedHeaders, b

\* What becomes of a body that is in the buffer, case by case.
LEMMA VerifiedCases ==
  ASSUME NEW e \in Nat, NEW b, Len(b) \in Nat, b = <<>> <=> Len(b) = 0, NEW get \in BOOLEAN, NEW v, v = Verified(e, b, get)
  PROVE  \/ /\ e # 0 /\ e <= Len(b) /\ v.iob = SubSeq(b, 1, e) /\ v.expected = 0
            /\ v.flags = {"complete"} /\ e = Len(b)
         \/ /\ e # 0 /\ e < Len(b) /\ v.iob = SubSeq(b, 1, e) /\ v.expected = 0
            /\ v.flags = {"complete", "tainted"}
         \/ e = 0 /\ b = <<>> /\ v.iob = b /\ v.expected = 0 /\ v.flags = {"complete"}
         \/ /\ get /\ (e = 0 \/ e > Len(b)) /\ conf.tolerate /\ v.iob = b /\ (e = 0 => b # <<>>)
            /\ v.expected \in Nat /\ (e = 0 => v.expected = 0) /\ v.flags = {"complete", "waiting"}
         \/ /\ get /\ (e = 0 \/ e > Len(b)) /\ ~conf.tolerate /\ v.iob = <<>> /\ (e = 0 => b # <<>>)
            /\ v.expected \in Nat /\ (e = 0 => v.expected = 0) /\ v.flags = {"complete", "tainted"}
         \/ /\ ~get /\ (e = 0 \/ e > Len(b)) /\ (e = 0 => b # <<>>) /\ v.iob = b
            /\ v.expected \in Nat /\ v.flags = {}
<1> DEFINE whole == e # 0 /\ b # <<>> /\ e <= Len(b)
           left  == IF whole THEN 0 ELSE IF e = 0 THEN 0 ELSE e - Len(b)
           kept  == IF whole THEN SubSeq(b, 1, e) ELSE b
           more  == ~whole /\ (kept # <<>> \/ left # 0)
           waits == more /\ get
<1>1. /\ v.expected = left
      /\ v.iob = IF waits /\ ~conf.tolerate THEN <<>> ELSE kept
      /\ v.flags = (IF whole /\ e < Len(b) THEN {"tainted"} ELSE {})
                      \cup (IF more /\ ~get THEN {} ELSE {"complete"})
                      \cup (IF waits THEN {IF conf.tolerate THEN "waiting" ELSE "tainted"} ELSE {})
  BY DEF Verified
<1>2. CASE whole
  <2>1. left = 0 /\ kept = SubSeq(b, 1, e) /\ ~more /\ ~waits /\ e # 0 /\ e <= Len(b)
    BY <1>2
  <2> HIDE DEF left, kept, more, waits, whole
  <2>2. v.expected = 0 /\ v.iob = SubSeq(b, 1, e)
    BY <1>1, <2>1
  <2>3. v.flags = IF e < Len(b) THEN {"complete", "tainted"} ELSE {"complete"}
    BY <1>1, <1>2, <2>1
  <2> QED
    BY <2>1, <2>2, <2>3
<1>3. CASE ~whole
  <2>1. kept = b /\ (e = 0 \/ e > Len(b)) /\ left \in Nat /\ (e = 0 => left = 0) /\ (e # 0 => left # 0)
    BY <1>3
  <2>2. more <=> b # <<>> \/ e # 0
    BY <1>3, <2>1
  <2> HIDE DEF left, kept, more, whole
  <2>3. CASE ~more
    <3>1. e = 0 /\ b = <<>> /\ v.expected = 0 /\ v.iob = b
      BY <1>1, <2>1, <2>2, <2>3
    <3>2. v.flags = {"complete"}
      BY <1>1, <1>3, <2>3
    <3> QED
      BY <3>1, <3>2
  <2>4. CASE more /\ ~get
    <3>1. v.expected \in Nat /\ v.iob = b /\ (e = 0 => b # <<>>)
      BY <1>1, <2>1, <2>2, <2>4
    <3>2. v.flags = {}
      BY <1>1, <1>3, <2>4
    <3> QED
      BY <2>1, <2>4, <3>1, <3>2
  <2>5. CASE more /\ get /\ conf.tolerate
    <3>1. v.expected \in Nat /\ v.iob = b /\ (e = 0 => b # <<>>) /\ (e = 0 => v.expected = 0)
      BY <1>1, <2>1, <2>2, <2>5
    <3>2. v.flags = {"complete", "waiting"}
      BY <1>1, <1>3, <2>5
    <3> QED
      BY <2>1, <2>5, <3>1, <3>2
  <2>6. CASE more /\ get /\ ~conf.tolerate
    <3>1. v.expected \in Nat /\ v.iob = <<>> /\ (e = 0 => b # <<>>) /\ (e = 0 => v.expected = 0)
      BY <1>1, <2>1, <2>2, <2>6
    <3>2. v.flags = {"complete", "tainted"}
      BY <1>1, <1>3, <2>6
    <3> QED
      BY <2>1, <2>6, <3>1, <3>2
  <2> QED
    BY <2>3, <2>4, <2>5, <2>6
<1> QED
  BY <1>2, <1>3

\* The request has been read: what is buffered of its body, and what is behind it.
LEMMA ParseRequestStep == Apart /\ Inv /\ ParseRequest => Inv'
<1> SUFFICES ASSUME Apart, Inv, ParseRequest PROVE Inv'
  OBVIOUS
<1>1. /\ pc = "parse"
      /\ conf' = conf /\ reqs' = reqs /\ todo' = todo /\ client' = client /\ sfd' = sfd /\ up' = up
      /\ answered' = answered /\ abandoned' = abandoned /\ pooled' = pooled /\ stray' = stray
      /\ req' = req /\ wire' = wire /\ pc' \in {"crunch", "done"}
  BY DEF ParseRequest, clientVars, serverVars, historyVars
<1>2. Types /\ Asked /\ Marks /\ History
  BY DEF Inv
<1>3. /\ Continues(reqs, client, <<req, 3>>, Stream) /\ MiddleInv
      /\ IF Chunked THEN expected = Body(req) /\ Len(iob) >= Body(req) ELSE expected = 0
      /\ req \in DOMAIN reqs
  BY <1>1 DEF Inv, Stages, ReadInv, MiddleInv, Middle
<1>4. /\ "lengthSet" \notin flags /\ "crunched" \notin flags /\ "serverKA" \notin flags
      /\ "tainted" \notin flags /\ "complete" \notin flags /\ "waiting" \notin flags /\ ~conf.tls
  BY <1>1, <1>2 DEF Marks, Over
<1>5. Asked' /\ History'
  BY <1>1, <1>2, ThreadAsked DEF History
<1>6. /\ Rest \in Seq(Parts) /\ Stream \in Seq(Parts) /\ iob \in Seq(Parts) /\ wire \in Seq(Parts)
      /\ Len(iob) \in Nat /\ (iob = <<>> <=> Len(iob) = 0)
  BY <1>2, StreamFacts, Empty DEF Types
<1>7. /\ Body(req) \in Nat /\ Body(req) = Kind.body
      /\ Kind.framing \in {"none", "length", "chunked"} /\ Kind.method \in {"GET", "POST"}
      /\ Kind.framing = "none" <=> Body(req) = 0
      /\ Kind.method = "GET" => Body(req) = 0
      /\ ~Single => Kind.method = "GET" \/ Kind.framing = "chunked"
  <2>1. reqs[req] \in KindType /\ reqs[req].body \in Nat /\ (reqs[req].framing = "none" <=> reqs[req].body = 0)
    BY <1>2, <1>3, RequestFacts
  <2>2. /\ reqs[req].method = "GET" => reqs[req].body = 0
        /\ reqs[req] \in conf.pipelined => reqs[req].method = "GET" \/ reqs[req].framing = "chunked"
    BY <1>2, <1>3, <1>4, NoPipelining
  <2>3. reqs[req].framing \in {"none", "length", "chunked"} /\ reqs[req].method \in {"GET", "POST"}
    BY <2>1 DEF KindType
  <2> QED
    BY <2>1, <2>2, <2>3 DEF Kind, Body, Single
<1> DEFINE e == Body(req)
           v == Verified(e, iob, Kind.method = "GET")
<1>8. (IF Kind.framing = "length" THEN Kind.body ELSE expected) = e
  BY <1>3, <1>7 DEF Chunked
<1>9. /\ iob' = v.iob
      /\ expected' = IF Kind.framing = "length" THEN e ELSE v.expected
      /\ flags' = flags \cup v.flags \cup (IF Kind.close THEN {} ELSE {"clientKA"})
  BY <1>7, <1>8 DEF ParseRequest
<1>10. /\ Len(Stream) \in Nat /\ Len(iob) <= Len(Stream)
       /\ \A i \in 1..Len(iob) : i <= e => iob[i] = <<req, 3 + i>>
  <2>1. /\ Len(Stream) = Len(iob) + Len(Rest) /\ Len(Rest) \in Nat
        /\ \A i \in 1..Len(iob) : Stream[i] = iob[i]
    BY <1>6, Joins DEF Stream
  <2>2. Stream \in Seq(UnitType) /\ req \in 1..Len(reqs) /\ Bodied(reqs)
    BY <1>2, <1>3, <1>6, KnownParts, RequestFacts
  <2>3. 3 \in Nat \ {0} /\ 3 <= 3 + reqs[req].body
    BY <1>7 DEF Body
  <2>4. \A i \in 1..Len(Stream) : IF 3 + i <= 3 + reqs[req].body THEN Stream[i] = <<req, 3 + i>> ELSE Stream[i][1] > req
    BY <1>3, <2>2, <2>3, Positions
  <2>5. \A i \in 1..Len(iob) : i <= e => iob[i] = <<req, 3 + i>>
    <3> TAKE i \in 1..Len(iob)
    <3>1. i \in 1..Len(Stream) /\ Stream[i] = iob[i]
      BY <1>6, <2>1
    <3> QED
      BY <1>7, <2>4, <3>1 DEF Body
  <2> QED
    BY <1>6, <2>1, <2>5
<1>11. Single => Len(Stream) <= e
  <2> SUFFICES ASSUME Single PROVE Len(Stream) <= e
    OBVIOUS
  <2>1. AllBelow(answered, req) /\ reqs[req] \notin conf.pipelined
    BY <1>1, <1>3 DEF MiddleInv, Middle, Single, Kind
  <2>2. 3 \in Nat \ {0} /\ 3 <= 3 + Body(req)
    BY <1>7
  <2>3. 3 + Len(Stream) <= 3 + Body(req)
    BY <1>2, <1>3, <1>6, <2>1, <2>2, LastOne
  <2> QED
    BY <1>7, <1>10, <2>3
<1>12. \/ /\ e # 0 /\ e <= Len(iob) /\ v.iob = SubSeq(iob, 1, e) /\ v.expected = 0
          /\ v.flags = {"complete"} /\ e = Len(iob)
       \/ /\ e # 0 /\ e < Len(iob) /\ v.iob = SubSeq(iob, 1, e) /\ v.expected = 0
          /\ v.flags = {"complete", "tainted"}
       \/ e = 0 /\ iob = <<>> /\ v.iob = iob /\ v.expected = 0 /\ v.flags = {"complete"}
       \/ /\ Kind.method = "GET" /\ v.iob = iob /\ iob # <<>>
          /\ v.expected = 0 /\ v.flags = {"complete", "waiting"}
       \/ /\ Kind.method = "GET" /\ v.iob = <<>> /\ iob # <<>>
          /\ v.expected = 0 /\ v.flags = {"complete", "tainted"}
       \/ /\ Kind.method # "GET" /\ (e = 0 \/ e > Len(iob)) /\ (e = 0 => iob # <<>>) /\ v.iob = iob
          /\ v.expected \in Nat /\ v.flags = {}
  <2> DEFINE get == Kind.method = "GET"
  <2>1. e \in Nat /\ get \in BOOLEAN /\ v = Verified(e, iob, get)
    BY <1>7
  <2>2. get => e = 0
    BY <1>7
  <2> HIDE DEF v, e, get
  <2>3. \/ /\ e # 0 /\ e <= Len(iob) /\ v.iob = SubSeq(iob, 1, e) /\ v.expected = 0
           /\ v.flags = {"complete"} /\ e = Len(iob)
        \/ /\ e # 0 /\ e < Len(iob) /\ v.iob = SubSeq(iob, 1, e) /\ v.expected = 0
           /\ v.flags = {"complete", "tainted"}
        \/ e = 0 /\ iob = <<>> /\ v.iob = iob /\ v.expected = 0 /\ v.flags = {"complete"}
        \/ /\ get /\ (e = 0 \/ e > Len(iob)) /\ conf.tolerate /\ v.iob = iob /\ (e = 0 => iob # <<>>)
           /\ v.expected \in Nat /\ (e = 0 => v.expected = 0) /\ v.flags = {"complete", "waiting"}
        \/ /\ get /\ (e = 0 \/ e > Len(iob)) /\ ~conf.tolerate /\ v.iob = <<>> /\ (e = 0 => iob # <<>>)
           /\ v.expected \in Nat /\ (e = 0 => v.expected = 0) /\ v.flags = {"complete", "tainted"}
        \/ /\ ~get /\ (e = 0 \/ e > Len(iob)) /\ (e = 0 => iob # <<>>) /\ v.iob = iob
           /\ v.expected \in Nat /\ v.flags = {}
    BY <1>6, <2>1, VerifiedCases
  <2> QED
    BY <2>2, <2>3 DEF get
<1> HIDE DEF v
<1>13. v.iob \in Seq(Parts) /\ v.expected \in Nat /\ v.flags \subseteq {"complete", "tainted", "waiting"}
  <2>1. <<>> \in Seq(Parts)
    OBVIOUS
  <2>2. e <= Len(iob) => SubSeq(iob, 1, e) \in Seq(Parts)
    <3>1. e <= Len(iob) => e \in 0..Len(iob)
      BY <1>6, <1>7
    <3> QED
      BY <1>6, <3>1, Cut
  <2>a. e < Len(iob) => e <= Len(iob)
    BY <1>6, <1>7
  <2> HIDE DEF e
  <2>3. v.iob \in Seq(Parts)
    BY <1>6, <1>12, <2>1, <2>2, <2>a
  <2>4. v.expected \in Nat
    BY <1>12
  <2>5. v.flags \subseteq {"complete", "tainted", "waiting"}
    BY <1>12
  <2> QED
    BY <2>3, <2>4, <2>5
<1>14. Types'
  <2>1. pc' \in Pcs /\ iob' \in Seq(Parts)
    BY <1>1, <1>9, <1>13 DEF Pcs
  <2>2. expected' \in Nat
    BY <1>7, <1>9, <1>13
  <2>3. flags' \subseteq Flags
    BY <1>2, <1>9, <1>13 DEF Types, Flags
  <2> QED
    BY <1>1, <1>2, <1>6, <2>1, <2>2, <2>3, ThreadTypes DEF Types
<1>15. "lengthSet" \notin flags' /\ "crunched" \notin flags' /\ "serverKA" \notin flags'
  BY <1>4, <1>9, <1>13
<1>16. Marks'
  BY <1>1, <1>4, <1>15 DEF Marks, Over
<1>17. CASE pc' = "done"
  <2>1. ~MayContinue'
    BY <1>15 DEF MayContinue
  <2> QED
    BY <1>5, <1>14, <1>16, <1>17, <2>1, OnlyHere DEF Inv
<1>18. CASE pc' = "crunch"
  <2>1. MiddleInv'
    BY <1>1, <1>3, <1>18 DEF MiddleInv, Middle
  <2>2. Kind' = Kind /\ Body(req)' = e /\ (Chunked' <=> Chunked) /\ (Single' <=> Single) /\ Rest' = Rest
    BY <1>1 DEF Kind, Body, Chunked, Single, Rest
  <2>3. /\ ("tainted" \in flags' <=> "tainted" \in v.flags) /\ ("complete" \in flags' <=> "complete" \in v.flags)
        /\ ("waiting" \in flags' <=> "waiting" \in v.flags)
    BY <1>4, <1>9
  <2>4. Single => "tainted" \notin v.flags
    <3> SUFFICES ASSUME Single, "tainted" \in v.flags PROVE FALSE
      OBVIOUS
    <3>1. Len(iob) <= e
      BY <1>6, <1>7, <1>10, <1>11
    <3>2. ~(e < Len(iob))
      BY <1>6, <1>7, <3>1
    <3>3. Kind.method = "GET" /\ iob # <<>>
      BY <1>12, <3>2
    <3>4. Len(iob) # 0 /\ e = 0
      BY <1>6, <1>7, <3>3
    <3> QED
      BY <1>6, <3>2, <3>4
  <2>5. "waiting" \in v.flags => Kind.method = "GET" /\ e = 0
    BY <1>7, <1>12
  <2>6. "complete" \notin v.flags => /\ "waiting" \notin v.flags /\ Single /\ Kind.framing = "length"
                                     /\ v.iob = iob /\ Len(iob) <= e
    <3> SUFFICES ASSUME "complete" \notin v.flags
                 PROVE  "waiting" \notin v.flags /\ Single /\ Kind.framing = "length" /\ v.iob = iob /\ Len(iob) <= e
      OBVIOUS
    <3>1. /\ Kind.method # "GET" /\ (e = 0 \/ e > Len(iob)) /\ (e = 0 => iob # <<>>) /\ v.iob = iob
          /\ v.flags = {}
      BY <1>12
    <3>2. Kind.framing # "chunked"
      <4> SUFFICES ASSUME Kind.framing = "chunked" PROVE FALSE
        OBVIOUS
      <4>1. Len(iob) >= e /\ e # 0
        BY <1>3, <1>7 DEF Chunked
      <4> QED
        BY <1>6, <1>7, <3>1, <4>1
    <3>3. Single
      BY <1>7, <3>1, <3>2
    <3>4. Len(iob) <= e
      BY <1>6, <1>7, <1>10, <1>11, <3>3
    <3>5. e # 0
      BY <1>6, <3>1, <3>4
    <3> QED
      BY <1>7, <3>1, <3>2, <3>3, <3>4, <3>5
  <2>7. v.iob = iob \/ "tainted" \in v.flags
    <3>1. SubSeq(iob, 1, Len(iob)) = iob
      BY <1>6, SubSeqFull
    <3> QED
      BY <1>12, <3>1
  <2>8. Clean' => Continues(reqs', client', <<req', 3>>, Stream')
    <3> SUFFICES ASSUME Clean' PROVE Continues(reqs', client', <<req', 3>>, Stream')
      OBVIOUS
    <3>1. iob' = iob
      BY <1>9, <2>3, <2>7 DEF Clean
    <3>2. Stream' = Stream
      BY <2>2, <3>1 DEF Stream
    <3> QED
      BY <1>1, <1>3, <3>2
  <2>9. "waiting" \notin v.flags => Pieces(req, v.iob) /\ Len(v.iob) <= e
    <3> SUFFICES ASSUME "waiting" \notin v.flags PROVE Pieces(req, v.iob) /\ Len(v.iob) <= e
      OBVIOUS
    <3>1. CASE v.iob = SubSeq(iob, 1, e) /\ e <= Len(iob)
      <4>1. Len(v.iob) = e /\ \A i \in 1..e : v.iob[i] = iob[i]
        <5>1. e \in 0..Len(iob)
          BY <1>6, <1>7, <3>1
        <5>2. Len(SubSeq(iob, 1, e)) = e /\ \A i \in 1..e : SubSeq(iob, 1, e)[i] = iob[i]
          BY <1>6, <5>1, Cut
        <5> HIDE DEF e
        <5> QED
          BY <3>1, <5>2
      <4>2. \A i \in 1..e : i \in 1..Len(iob) /\ i <= e
        BY <1>6, <1>7, <3>1
      <4> QED
        BY <1>7, <1>10, <4>1, <4>2 DEF Pieces
    <3>2. CASE v.iob = <<>>
      <4>1. Len(v.iob) = 0
        BY <3>2
      <4> QED
        BY <1>7, <4>1 DEF Pieces
    <3>3. CASE v.iob = iob /\ Len(iob) <= e
      <4>1. \A i \in 1..Len(iob) : i <= e
        BY <1>6, <1>7, <3>3
      <4> QED
        BY <1>10, <3>3, <4>1 DEF Pieces
    <3>4. \/ v.iob = SubSeq(iob, 1, e) /\ e <= Len(iob)
          \/ v.iob = <<>>
          \/ "complete" \notin v.flags
      <4>1. e < Len(iob) => e <= Len(iob)
        BY <1>6, <1>7
      <4> QED
        BY <1>12, <4>1
    <3> QED
      BY <2>6, <3>1, <3>2, <3>3, <3>4
  <2>10. "complete" \in v.flags \/ Chunked => e = 0 \/ Len(v.iob) = e
    <3>1. e <= Len(iob) => Len(SubSeq(iob, 1, e)) = e
      <4>1. e <= Len(iob) => e \in 0..Len(iob)
        BY <1>6, <1>7
      <4> QED
        BY <1>6, <4>1, Cut
    <3>2. e < Len(iob) => e <= Len(iob)
      BY <1>6, <1>7
    <3>3. "complete" \in v.flags => e = 0 \/ Len(v.iob) = e
      BY <1>7, <1>12, <3>1, <3>2
    <3>4. Chunked => "complete" \in v.flags
      BY <2>6 DEF Chunked
    <3> QED
      BY <3>3, <3>4
  <2>11. expected' = IF Chunked THEN 0 ELSE e
    <3>1. CASE Kind.framing = "length"
      BY <1>9, <3>1 DEF Chunked
    <3>2. CASE Kind.framing # "length"
      <4>1. expected' = v.expected /\ "complete" \in v.flags
        BY <1>9, <2>6, <3>2
      <4>2. v.expected = 0
        BY <1>12, <4>1
      <4>3. Kind.framing = "none" => e = 0
        BY <1>7
      <4> QED
        BY <1>7, <3>2, <4>1, <4>2, <4>3 DEF Chunked
    <3> QED
      BY <3>1, <3>2
  <2>12. Unfiltered'
    BY <1>1, <1>9, <2>2, <2>3, <2>8, <2>9, <2>10, <2>11 DEF Unfiltered
  <2>13. RouteInv'
    <3>1. Single' => Clean'
      BY <2>2, <2>3, <2>4 DEF Clean
    <3>2. "waiting" \in flags' => Body(req)' = 0 /\ Kind'.method = "GET"
      BY <2>2, <2>3, <2>5
    <3>3. "complete" \notin flags' => "waiting" \notin flags' /\ Single'
      BY <2>2, <2>3, <2>6
    <3> QED
      BY <1>18, <2>12, <3>1, <3>2, <3>3 DEF RouteInv
  <2>14. Stages'
    BY <1>18, <2>1, <2>13, OnlyHere
  <2> QED
    BY <1>5, <1>14, <1>16, <2>14 DEF Inv
<1> QED
  BY <1>1, <1>17, <1>18

-----------------------------------------------------------------------------
(* Crunching and buffering.                                                *)

\* What is behind a part of the request that is being served when the next one is looked for.
LEMMA Onward ==
  ASSUME Types, req \in DOMAIN reqs, NEW p \in Nat, NEW x, Continues(reqs, client, <<req, p>>, x),
         NEW sent, Before(sent, req + 1), NEW an, AllBelow(an, req + 1),
         NEW ab, EndsIn(reqs, <<req, p>>) \/ req \in ab
  PROVE  Lined(reqs, client, x) /\ Begins(sent, an, ab, x)
<1>1. Lined(reqs, client, x)
  BY IsLined
<1>2. ASSUME x # <<>> PROVE Begins(sent, an, ab, x)
  <2>1. x[1] = Succ(reqs, <<req, p>>)
    BY <1>2 DEF Continues
  <2>2. CASE EndsIn(reqs, <<req, p>>)
    <3>1. x[1] = <<req + 1, 1>>
      BY <2>1, <2>2 DEF Succ
    <3> QED
      BY <3>1 DEF Begins
  <2>3. CASE ~EndsIn(reqs, <<req, p>>)
    <3>1. x[1] = <<req, p + 1>> /\ p # 0
      BY <2>1, <2>3 DEF Succ, EndsIn
    <3>2. p + 1 # 1
      BY <3>1
    <3> QED
      BY <2>3, <3>1, <3>2 DEF Begins
  <2> QED
    BY <2>2, <2>3
<1> QED
  BY <1>1, <1>2 DEF Begins

\* One more answer.
LEMMA OneMore ==
  ASSUME NEW r \in Nat, NEW A, AllBelow(A, r), A \subseteq Nat
  PROVE  AllBelow(A, r + 1) /\ AllBelow(A \cup {r}, r + 1)
  BY DEF AllBelow

\* What the invariant says while the request is prepared and sent.
LEMMA RouteFacts ==
  ASSUME Apart, Inv, pc \in {"crunch", "buffer", "connect", "send"}
  PROVE  /\ Types /\ Asked /\ Marks /\ History
         /\ req \in DOMAIN reqs /\ req \in Nat
         /\ AllBelow(answered, req) /\ AllBelow(answered, req + 1) /\ AllBelow(answered \cup {req}, req + 1)
         /\ Before(up, req) /\ Before(up, req + 1)
         /\ sfd = "open" => Settled(reqs, abandoned, up)
         /\ Body(req) \in Nat
         /\ Kind.framing \in {"none", "length", "chunked"} /\ Kind.method \in {"GET", "POST"}
         /\ Kind.framing = "none" <=> Body(req) = 0
         /\ ~conf.tls /\ Kind.method = "GET" => Body(req) = 0
         /\ conf.tls => Single /\ ~Chunked
         /\ Body(req) # 0 /\ ~Chunked => Single
         /\ "lengthSet" \notin flags /\ "crunched" \notin flags /\ "serverKA" \notin flags
         /\ conf.tls => "tainted" \notin flags /\ "complete" \notin flags /\ "waiting" \notin flags
         /\ RouteInv /\ MiddleInv
         /\ Rest \in Seq(Parts) /\ Stream \in Seq(Parts) /\ iob \in Seq(Parts) /\ wire \in Seq(Parts)
         /\ todo \in Seq(Parts) /\ up \in Seq(Parts)
<1>1. Types /\ Asked /\ Marks /\ History /\ RouteInv /\ MiddleInv
  BY DEF Inv, Stages
<1>2. /\ req \in DOMAIN reqs /\ AllBelow(answered, req) /\ Before(up, req)
      /\ sfd = "open" => Settled(reqs, abandoned, up)
  BY <1>1 DEF MiddleInv, Middle
<1>3. req \in Nat /\ req \in 1..Len(reqs) /\ answered \subseteq Nat
  BY <1>1, <1>2, RequestFacts DEF Types
<1>4. AllBelow(answered, req + 1) /\ AllBelow(answered \cup {req}, req + 1)
  BY <1>2, <1>3, OneMore
<1>5. Rest \in Seq(Parts) /\ Stream \in Seq(Parts) /\ iob \in Seq(Parts) /\ wire \in Seq(Parts)
      /\ todo \in Seq(Parts) /\ up \in Seq(Parts)
  BY <1>1, StreamFacts DEF Types
<1>6. Before(up, req + 1)
  <2> SUFFICES ASSUME up # <<>> PROVE up[Len(up)][1] < req + 1
    BY DEF Before
  <2>1. Len(up) \in 1..Len(up)
    BY <1>5, Empty
  <2>2. up[Len(up)] \in Parts
    BY <1>5, <2>1
  <2>3. up[Len(up)][1] \in Nat /\ up[Len(up)][1] < req
    BY <1>1, <1>2, <2>2, PartFacts DEF Before
  <2> QED
    BY <1>3, <2>3
<1>7. /\ Body(req) \in Nat
      /\ Kind.framing \in {"none", "length", "chunked"} /\ Kind.method \in {"GET", "POST"}
      /\ Kind.framing = "none" <=> Body(req) = 0
      /\ conf.tls => ~Chunked
  <2>1. reqs[req] \in KindType /\ reqs[req].body \in Nat /\ (reqs[req].framing = "none" <=> reqs[req].body = 0)
        /\ (conf.tls => reqs[req].framing # "chunked")
    BY <1>1, <1>2, RequestFacts
  <2>2. reqs[req].framing \in {"none", "length", "chunked"} /\ reqs[req].method \in {"GET", "POST"}
    BY <2>1 DEF KindType
  <2> QED
    BY <2>1, <2>2 DEF Kind, Body, Chunked
<1>8. /\ ~conf.tls /\ Kind.method = "GET" => Body(req) = 0
      /\ conf.tls => Single
      /\ ~Single => Kind.method = "GET" \/ Chunked
  BY <1>1, <1>2, NoPipelining DEF Kind, Body, Single, Chunked
<1>9. /\ "lengthSet" \notin flags /\ "crunched" \notin flags /\ "serverKA" \notin flags
      /\ conf.tls => "tainted" \notin flags /\ "complete" \notin flags /\ "waiting" \notin flags
  BY <1>1 DEF Marks, Over
<1>10. Body(req) # 0 /\ ~Chunked => Single
  BY <1>8
<1> QED
  BY <1>1, <1>2, <1>3, <1>4, <1>5, <1>6, <1>7, <1>8, <1>9, <1>10

\* The request is answered without a server.
LEMMA CrunchStep == Apart /\ Inv /\ Crunch => Inv'
<1> SUFFICES ASSUME Apart, Inv, Crunch PROVE Inv'
  OBVIOUS
<1>1. /\ pc = "crunch" /\ pc' = "done"
      /\ conf' = conf /\ reqs' = reqs /\ todo' = todo /\ client' = client /\ sfd' = sfd /\ up' = up
      /\ pooled' = pooled /\ stray' = stray /\ expected' = expected
      /\ req' = req /\ wire' = wire /\ flags' = flags \cup {"crunched", "lengthSet"}
      /\ answered' = answered \cup {req}
  BY DEF Crunch, clientVars, serverVars, Return, Answer
<1>2. /\ Types /\ Asked /\ Marks /\ History
      /\ req \in DOMAIN reqs /\ Before(up, req + 1) /\ AllBelow(answered', req + 1)
      /\ sfd = "open" => Settled(reqs, abandoned, up)
      /\ Body(req) \in Nat
      /\ Kind.framing \in {"none", "length", "chunked"} /\ Kind.method \in {"GET", "POST"}
      /\ Kind.framing = "none" <=> Body(req) = 0
      /\ ~conf.tls /\ Kind.method = "GET" => Body(req) = 0
      /\ conf.tls => ~Chunked
      /\ conf.tls => "waiting" \notin flags
      /\ RouteInv
      /\ Rest \in Seq(Parts) /\ Stream \in Seq(Parts) /\ iob \in Seq(Parts) /\ wire \in Seq(Parts)
  BY <1>1, RouteFacts
<1>3. Unfiltered /\ ("waiting" \in flags => Body(req) = 0 /\ Kind.method = "GET")
  BY <1>1, <1>2 DEF RouteInv
<1>4. Asked'
  BY <1>1, <1>2, ThreadAsked
<1>5. /\ iob' = iob \/ iob' = <<>>
      /\ abandoned' = abandoned \/ abandoned' = abandoned \cup {req}
  BY DEF Crunch, Abandon
<1>6. Types'
  <2>1. iob' \in Seq(Parts)
    <3>1. <<>> \in Seq(Parts)
      OBVIOUS
    <3> QED
      BY <1>2, <1>5, <3>1
  <2>2. pc' \in Pcs /\ flags' \subseteq Flags
    <3>1. flags \subseteq Flags /\ {"crunched", "lengthSet"} \subseteq Flags
      BY <1>2 DEF Types, Flags
    <3>2. pc' \in Pcs
      BY <1>1 DEF Pcs
    <3> QED
      BY <1>1, <3>1, <3>2
  <2>3. answered' \subseteq DOMAIN reqs /\ abandoned' \subseteq DOMAIN reqs
    BY <1>1, <1>2, <1>5 DEF Types
  <2> QED
    BY <1>1, <1>2, <2>1, <2>2, <2>3, ThreadTypes DEF Types
<1>7. Marks'
  BY <1>1 DEF Marks, Over
<1>8. History' /\ (sfd = "open" => Settled(reqs, abandoned', up))
  <2>1. abandoned \subseteq abandoned'
    BY <1>5
  <2>2. History'
    BY <1>1, <1>2, <2>1, SameHistory
  <2>3. sfd = "open" => Settled(reqs, abandoned', up)
    BY <1>2, <2>1, MoreAbandoned
  <2> QED
    BY <2>2, <2>3
<1>9. ASSUME MayContinue' PROVE /\ Lined(reqs, client, Stream') /\ Begins(up, answered', abandoned', Stream')
                                /\ "waiting" \notin flags => iob' = <<>> \/ abandoned' # {}
                                /\ conf.tls => iob' = <<>>
  <2>1. Clean /\ expected = 0
    BY <1>1, <1>9 DEF MayContinue, Tainted, Unread, Clean
  <2>2. /\ Continues(reqs, client, <<req, 3>>, Stream)
        /\ "waiting" \notin flags => Pieces(req, iob) /\ Len(iob) <= Body(req)
        /\ Chunked => Body(req) = 0 \/ Len(iob) = Body(req)
        /\ Chunked \/ Body(req) = 0
    BY <1>3, <2>1 DEF Unfiltered
  <2>3. Len(iob) \in Nat /\ (iob = <<>> <=> Len(iob) = 0) /\ <<>> \o Rest = Rest
    BY <1>2, Empty, ConcatEmptySeq
  <2>4. Body(req) = 0 /\ "waiting" \notin flags => iob = <<>>
    BY <2>2, <2>3
  <2>5. Body(req) = 0 => EndsIn(reqs, <<req, 3>>)
    BY DEF EndsIn, Body
  <2>6. ASSUME iob' = iob, Body(req) = 0 \/ (Chunked /\ req \in abandoned') PROVE
           /\ Lined(reqs, client, Stream') /\ Begins(up, answered', abandoned', Stream')
           /\ "waiting" \notin flags => iob' = <<>> \/ abandoned' # {}
           /\ conf.tls => iob' = <<>>
    <3>1. Stream' = Stream
      BY <1>1, <2>6 DEF Stream, Rest
    <3>2. EndsIn(reqs, <<req, 3>>) \/ req \in abandoned'
      BY <2>5, <2>6
    <3>3. Lined(reqs, client, Stream) /\ Begins(up, answered', abandoned', Stream)
      <4>1. 3 \in Nat
        OBVIOUS
      <4> QED
        BY <1>2, <2>2, <3>2, <4>1, Onward
    <3>4. "waiting" \notin flags => iob' = <<>> \/ abandoned' # {}
      BY <2>4, <2>6
    <3>5. conf.tls => iob' = <<>>
      BY <1>2, <2>4, <2>6
    <3> QED
      BY <3>1, <3>3, <3>4, <3>5
  <2>7. CASE iob' = iob /\ (IF expected = 0 /\ Chunked THEN Abandon ELSE UNCHANGED abandoned)
    <3>1. Body(req) = 0 \/ (Chunked /\ req \in abandoned')
      BY <2>1, <2>2, <2>7 DEF Abandon
    <3> QED
      BY <2>6, <2>7, <3>1
  <2>8. CASE iob' = (IF Kind.method = "GET" THEN iob ELSE <<>>)
    <3>1. CASE Body(req) = 0
      <4>1. iob' = iob
        BY <1>3, <2>4, <2>8, <3>1
      <4> QED
        BY <2>6, <3>1, <4>1
    <3>2. CASE Body(req) # 0
      <4>1. Kind.method # "GET" /\ ~conf.tls /\ iob' = <<>> /\ "waiting" \notin flags
        BY <1>2, <1>3, <2>2, <2>8, <3>2
      <4>2. Pieces(req, iob) /\ Len(iob) = Body(req) /\ iob # <<>> /\ Len(iob) \in 1..Len(iob)
        BY <1>2, <2>2, <2>3, <3>2, <4>1
      <4>3. iob[Len(iob)] = <<req, 3 + Body(req)>>
        BY <4>2 DEF Pieces
      <4>4. Lined(reqs, client, iob \o Rest)
        BY <2>2, IsLined DEF Stream
      <4>5. iob \in Seq(UnitType) /\ Rest \in Seq(UnitType)
        BY <1>2, KnownParts
      <4>6. Continues(reqs, client, <<req, 3 + Body(req)>>, Rest)
        BY <4>2, <4>3, <4>4, <4>5, TakeMany
      <4>7. EndsIn(reqs, <<req, 3 + Body(req)>>)
        BY DEF EndsIn, Body
      <4>8. Lined(reqs, client, Rest) /\ Begins(up, answered', abandoned', Rest)
        <5>1. 3 + Body(req) \in Nat
          BY <1>2
        <5> QED
          BY <1>2, <4>6, <4>7, <5>1, Onward
      <4>9. Stream' = Rest
        <5>1. Stream' = <<>> \o Rest
          BY <1>1, <4>1 DEF Stream, Rest
        <5> QED
          BY <2>3, <5>1
      <4> QED
        BY <4>1, <4>8, <4>9
    <3> QED
      BY <3>1, <3>2
  <2> QED
    BY <2>7, <2>8 DEF Crunch
<1>10. LineInv'
  BY <1>1, <1>8, <1>9 DEF LineInv, AtLine
<1>11. DrainedInv'
  <2>1. "waiting" \in flags' <=> "waiting" \in flags
    BY <1>1
  <2> QED
    BY <1>1, <1>9, <2>1 DEF DrainedInv
<1>12. Stages'
  BY <1>1, <1>10, <1>11, OnlyHere
<1> QED
  BY <1>4, <1>6, <1>7, <1>8, <1>12 DEF Inv

\* The thread is done with a request: what is left must be fit for the next one.
LEMMA Finish ==
  ASSUME Inv, conf' = conf, reqs' = reqs, todo' = todo, client' = client, up' = up, stray' = stray, req' = req,
         pc' \in {"done", "closed"}, wire' \in Seq(Parts), iob' \in Seq(Parts), sfd' \in {"none", "open", "dead"},
         expected' \in Nat, flags' \subseteq Flags,
         answered \subseteq answered', answered' \subseteq DOMAIN reqs,
         abandoned \subseteq abandoned', abandoned' \subseteq DOMAIN reqs,
         pooled' = pooled \/ (pooled' = up /\ Settled(reqs, abandoned, up)),
         pc' = "done" /\ MayContinue' =>
            /\ Lined(reqs, client, Stream') /\ Begins(up, answered', abandoned', Stream')
            /\ sfd' = "open" => Settled(reqs, abandoned', up) \/ Gone'
            /\ "waiting" \notin flags' => iob' = <<>> \/ abandoned' # {}
            /\ conf.tls => iob' = <<>>
  PROVE  Inv'
<1>1. Types /\ Asked /\ History
  BY DEF Inv
<1>2. Asked'
  BY <1>1, ThreadAsked
<1>3. Types'
  <2>1. up' \in Seq(Parts) /\ pooled' \in Seq(Parts)
    BY <1>1 DEF Types
  <2>2. pc' \in Pcs
    BY DEF Pcs
  <2>3. req' \in {0} \cup DOMAIN reqs /\ stray' \in {0} \cup DOMAIN reqs
    BY <1>1 DEF Types
  <2> QED
    BY <1>1, <2>1, <2>2, <2>3, ThreadTypes
<1>4. Marks'
  BY DEF Marks, Over
<1>5. History'
  <2>1. Ordered(reqs, abandoned', up) /\ Settled(reqs, abandoned', pooled')
    BY <1>1, MoreAbandoned DEF History
  <2>2. stray # 0 => stray \in abandoned'
    BY <1>1 DEF History
  <2> QED
    BY <2>1, <2>2 DEF History
<1>6. Stages'
  <2>1. CASE pc' = "done" /\ MayContinue'
    <3>1. LineInv'
      BY <2>1 DEF LineInv, AtLine
    <3>2. DrainedInv'
      BY <2>1 DEF DrainedInv
    <3> QED
      BY <2>1, <3>1, <3>2, OnlyHere
  <2>2. CASE ~(pc' = "done" /\ MayContinue')
    BY <2>2, OnlyHere
  <2> QED
    BY <2>1, <2>2
<1> QED
  BY <1>2, <1>3, <1>4, <1>5, <1>6 DEF Inv

\* What is left when nothing was moved.
LEMMA Unmoved ==
  ASSUME Types, UNCHANGED <<conf, reqs, wire, iob, up, pooled, req, stray, expected, sfd>>
  PROVE  /\ wire' \in Seq(Parts) /\ iob' \in Seq(Parts) /\ up' \in Seq(Parts) /\ pooled' \in Seq(Parts)
         /\ sfd' \in {"none", "open", "dead"} /\ expected' \in Nat
         /\ req' \in {0} \cup DOMAIN reqs /\ stray' \in {0} \cup DOMAIN reqs
  BY DEF Types

\* In an inspected session no server connection was opened.
LEMMA DropClientStep == Inv /\ DropClient => Inv'
<1> SUFFICES ASSUME Inv, DropClient PROVE Inv'
  OBVIOUS
<1>1. /\ pc' = "done" /\ flags' = flags \ {"clientKA"}
      /\ conf' = conf /\ reqs' = reqs /\ todo' = todo /\ client' = client /\ sfd' = sfd /\ up' = up
      /\ answered' = answered /\ abandoned' = abandoned /\ pooled' = pooled /\ stray' = stray
      /\ req' = req /\ wire' = wire /\ iob' = iob /\ expected' = expected
  BY DEF DropClient, clientVars, serverVars, historyVars, requestVars, Return
<1>2. Types
  BY DEF Inv
<1>3. ~MayContinue'
  BY <1>1 DEF MayContinue
<1>4. flags' \subseteq Flags /\ answered' \subseteq DOMAIN reqs /\ abandoned' \subseteq DOMAIN reqs
  BY <1>1, <1>2 DEF Types
<1>5. wire' \in Seq(Parts) /\ iob' \in Seq(Parts) /\ sfd' \in {"none", "open", "dead"} /\ expected' \in Nat
  BY <1>1, <1>2, Unmoved
<1>6. answered \subseteq answered' /\ abandoned \subseteq abandoned'
  BY <1>1
<1> QED
  BY <1>1, <1>3, <1>4, <1>5, <1>6, Finish

\* Nothing but the place changes, among those where a request is prepared.
LEMMA DontCrunchStep == Apart /\ Inv /\ DontCrunch => Inv'
<1> SUFFICES ASSUME Apart, Inv, DontCrunch PROVE Inv'
  OBVIOUS
<1>1. /\ pc = "crunch" /\ pc' \in {"buffer", "connect"} /\ (pc' = "buffer" => expected # 0 /\ conf.filters)
      /\ conf' = conf /\ reqs' = reqs /\ todo' = todo /\ client' = client /\ sfd' = sfd /\ up' = up
      /\ answered' = answered /\ abandoned' = abandoned /\ pooled' = pooled /\ stray' = stray
      /\ req' = req /\ wire' = wire /\ iob' = iob /\ expected' = expected /\ flags' = flags
  BY DEF DontCrunch, clientVars, serverVars, historyVars, requestVars
<1>2. Types /\ Asked /\ Marks /\ History /\ RouteInv /\ MiddleInv
  BY <1>1, RouteFacts
<1>3. Asked'
  BY <1>1, <1>2 DEF Asked
<1>4. Types'
  <2>1. pc' \in Pcs
    BY <1>1 DEF Pcs
  <2>2. flags' \subseteq Flags /\ answered' \subseteq DOMAIN reqs /\ abandoned' \subseteq DOMAIN reqs
    BY <1>1, <1>2 DEF Types
  <2> QED
    BY <1>1, <1>2, <2>1, <2>2, Unmoved, ThreadTypes
<1>5. Marks'
  BY <1>1, <1>2 DEF Marks, Over
<1>6. History'
  BY <1>1, <1>2, SameHistory
<1>7. MiddleInv'
  BY <1>1, <1>2 DEF MiddleInv, Middle
<1>8. RouteInv'
  <2>1. Unfiltered
    BY <1>1, <1>2 DEF RouteInv
  <2>2. Unfiltered'
    BY <1>1, <2>1 DEF Unfiltered, Stream, Rest, Clean, Kind, Chunked, Body
  <2>3. (Single' => Clean') /\ ("waiting" \in flags' => Body(req)' = 0 /\ Kind'.method = "GET")
        /\ ("complete" \notin flags' => "waiting" \notin flags' /\ Single')
    BY <1>1, <1>2 DEF RouteInv, Single, Clean, Kind, Body
  <2> QED
    BY <1>1, <2>2, <2>3 DEF RouteInv
<1>9. Stages'
  BY <1>1, <1>7, <1>8, OnlyHere
<1> QED
  BY <1>3, <1>4, <1>5, <1>6, <1>9 DEF Inv

\* Some of what is on the wire is taken behind what was taken before.
LEMMA TakenFrom ==
  ASSUME NEW S, NEW x \in Seq(S), NEW w \in Seq(S), NEW t \in Seq(S), NEW n \in 0..Len(w)
  PROVE  /\ x \o SubSeq(w, 1, n) \in Seq(S) /\ From(w, n + 1) \in Seq(S)
         /\ Len(x \o SubSeq(w, 1, n)) = Len(x) + n
         /\ (x \o SubSeq(w, 1, n)) \o (From(w, n + 1) \o t) = x \o (w \o t)
         /\ \A i \in 1..(Len(x) + n) : (x \o SubSeq(w, 1, n))[i] = (x \o (w \o t))[i]
         /\ Len(x) + n <= Len(x \o (w \o t)) /\ Len(x \o (w \o t)) \in Nat
<1> DEFINE a == SubSeq(w, 1, n)
           b == From(w, n + 1)
<1>1. a \in Seq(S) /\ b \in Seq(S) /\ Len(a) = n /\ a \o b = w
  BY Cut
<1> HIDE DEF a, b
<1>2. x \o a \in Seq(S) /\ Len(x \o a) = Len(x) + n /\ b \o t \in Seq(S)
  <2>1. x \o a \in Seq(S) /\ Len(x \o a) = Len(x) + Len(a)
    BY <1>1, Joins
  <2>2. b \o t \in Seq(S)
    BY <1>1, Joins
  <2> QED
    BY <1>1, <2>1, <2>2
<1> DEFINE d == b \o t
<1>3. (x \o a) \o d = x \o (a \o d)
  <2>1. x \in Seq(S) /\ a \in Seq(S) /\ d \in Seq(S)
    BY <1>1, <1>2
  <2> HIDE DEF d
  <2>2. (x \o a) \o d = x \o (a \o d) /\ a \o d \in Seq(S)
    BY ONLY <2>1, Associates
  <2> QED
    BY ONLY <2>2
<1>4. a \o d = w \o t
  <2>1. a \in Seq(S) /\ b \in Seq(S)
    BY <1>1
  <2>2. (a \o b) \o t = a \o (b \o t)
    BY <2>1, Associates
  <2> QED
    BY <1>1, <2>2
<1> DEFINE c == x \o a
<1>5. /\ Len(c \o d) = Len(c) + Len(d) /\ Len(c) \in Nat /\ Len(d) \in Nat
      /\ \A i \in 1..Len(c) : (c \o d)[i] = c[i]
  <2>1. c \in Seq(S) /\ d \in Seq(S)
    BY <1>2
  <2> HIDE DEF c, d
  <2> QED
    BY <2>1, Joins
<1>6. c \o d = x \o (w \o t)
  BY <1>3, <1>4
<1>7. Len(c) = Len(x) + n /\ c \in Seq(S)
  BY <1>2
<1> HIDE DEF c, d
<1>8. \A i \in 1..(Len(x) + n) : c[i] = (x \o (w \o t))[i]
  BY <1>5, <1>6, <1>7
<1>9. Len(x) + n <= Len(x \o (w \o t)) /\ Len(x \o (w \o t)) \in Nat
  BY <1>5, <1>6, <1>7
<1> QED
  BY <1>1, <1>6, <1>7, <1>8, <1>9 DEF a, b, c, d

\* More of the body is buffered.
LEMMA GetBodyStep == Apart /\ Inv /\ GetBody => Inv'
<1> SUFFICES ASSUME Apart, Inv, GetBody PROVE Inv'
  OBVIOUS
<1> DEFINE missing == expected - Len(iob)
           n == Least(missing, Len(wire))
<1>1. /\ pc = "buffer" /\ missing > 0
      /\ conf' = conf /\ reqs' = reqs /\ todo' = todo /\ client' = client /\ sfd' = sfd /\ up' = up
      /\ answered' = answered /\ abandoned' = abandoned /\ pooled' = pooled /\ stray' = stray
      /\ req' = req /\ expected' = expected /\ flags' = flags
  BY DEF GetBody, clientVars, serverVars, historyVars
<1>2. /\ Types /\ Asked /\ Marks /\ History /\ RouteInv /\ MiddleInv
      /\ req \in DOMAIN reqs /\ AllBelow(answered, req) /\ Body(req) \in Nat
      /\ "lengthSet" \notin flags
      /\ iob \in Seq(Parts) /\ wire \in Seq(Parts) /\ todo \in Seq(Parts) /\ Stream \in Seq(Parts)
  BY <1>1, RouteFacts
<1>3. Len(iob) \in Nat /\ Len(wire) \in Nat /\ (wire = <<>> <=> Len(wire) = 0) /\ expected \in Nat
  BY <1>2, Empty DEF Types
<1>4. expected # 0 /\ conf.filters /\ Len(iob) < expected
  BY <1>1, <1>2, <1>3 DEF RouteInv
<1>5. /\ Unfiltered /\ expected = Body(req) /\ ~Chunked /\ "complete" \notin flags
      /\ "waiting" \notin flags /\ Single /\ Clean
  <2>1. Unfiltered
    BY <1>1, <1>2, <1>4 DEF RouteInv
  <2>2. expected = Body(req) /\ ~Chunked
    BY <1>4, <2>1 DEF Unfiltered
  <2>3. "complete" \notin flags
    BY <1>3, <1>4, <2>1, <2>2 DEF Unfiltered
  <2> QED
    BY <1>1, <1>2, <2>1, <2>2, <2>3 DEF RouteInv
<1>6. Continues(reqs, client, <<req, 3>>, Stream) /\ Stream = (iob \o wire) \o todo
  BY <1>2, <1>5, StreamFacts DEF Unfiltered
<1>7. flags' \subseteq Flags /\ answered' \subseteq DOMAIN reqs /\ abandoned' \subseteq DOMAIN reqs
      /\ answered \subseteq answered' /\ abandoned \subseteq abandoned'
  BY <1>1, <1>2 DEF Types
<1>8. CASE wire = <<>>
  <2>1. pc' = "done" /\ iob' = iob /\ wire' = wire
    BY <1>8 DEF GetBody, Return
  <2>2. ~MayContinue'
    BY <1>1, <1>2 DEF MayContinue
  <2>3. wire' \in Seq(Parts) /\ iob' \in Seq(Parts) /\ sfd' \in {"none", "open", "dead"} /\ expected' \in Nat
    BY <1>1, <1>2, <2>1, Unmoved
  <2> QED
    BY <1>1, <1>7, <2>1, <2>2, <2>3, Finish
<1>9. CASE wire # <<>>
  <2> DEFINE a == SubSeq(wire, 1, n)
             b == From(wire, n + 1)
  <2>1. pc' = "buffer" /\ iob' = iob \o a /\ wire' = b
    BY <1>1, <1>9 DEF GetBody
  <2>2. n \in 0..Len(wire) /\ n <= missing
    BY <1>1, <1>3 DEF Least
  <2>3. a \in Seq(Parts) /\ b \in Seq(Parts) /\ Len(a) = n /\ a \o b = wire
    BY <1>2, <2>2, Cut
  <2>4. /\ iob' \in Seq(Parts) /\ wire' \in Seq(Parts) /\ Len(iob') = Len(iob) + n
        /\ \A i \in 1..(Len(iob) + n) : iob'[i] = Stream[i]
        /\ Len(iob) + n <= Len(Stream) /\ Len(Stream) \in Nat
        /\ Stream' = Stream
    <3> HIDE DEF n
    <3>1. iob \in Seq(Parts) /\ wire \in Seq(Parts) /\ todo \in Seq(Parts) /\ n \in 0..Len(wire)
      BY <1>2, <2>2
    <3>2. iob \o a \in Seq(Parts) /\ b \in Seq(Parts) /\ Len(iob \o a) = Len(iob) + n
      <4>1. iob \o a \in Seq(Parts)
        BY ONLY <3>1, TakenFrom
      <4>2. Len(iob \o a) = Len(iob) + n
        BY ONLY <3>1, TakenFrom
      <4>3. b \in Seq(Parts)
        BY ONLY <3>1, Cut
      <4> QED
        BY ONLY <4>1, <4>2, <4>3
    <3>3. \A i \in 1..(Len(iob) + n) : (iob \o a)[i] = (iob \o (wire \o todo))[i]
      BY ONLY <3>1, TakenFrom
    <3>4. Len(iob) + n <= Len(iob \o (wire \o todo)) /\ Len(iob \o (wire \o todo)) \in Nat
      BY ONLY <3>1, TakenFrom
    <3>5. (iob \o a) \o (b \o todo) = iob \o (wire \o todo)
      <4>1. a \in Seq(Parts) /\ b \in Seq(Parts) /\ a \o b = wire
        BY ONLY <3>1, Cut
      <4> HIDE DEF a, b
      <4>2. (a \o b) \o todo = a \o (b \o todo) /\ b \o todo \in Seq(Parts)
        <5>1. a \in Seq(Parts) /\ b \in Seq(Parts) /\ todo \in Seq(Parts)
          BY <3>1, <4>1
        <5> QED
          BY ONLY <5>1, Associates
      <4> DEFINE d == b \o todo
      <4>3. iob \in Seq(Parts) /\ a \in Seq(Parts) /\ d \in Seq(Parts)
        BY <3>1, <4>1, <4>2
      <4>4. (iob \o a) \o d = iob \o (a \o d)
        <5> HIDE DEF d
        <5>1. (iob \o a) \o d = iob \o (a \o d) /\ a \o d \in Seq(Parts)
          BY ONLY <4>3, Associates
        <5> QED
          BY ONLY <5>1
      <4> QED
        BY ONLY <4>1, <4>2, <4>4
    <3> HIDE DEF a, b
    <3>6. Rest' = b \o todo
      BY <1>1, <2>1 DEF Rest
    <3> QED
      BY <2>1, <3>2, <3>3, <3>4, <3>5, <3>6 DEF Stream, Rest
  <2>5. Len(iob') <= Body(req) /\ Len(iob') \in Nat
    <3> HIDE DEF n
    <3> QED
      BY <1>3, <1>5, <2>2, <2>4
  <2>6. Pieces(req, iob')
    <3>1. \A i \in 1..Len(Stream) : Stream[i] = <<req, 3 + i>>
      <4>1. 3 \in Nat \ {0} /\ 3 <= 3 + Body(req) /\ reqs[req] \notin conf.pipelined
        BY <1>2, <1>5 DEF Single, Kind
      <4> QED
        BY <1>2, <1>6, <4>1, LastOne
    <3>2. \A i \in 1..Len(iob') : i \in 1..Len(Stream)
      <4> HIDE DEF n
      <4> QED
        BY <2>4, <2>5
    <3>3. \A i \in 1..Len(iob') : iob'[i] = Stream[i]
      <4> HIDE DEF n
      <4> QED
        BY <2>4
    <3> QED
      BY <3>1, <3>2, <3>3 DEF Pieces
  <2>7. Unfiltered'
    <3>1. Clean' => Continues(reqs', client', <<req', 3>>, Stream')
      <4> HIDE DEF n, a, b
      <4>1. Stream' = Stream
        BY <2>4
      <4> QED
        BY <1>1, <1>6, <4>1
    <3>2. Pieces(req', iob') /\ Len(iob') <= Body(req)'
      BY <1>1, <2>5, <2>6 DEF Body
    <3>3. ~Chunked' /\ "complete" \notin flags' /\ expected' = Body(req)'
      BY <1>1, <1>5 DEF Chunked, Kind, Body
    <3> QED
      BY <3>1, <3>2, <3>3 DEF Unfiltered
  <2>8. RouteInv'
    <3>1. Single' /\ Clean' /\ "waiting" \notin flags'
      BY <1>1, <1>5 DEF Single, Kind, Clean
    <3> QED
      BY <1>1, <1>4, <2>1, <2>7, <3>1 DEF RouteInv
  <2>9. MiddleInv'
    BY <1>1, <1>2, <2>1 DEF MiddleInv, Middle
  <2>10. Stages'
    BY <2>1, <2>8, <2>9, OnlyHere
  <2>11. Asked'
    BY <1>1, <1>2, ThreadAsked
  <2>12. Types'
    <3>1. pc' \in Pcs
      BY <2>1 DEF Pcs
    <3>2. /\ up' \in Seq(Parts) /\ pooled' \in Seq(Parts)
          /\ sfd' \in {"none", "open", "dead"} /\ expected' \in Nat
          /\ req' \in {0} \cup DOMAIN reqs /\ stray' \in {0} \cup DOMAIN reqs
      BY <1>1, <1>2 DEF Types
    <3> QED
      BY <1>1, <1>2, <1>7, <2>4, <3>1, <3>2, ThreadTypes
  <2>13. Marks'
    BY <1>1, <1>2, <2>1 DEF Marks, Over
  <2>14. History'
    BY <1>1, <1>2, SameHistory
  <2> QED
    BY <2>10, <2>11, <2>12, <2>13, <2>14 DEF Inv
<1> QED
  BY <1>8, <1>9

\* The buffered body is filtered, and nothing else is in the buffer.
LEMMA FilterBodyStep == Apart /\ Inv /\ FilterBody => Inv'
<1> SUFFICES ASSUME Apart, Inv, FilterBody PROVE Inv'
  OBVIOUS
<1>1. /\ pc = "buffer" /\ expected <= Len(iob)
      /\ conf' = conf /\ reqs' = reqs /\ todo' = todo /\ client' = client /\ sfd' = sfd /\ up' = up
      /\ abandoned' = abandoned /\ pooled' = pooled /\ stray' = stray
      /\ req' = req /\ wire' = wire
  BY DEF FilterBody, clientVars, serverVars
<1>2. /\ Types /\ Asked /\ Marks /\ History /\ RouteInv /\ MiddleInv
      /\ req \in DOMAIN reqs /\ AllBelow(answered, req) /\ Body(req) \in Nat
      /\ Body(req) # 0 /\ ~Chunked => Single
      /\ iob \in Seq(Parts) /\ Rest \in Seq(Parts) /\ Stream \in Seq(Parts)
      /\ "lengthSet" \notin flags /\ "crunched" \notin flags /\ "serverKA" \notin flags
  BY <1>1, RouteFacts
<1>3. expected # 0 /\ conf.filters /\ Unfiltered /\ expected \in Nat
  BY <1>1, <1>2 DEF RouteInv, Types
<1>4. expected = Body(req) /\ Body(req) # 0 /\ Single /\ Clean /\ "waiting" \notin flags
  <2>1. expected = Body(req) /\ ~Chunked
    BY <1>3 DEF Unfiltered
  <2>2. Single
    BY <1>2, <1>3, <2>1
  <2> QED
    BY <1>1, <1>2, <1>3, <2>1, <2>2 DEF RouteInv
<1>5. wire' \in Seq(Parts) /\ sfd' \in {"none", "open", "dead"}
      /\ abandoned \subseteq abandoned' /\ abandoned' \subseteq DOMAIN reqs
  BY <1>1, <1>2 DEF Types
<1>6. CASE iob' = <<<<req, 0>>>> /\ expected' = 0 /\ pc' = "connect" /\ UNCHANGED <<flags, answered>>
  <2>1. Rest = <<>>
    <3>1. 3 \in Nat \ {0} /\ 3 <= 3 + Body(req) /\ reqs[req] \notin conf.pipelined
      BY <1>2, <1>4 DEF Single, Kind
    <3>2. Continues(reqs, client, <<req, 3>>, Stream)
      BY <1>3, <1>4 DEF Unfiltered
    <3>3. 3 + Len(Stream) <= 3 + Body(req)
      BY <1>2, <3>1, <3>2, LastOne
    <3>4. Len(Stream) = Len(iob) + Len(Rest) /\ Len(iob) \in Nat
      BY <1>2, Joins DEF Stream
    <3>5. Len(Rest) \in Nat /\ (Rest = <<>> <=> Len(Rest) = 0)
      BY <1>2, Empty
    <3>6. Len(Rest) = 0
      BY <1>1, <1>2, <1>4, <3>3, <3>4, <3>5
    <3> QED
      BY <3>5, <3>6
  <2>2. Filtered'
    <3>1. Rest' = <<>>
      BY <1>1, <2>1 DEF Rest
    <3>2. Single' /\ Body(req)' # 0
      BY <1>1, <1>4 DEF Single, Kind, Body
    <3> QED
      BY <1>1, <1>3, <1>6, <3>1, <3>2 DEF Filtered
  <2>3. RouteInv'
    <3>1. Single' /\ Clean' /\ "waiting" \notin flags'
      BY <1>1, <1>4, <1>6 DEF Single, Kind, Clean
    <3> QED
      BY <1>6, <2>2, <3>1 DEF RouteInv
  <2>4. MiddleInv'
    BY <1>1, <1>2, <1>6 DEF MiddleInv, Middle
  <2>5. Stages'
    BY <1>6, <2>3, <2>4, OnlyHere
  <2>6. Asked'
    BY <1>1, <1>2, <1>6, ThreadAsked
  <2>7. Types'
    <3>1. pc' \in Pcs /\ 0 \in Nat
      BY <1>6 DEF Pcs
    <3>2. iob' \in Seq(Parts)
      <4>1. <<req, 0>> \in Parts
        BY <1>2 DEF Parts
      <4> QED
        BY <1>6, <4>1
    <3>3. /\ up' \in Seq(Parts) /\ pooled' \in Seq(Parts)
          /\ req' \in {0} \cup DOMAIN reqs /\ stray' \in {0} \cup DOMAIN reqs
          /\ flags' \subseteq Flags /\ answered' \subseteq DOMAIN reqs
      BY <1>1, <1>2, <1>6 DEF Types
    <3> QED
      BY <1>1, <1>2, <1>5, <1>6, <3>1, <3>2, <3>3, ThreadTypes
  <2>8. Marks'
    BY <1>1, <1>2, <1>6 DEF Marks, Over
  <2>9. History'
    BY <1>1, <1>2, SameHistory
  <2> QED
    BY <2>5, <2>6, <2>7, <2>8, <2>9 DEF Inv
<1>7. CASE Return /\ Answer({"crunched", "lengthSet"}) /\ UNCHANGED <<iob, expected>>
  <2>1. pc' = "done" /\ answered' = answered \cup {req} /\ flags' = flags \cup {"crunched", "lengthSet"}
        /\ iob' = iob /\ expected' = expected
    BY <1>7 DEF Return, Answer
  <2>2. ~MayContinue'
    BY <1>3, <2>1 DEF MayContinue, Tainted, Unread
  <2>3. flags' \subseteq Flags
    <3>1. flags \subseteq Flags /\ {"crunched", "lengthSet"} \subseteq Flags
      BY <1>2 DEF Types, Flags
    <3> QED
      BY <2>1, <3>1
  <2>4. answered \subseteq answered' /\ answered' \subseteq DOMAIN reqs
    BY <1>2, <2>1 DEF Types
  <2> QED
    BY <1>1, <1>2, <1>3, <1>5, <2>1, <2>2, <2>3, <2>4, Finish
<1> QED
  BY <1>6, <1>7 DEF FilterBody

-----------------------------------------------------------------------------
(* Connecting and sending.                                                 *)

\* The thread stays with its request.
LEMMA Proceed ==
  ASSUME Inv, conf' = conf, reqs' = reqs, todo' = todo, client' = client, stray' = stray, req' = req,
         answered' = answered, abandoned' = abandoned,
         pc \notin Over, pc' \in {"send", "relay", "established"},
         wire' \in Seq(Parts), iob' \in Seq(Parts), up' \in Seq(Parts), sfd' \in {"none", "open", "dead"},
         expected' \in Nat, flags' = flags \/ (~conf.tls /\ flags' = flags \cup {"complete"}),
         Ordered(reqs, abandoned, up'),
         pooled' = pooled \/ (pooled' = up /\ Settled(reqs, abandoned, up)),
         req \in DOMAIN reqs, AllBelow(answered, req),
         pc' = "send" => /\ Before(up', req) /\ RouteInv'
                         /\ sfd' = "open" => Settled(reqs, abandoned, up'),
         pc' = "relay" => RelayInv',
         pc' = "established" => TalkInv'
  PROVE  Inv'
<1>1. Types /\ Asked /\ Marks /\ History
  BY DEF Inv
<1>2. Asked'
  <2>1. answered \subseteq answered'
    OBVIOUS
  <2> QED
    BY <1>1, <2>1, ThreadAsked
<1>3. Types'
  <2>1. pooled' \in Seq(Parts) /\ answered' \subseteq DOMAIN reqs /\ abandoned' \subseteq DOMAIN reqs
    BY <1>1 DEF Types
  <2>2. pc' \in Pcs
    BY DEF Pcs
  <2>3. req' \in {0} \cup DOMAIN reqs /\ stray' \in {0} \cup DOMAIN reqs
    BY <1>1 DEF Types
  <2>4. flags' \subseteq Flags
    <3>1. flags \subseteq Flags /\ "complete" \in Flags
      BY <1>1 DEF Types, Flags
    <3> QED
      BY <3>1
  <2> QED
    BY <1>1, <2>1, <2>2, <2>3, <2>4, ThreadTypes
<1>4. Marks'
  <2>1. "lengthSet" \notin flags' /\ "crunched" \notin flags' /\ "serverKA" \notin flags'
    BY <1>1 DEF Marks
  <2>2. conf.tls => "tainted" \notin flags' /\ "complete" \notin flags' /\ "waiting" \notin flags'
    BY <1>1 DEF Marks
  <2> QED
    BY <2>1, <2>2 DEF Marks
<1>5. History'
  <2>1. Settled(reqs, abandoned, pooled') /\ (stray # 0 => stray \in abandoned)
    BY <1>1 DEF History
  <2> QED
    BY <2>1 DEF History
<1>6. MiddleInv'
  BY DEF MiddleInv, Middle
<1>7. Stages'
  BY <1>6, OnlyHere
<1> QED
  BY <1>2, <1>3, <1>4, <1>5, <1>7 DEF Inv

\* A request that begins with its header is sent behind others.
LEMMA SendsOn ==
  ASSUME Types, req \in DOMAIN reqs, Ordered(reqs, abandoned, up), Before(up, req), Settled(reqs, abandoned, up),
         NEW y \in Seq(Parts), y # <<>>, y[1] = <<req, 3>>,
         \A i \in 2..Len(y) : Orderly(reqs, abandoned, y[i - 1], y[i])
  PROVE  /\ Ordered(reqs, abandoned, up \o y)
         /\ up \o y \in Seq(Parts) /\ up \o y # <<>>
         /\ (up \o y)[Len(up \o y)] = y[Len(y)]
<1>1. up \in Seq(Parts)
  BY DEF Types
<1>2. up \in Seq(UnitType) /\ y \in Seq(UnitType)
  BY <1>1, KnownParts
<1>3. IF up = <<>> THEN y[1][2] = 3 ELSE Orderly(reqs, abandoned, up[Len(up)], y[1])
  <2>1. CASE up = <<>>
    BY <2>1
  <2>2. CASE up # <<>>
    <3>1. up[Len(up)][1] < req /\ (EndsIn(reqs, up[Len(up)]) \/ up[Len(up)][1] \in abandoned)
      BY <2>2 DEF Before, Settled
    <3> DEFINE l == up[Len(up)]
    <3>2. l[1] \in Nat /\ req \in Nat
      <4>1. Len(up) \in 1..Len(up)
        BY <1>1, <2>2, Empty
      <4>2. l \in Parts
        BY <1>1, <4>1
      <4> QED
        BY <4>2, RequestFacts, PartFacts
    <3>3. req > l[1]
      BY <3>1, <3>2
    <3> QED
      BY <2>2, <3>1, <3>3 DEF Orderly
  <2> QED
    BY <2>1, <2>2
<1>4. Ordered(reqs, abandoned, up \o y)
  BY <1>2, <1>3, SentBehind
<1>5. /\ up \o y \in Seq(Parts) /\ Len(up \o y) = Len(up) + Len(y) /\ Len(y) \in Nat
      /\ \A i \in 1..Len(y) : (up \o y)[Len(up) + i] = y[i]
      /\ up \o y = <<>> <=> up = <<>> /\ y = <<>>
  BY <1>1, Joins
<1>6. Len(y) \in 1..Len(y)
  BY Empty
<1>7. (up \o y)[Len(up) + Len(y)] = y[Len(y)]
  BY <1>5, <1>6
<1> QED
  BY <1>4, <1>5, <1>7

\* The header alone.
LEMMA HeaderFacts ==
  ASSUME Types, req \in DOMAIN reqs
  PROVE  /\ Header \in Seq(Parts) /\ Header # <<>> /\ Len(Header) = 1 /\ Header[1] = <<req, 3>>
         /\ \A i \in 2..Len(Header) : Orderly(reqs, abandoned, Header[i - 1], Header[i])
<1>1. <<req, 3>> \in Parts
  BY DEF Parts
<1>2. Header \in Seq(Parts) /\ Len(Header) = 1 /\ Header[1] = <<req, 3>>
  BY <1>1 DEF Header
<1>3. Header # <<>>
  BY DEF Header
<1>4. 2..Len(Header) = {}
  BY <1>2
<1> QED
  BY <1>2, <1>3, <1>4

\* The header and the body that is buffered.
LEMMA BodyFacts ==
  ASSUME Types, req \in DOMAIN reqs, Pieces(req, iob)
  PROVE  /\ Header \o iob \in Seq(Parts) /\ Header \o iob # <<>> /\ (Header \o iob)[1] = <<req, 3>>
         /\ (Header \o iob)[Len(Header \o iob)] = <<req, 3 + Len(iob)>>
         /\ \A i \in 2..Len(Header \o iob) : Orderly(reqs, abandoned, (Header \o iob)[i - 1], (Header \o iob)[i])
<1> DEFINE y == Header \o iob
<1>1. Header \in Seq(Parts) /\ Len(Header) = 1 /\ Header[1] = <<req, 3>> /\ iob \in Seq(Parts)
  BY HeaderFacts DEF Types
<1>2. /\ y \in Seq(Parts) /\ Len(y) = 1 + Len(iob) /\ Len(iob) \in Nat
      /\ y[1] = <<req, 3>>
      /\ \A i \in 1..Len(iob) : y[1 + i] = iob[i]
  <2>1. /\ y \in Seq(Parts) /\ Len(y) = Len(Header) + Len(iob) /\ Len(iob) \in Nat
        /\ \A i \in 1..Len(Header) : y[i] = Header[i]
        /\ \A i \in 1..Len(iob) : y[Len(Header) + i] = iob[i]
    BY <1>1, Joins
  <2>2. 1 \in 1..Len(Header)
    BY <1>1
  <2> HIDE DEF y
  <2>3. y[1] = <<req, 3>>
    BY <1>1, <2>1, <2>2
  <2> QED
    BY <1>1, <2>1, <2>3
<1> HIDE DEF y
<1>3. \A i \in 1..Len(y) : y[i] = <<req, 2 + i>>
  <2> TAKE i \in 1..Len(y)
  <2>1. CASE i = 1
    <3>1. 2 + 1 = 3
      OBVIOUS
    <3> QED
      BY <1>2, <2>1, <3>1
  <2>2. CASE i # 1
    <3> DEFINE k == i - 1
    <3>1. k \in 1..Len(iob) /\ i = 1 + k /\ 3 + k = 2 + i
      BY <1>2, <2>2
    <3> HIDE DEF k
    <3>2. y[1 + k] = iob[k] /\ iob[k] = <<req, 3 + k>>
      BY <1>2, <3>1 DEF Pieces
    <3> QED
      BY <3>1, <3>2
  <2> QED
    BY <2>1, <2>2
<1>4. y[Len(y)] = <<req, 3 + Len(iob)>>
  <2>1. Len(y) \in 1..Len(y) /\ 2 + Len(y) = 3 + Len(iob)
    BY <1>2
  <2> QED
    BY <1>3, <2>1
<1>5. y # <<>>
  <2>1. Len(y) # 0
    BY <1>2
  <2> QED
    BY <1>2, <2>1, Empty
<1>6. ASSUME NEW i \in 2..Len(y) PROVE Orderly(reqs, abandoned, y[i - 1], y[i])
  <2>1. i - 1 \in 1..Len(y) /\ i \in 1..Len(y) /\ 2 + i = 2 + (i - 1) + 1
    BY <1>2
  <2>2. y[i - 1] = <<req, 2 + (i - 1)>> /\ y[i] = <<req, 2 + i>>
    BY <1>3, <2>1
  <2> QED
    BY <2>1, <2>2 DEF Orderly
<1> QED
  BY <1>2, <1>4, <1>5, <1>6 DEF y

\* What follows when they are sent.
LEMMA BodyFollowed ==
  ASSUME Types, req \in DOMAIN reqs, Pieces(req, iob), Continues(reqs, client, <<req, 3>>, Stream)
  PROVE  Continues(reqs, client, <<req, 3 + Len(iob)>>, Rest)
<1>1. iob \in Seq(Parts) /\ Rest \in Seq(Parts) /\ Len(iob) \in Nat /\ (iob = <<>> <=> Len(iob) = 0)
  BY StreamFacts, Empty DEF Types
<1>2. CASE iob = <<>>
  <2>1. Stream = Rest
    <3>1. <<>> \o Rest = Rest
      BY <1>1, ConcatEmptySeq
    <3> QED
      BY <1>2, <3>1 DEF Stream
  <2>2. 3 + Len(iob) = 3
    BY <1>1, <1>2
  <2> QED
    BY <2>1, <2>2
<1>3. CASE iob # <<>>
  <2>1. Len(iob) \in 1..Len(iob)
    BY <1>1, <1>3
  <2>2. iob[Len(iob)] = <<req, 3 + Len(iob)>>
    BY <2>1 DEF Pieces
  <2>3. Lined(reqs, client, iob \o Rest)
    BY IsLined DEF Stream
  <2>4. iob \in Seq(UnitType) /\ Rest \in Seq(UnitType)
    BY <1>1, KnownParts
  <2> QED
    BY <1>3, <2>2, <2>3, <2>4, TakeMany
<1> QED
  BY <1>2, <1>3

\* The header and the filtered body.
LEMMA FilteredFacts ==
  ASSUME Types, Asked, req \in DOMAIN reqs, AllBelow(answered, req), Filtered
  PROVE  /\ Header \o iob \in Seq(Parts) /\ Header \o iob # <<>> /\ (Header \o iob)[1] = <<req, 3>>
         /\ (Header \o iob)[Len(Header \o iob)] = <<req, 0>>
         /\ \A i \in 2..Len(Header \o iob) : Orderly(reqs, abandoned, (Header \o iob)[i - 1], (Header \o iob)[i])
         /\ Continues(reqs, client, <<req, 0>>, Rest)
         /\ Lined(reqs, client, Stream)
         /\ Stream # <<>> /\ Stream[1] = <<req, 0>>
<1>1. iob = <<<<req, 0>>>> /\ Rest = <<>> /\ Kind \notin conf.pipelined
  BY DEF Filtered, Single
<1> DEFINE y == Header \o iob
<1>2. Header \in Seq(Parts) /\ Len(Header) = 1 /\ Header[1] = <<req, 3>>
  BY HeaderFacts
<1>3. <<req, 0>> \in Parts
  BY DEF Parts
<1>31. iob \in Seq(Parts) /\ Len(iob) = 1 /\ iob[1] = <<req, 0>>
  BY <1>1, <1>3
<1>4. y \in Seq(Parts) /\ Len(y) = 2 /\ y[1] = <<req, 3>> /\ y[2] = <<req, 0>>
  <2>1. Header \in Seq(Parts) /\ iob \in Seq(Parts)
    BY <1>2, <1>31
  <2>2. /\ y \in Seq(Parts) /\ Len(y) = Len(Header) + Len(iob)
        /\ \A i \in 1..Len(Header) : y[i] = Header[i]
        /\ \A i \in 1..Len(iob) : y[Len(Header) + i] = iob[i]
    BY ONLY <2>1, Joins
  <2> HIDE DEF y
  <2>3. y[1] = Header[1]
    BY <1>2, <2>2
  <2>4. y[Len(Header) + 1] = iob[1]
    BY <1>31, <2>2
  <2> QED
    BY <1>2, <1>31, <2>2, <2>3, <2>4
<1> HIDE DEF y
<1>5. y # <<>>
  BY <1>4
<1>6. ASSUME NEW i \in 2..Len(y) PROVE Orderly(reqs, abandoned, y[i - 1], y[i])
  <2>1. i = 2 /\ 2 - 1 = 1
    BY <1>4
  <2>2. Orderly(reqs, abandoned, <<req, 3>>, <<req, 0>>)
    BY DEF Orderly
  <2> QED
    BY <1>4, <2>1, <2>2
<1>7. req = Len(reqs)
  BY <1>1, LastOne DEF Kind
<1>8. Said(reqs, client, <<req, 0>>)
  BY <1>7 DEF Said, EndsIn
<1>9. Continues(reqs, client, <<req, 0>>, Rest)
  BY <1>1, <1>8 DEF Continues
<1>10. Stream = <<<<req, 0>>>>
  <2>1. <<<<req, 0>>>> \o <<>> = <<<<req, 0>>>>
    BY <1>3, ConcatEmptySeq
  <2> QED
    BY <1>1, <2>1 DEF Stream
<1>11. Stream # <<>> /\ Stream[1] = <<req, 0>> /\ Len(Stream) = 1
  BY <1>10
<1>12. Lined(reqs, client, Stream)
  <2>1. Chain(reqs, Stream)
    <3>1. 2..Len(Stream) = {}
      BY <1>11
    <3> QED
      BY <3>1 DEF Chain
  <2> QED
    BY <1>8, <1>11, <2>1 DEF Lined
<1> QED
  BY <1>4, <1>5, <1>6, <1>9, <1>11, <1>12 DEF y

\* A server connection of an earlier request is used again.
LEMMA ReuseStep == Apart /\ Inv /\ Reuse => Inv'
<1> SUFFICES ASSUME Apart, Inv, Reuse PROVE Inv'
  OBVIOUS
<1>1. /\ pc = "connect" /\ pc' = "send" /\ sfd = "open"
      /\ conf' = conf /\ reqs' = reqs /\ todo' = todo /\ client' = client /\ sfd' = sfd /\ up' = up
      /\ answered' = answered /\ abandoned' = abandoned /\ pooled' = pooled /\ stray' = stray
      /\ req' = req /\ wire' = wire /\ iob' = iob /\ expected' = expected /\ flags' = flags
  BY DEF Reuse, clientVars, serverVars, historyVars, requestVars
<1>2. /\ Types /\ History /\ RouteInv
      /\ req \in DOMAIN reqs /\ AllBelow(answered, req) /\ Before(up, req) /\ (sfd = "open" => Settled(reqs, abandoned, up))
  BY <1>1, RouteFacts
<1>3. /\ wire' \in Seq(Parts) /\ iob' \in Seq(Parts) /\ up' \in Seq(Parts)
      /\ sfd' \in {"none", "open", "dead"} /\ expected' \in Nat
  BY <1>1, <1>2, Unmoved
<1>4. Ordered(reqs, abandoned, up')
  BY <1>1, <1>2 DEF History
<1>5. RouteInv'
  <2>1. Unfiltered => Unfiltered'
    BY <1>1 DEF Unfiltered, Stream, Rest, Clean, Kind, Chunked, Body
  <2>2. Filtered => Filtered'
    BY <1>1 DEF Filtered, Rest, Single, Kind, Body
  <2>3. (Single' => Clean') /\ ("waiting" \in flags' => Body(req)' = 0 /\ Kind'.method = "GET")
        /\ ("complete" \notin flags' => "waiting" \notin flags' /\ Single')
    BY <1>1, <1>2 DEF RouteInv, Single, Clean, Kind, Body
  <2>4. (Filtered /\ expected = 0) \/ Unfiltered
    BY <1>1, <1>2 DEF RouteInv
  <2> QED
    BY <1>1, <2>1, <2>2, <2>3, <2>4 DEF RouteInv
<1>6. pc \notin Over /\ pc' \in {"send", "relay", "established"}
  BY <1>1 DEF Over
<1> QED
  BY <1>1, <1>2, <1>3, <1>4, <1>5, <1>6, Proceed

\* What is left of the request when its server is asked: three cases of what is buffered.
LEMMA SendFacts ==
  ASSUME Apart, Inv, pc \in {"connect", "send"}
  PROVE  /\ Types /\ Asked /\ Marks /\ History
         /\ req \in DOMAIN reqs /\ AllBelow(answered, req) /\ Before(up, req) /\ (sfd = "open" => Settled(reqs, abandoned, up))
         /\ Body(req) \in Nat /\ Len(iob) \in Nat /\ (iob = <<>> <=> Len(iob) = 0) /\ expected \in Nat
         /\ conf.tls => /\ "waiting" \notin flags /\ "complete" \notin flags /\ Clean /\ Single
                        /\ ~Chunked
         /\ "complete" \notin flags => Clean /\ Single /\ "waiting" \notin flags
         /\ "lengthSet" \notin flags
         /\ \/ /\ Filtered /\ expected = 0 /\ conf.filters /\ Body(req) # 0 /\ iob # <<>> /\ "waiting" \notin flags
            \/ /\ Unfiltered /\ "waiting" \in flags /\ Body(req) = 0 /\ expected = 0
            \/ /\ Unfiltered /\ "waiting" \notin flags /\ Pieces(req, iob) /\ Len(iob) <= Body(req)
               /\ "complete" \in flags => Len(iob) = Body(req)
               /\ expected = Body(req) \/ (expected = 0 /\ Chunked /\ Len(iob) = Body(req))
<1>1. /\ Types /\ Asked /\ Marks /\ History /\ RouteInv
      /\ req \in DOMAIN reqs /\ AllBelow(answered, req) /\ Before(up, req) /\ (sfd = "open" => Settled(reqs, abandoned, up))
      /\ Body(req) \in Nat /\ "lengthSet" \notin flags
      /\ conf.tls => Single /\ ~Chunked
      /\ conf.tls => "tainted" \notin flags /\ "complete" \notin flags /\ "waiting" \notin flags
      /\ iob \in Seq(Parts)
  BY RouteFacts
<1>2. Len(iob) \in Nat /\ (iob = <<>> <=> Len(iob) = 0) /\ expected \in Nat
  BY <1>1, Empty DEF Types
<1>3. conf.tls => /\ "waiting" \notin flags /\ "complete" \notin flags /\ Clean /\ Single
                  /\ ~Chunked
  BY <1>1 DEF Clean
<1>4. /\ "complete" \notin flags => Clean /\ Single /\ "waiting" \notin flags
      /\ "waiting" \in flags => Body(req) = 0
      /\ (Filtered /\ expected = 0) \/ Unfiltered
  BY <1>1 DEF RouteInv
<1>5. CASE Filtered /\ expected = 0
  <2>1. conf.filters /\ Body(req) # 0 /\ iob # <<>>
    BY <1>5 DEF Filtered
  <2> QED
    BY <1>1, <1>2, <1>3, <1>4, <1>5, <2>1
<1>6. CASE Unfiltered
  <2>1. /\ "waiting" \notin flags => Pieces(req, iob) /\ Len(iob) <= Body(req)
        /\ "complete" \in flags \/ Chunked => Body(req) = 0 \/ Len(iob) = Body(req)
        /\ expected = IF Chunked THEN 0 ELSE Body(req)
    BY <1>6 DEF Unfiltered
  <2>2. CASE "waiting" \in flags
    BY <1>1, <1>2, <1>3, <1>4, <1>6, <2>1, <2>2
  <2>3. CASE "waiting" \notin flags
    <3>1. Body(req) = 0 => Len(iob) = Body(req)
      BY <1>1, <1>2, <2>1, <2>3
    <3>2. "complete" \in flags => Len(iob) = Body(req)
      BY <2>1, <3>1
    <3>3. expected = Body(req) \/ (expected = 0 /\ Chunked /\ Len(iob) = Body(req))
      BY <2>1, <3>1
    <3> QED
      BY <1>1, <1>2, <1>3, <1>4, <1>6, <2>1, <2>3, <3>2, <3>3
  <2> QED
    BY <2>2, <2>3
<1> QED
  BY <1>4, <1>5, <1>6

\* A server connection is opened; socks5_connect() may send the request at once.
LEMMA ConnectStep == Apart /\ Inv /\ Connect => Inv'
<1> SUFFICES ASSUME Apart, Inv, Connect PROVE Inv'
  OBVIOUS
<1>1. /\ pc = "connect" /\ sfd' = "open"
      /\ conf' = conf /\ reqs' = reqs /\ todo' = todo /\ client' = client
      /\ answered' = answered /\ abandoned' = abandoned /\ stray' = stray
      /\ req' = req /\ wire' = wire /\ expected' = expected /\ flags' = flags
  BY DEF Connect, clientVars
<1>2. /\ Types /\ Asked /\ Marks /\ History
      /\ req \in DOMAIN reqs /\ AllBelow(answered, req) /\ Before(up, req) /\ (sfd = "open" => Settled(reqs, abandoned, up))
      /\ Body(req) \in Nat /\ Len(iob) \in Nat /\ (iob = <<>> <=> Len(iob) = 0) /\ expected \in Nat
      /\ conf.tls => "complete" \notin flags
  BY <1>1, SendFacts
<1>3. pooled' = pooled \/ (pooled' = up /\ Settled(reqs, abandoned, up))
  BY <1>2 DEF Connect, LeaveServer
<1>4. wire' \in Seq(Parts) /\ sfd' \in {"none", "open", "dead"} /\ expected' \in Nat /\ iob \in Seq(Parts) /\ <<>> \in Seq(Parts)
      /\ Rest \in Seq(Parts)
  <2>1. Rest \in Seq(Parts)
    BY <1>2, StreamFacts
  <2> QED
    BY <1>1, <1>2, <2>1 DEF Types
<1>5. pc \notin Over
  BY <1>1 DEF Over
<1>6. CASE ~Optimistic
  <2>1. up' = <<>> /\ iob' = iob /\ pc' = "send"
    BY <1>6 DEF Connect
  <2>2. RouteInv'
    <3>0. RouteInv
      BY DEF Inv, Stages
    <3>1. Unfiltered => Unfiltered'
      BY <1>1, <2>1 DEF Unfiltered, Stream, Rest, Clean, Kind, Chunked, Body
    <3>2. Filtered => Filtered'
      BY <1>1, <2>1 DEF Filtered, Rest, Single, Kind, Body
    <3>3. (Single' => Clean') /\ ("waiting" \in flags' => Body(req)' = 0 /\ Kind'.method = "GET")
          /\ ("complete" \notin flags' => "waiting" \notin flags' /\ Single')
      BY <1>1, <3>0 DEF RouteInv, Single, Clean, Kind, Body
    <3>4. (Filtered /\ expected = 0) \/ Unfiltered
      BY <1>1, <3>0 DEF RouteInv
    <3> QED
      BY <1>1, <2>1, <3>1, <3>2, <3>3, <3>4 DEF RouteInv
  <2>3. Ordered(reqs, abandoned, up') /\ Before(up', req) /\ Settled(reqs, abandoned, up')
    BY <2>1 DEF Ordered, Before, Settled
  <2>4. up' \in Seq(Parts) /\ iob' \in Seq(Parts)
    BY <1>4, <2>1
  <2> QED
    BY <1>1, <1>2, <1>3, <1>4, <1>5, <2>1, <2>2, <2>3, <2>4, Proceed
<1>7. CASE Optimistic
  <2>1. up' = Header \o OptimisticBody /\ pc' = "established" /\ iob' = (IF expected # 0 THEN <<>> ELSE iob)
    BY <1>7 DEF Connect
  <2>2. conf.optimistic /\ "complete" \in flags /\ ~conf.tls
    BY <1>2, <1>7 DEF Optimistic
  <2>3. /\ Header \in Seq(Parts) /\ Header # <<>> /\ Len(Header) = 1 /\ Header[1] = <<req, 3>>
        /\ Header \o <<>> = Header
        /\ \A i \in 2..Len(Header) : Orderly(reqs, abandoned, Header[i - 1], Header[i])
    BY <1>2, HeaderFacts, ConcatEmptySeq
  <2>4. Kind = reqs[req] /\ conf \in Configurations /\ reqs[req] \in conf.kinds /\ (Kind.framing = "none" <=> Body(req) = 0)
    BY <1>2, RequestFacts DEF Kind, Types, Body
  <2>5. CASE expected # 0
    <3>1. /\ Unfiltered /\ Pieces(req, iob) /\ Len(iob) = Body(req) /\ "waiting" \notin flags
      BY <1>1, <2>2, <2>5, SendFacts
    <3>2. up' = Header \o iob /\ iob' = <<>>
      BY <2>1, <2>5 DEF OptimisticBody
    <3>3. /\ Header \o iob \in Seq(Parts) /\ Header \o iob # <<>> /\ (Header \o iob)[1] = <<req, 3>>
          /\ (Header \o iob)[Len(Header \o iob)] = <<req, 3 + Len(iob)>>
          /\ \A i \in 2..Len(Header \o iob) : Orderly(reqs, abandoned, (Header \o iob)[i - 1], (Header \o iob)[i])
      BY <1>2, <3>1, BodyFacts
    <3> DEFINE y == Header \o iob
    <3> HIDE DEF y
    <3>4. /\ y \in Seq(Parts) /\ y # <<>> /\ y[1] = <<req, 3>> /\ up' = y /\ y[Len(y)] = <<req, 3 + Body(req)>>
          /\ \A i \in 2..Len(y) : Orderly(reqs, abandoned, y[i - 1], y[i])
      BY <3>1, <3>2, <3>3 DEF y
    <3>5. Ordered(reqs, abandoned, up')
      BY <3>4 DEF Ordered
    <3>6. Stream' = Rest /\ iob' \in Seq(Parts)
      <4>1. Stream' = <<>> \o Rest
        BY <1>1, <3>2 DEF Stream, Rest
      <4> QED
        BY <1>4, <3>2, <4>1, ConcatEmptySeq
    <3>7. Last(up)' = <<req, 3 + Body(req)>>
      BY <3>4 DEF Last
    <3>8. Clean' => Continues(reqs', client', Last(up)', Stream')
      <4>1. Clean => Continues(reqs, client, <<req, 3 + Len(iob)>>, Rest)
        BY <1>2, <3>1, BodyFollowed DEF Unfiltered
      <4> QED
        BY <1>1, <3>1, <3>6, <3>7, <4>1 DEF Clean
    <3>9. Whole'
      BY <1>1, <3>4, <3>7 DEF Whole, Ends, Body
    <3>10. TalkInv'
      BY <1>1, <2>2, <3>2, <3>4, <3>7, <3>8, <3>9 DEF TalkInv
    <3> QED
      BY <1>1, <1>2, <1>3, <1>4, <1>5, <2>1, <3>4, <3>5, <3>6, <3>10, Proceed
  <2>6. CASE expected = 0
    <3>1. up' = Header /\ iob' = iob
      BY <2>1, <2>3, <2>6 DEF OptimisticBody
    <3> DEFINE y == Header
    <3> HIDE DEF y
    <3>2. /\ y \in Seq(Parts) /\ y # <<>> /\ y[1] = <<req, 3>> /\ up' = y /\ Len(y) = 1
          /\ \A i \in 2..Len(y) : Orderly(reqs, abandoned, y[i - 1], y[i])
      BY <2>3, <3>1 DEF y
    <3>3. Ordered(reqs, abandoned, up') /\ Last(up)' = <<req, 3>>
      BY <3>2 DEF Ordered, Last
    <3>4. Stream' = Stream /\ Rest' = Rest /\ iob' \in Seq(Parts)
      BY <1>1, <1>4, <3>1 DEF Stream, Rest
    <3>5. Whole' <=> Body(req) = 0
      <4>1. Ends(Last(up))' <=> 3 = 3 + Body(req)
        BY <1>1, <3>3 DEF Ends, Body
      <4>2. 3 = 3 + Body(req) <=> Body(req) = 0
        BY <1>2
      <4> QED
        BY <1>1, <3>2, <3>3, <4>1, <4>2 DEF Whole
    <3>6. CASE Filtered /\ Body(req) # 0 /\ conf.filters
      <4>1. Filtered' /\ ~Whole'
        BY <1>1, <3>1, <3>4, <3>5, <3>6 DEF Filtered, Single, Kind, Body
      <4>2. ~SentWhole(conf)'
        BY <1>1, <2>2, <3>6 DEF SentWhole
      <4>3. TalkInv'
        BY <1>1, <2>2, <3>2, <3>3, <4>1, <4>2 DEF TalkInv
      <4> QED
        BY <1>1, <1>2, <1>3, <1>4, <1>5, <2>1, <3>2, <3>3, <3>4, <4>3, Proceed
    <3>7. CASE Unfiltered
      <4>1. Clean' => Continues(reqs', client', Last(up)', Stream')
        BY <1>1, <3>3, <3>4, <3>7 DEF Unfiltered, Clean
      <4>2. iob' # <<>> => "waiting" \in flags' \/ ~Whole'
        <5>1. "waiting" \notin flags => Len(iob) <= Body(req)
          BY <3>7 DEF Unfiltered
        <5>2. "waiting" \notin flags /\ Body(req) = 0 => iob = <<>>
          BY <1>2, <5>1
        <5> QED
          BY <1>1, <3>1, <3>5, <5>2
      <4>3. SentWhole(conf)' => Whole'
        <5>1. Body(req) = 0 \/ Chunked
          BY <2>6, <3>7 DEF Unfiltered
        <5>2. SentWhole(conf) => ~Chunked
          BY <2>2, <2>4 DEF SentWhole, Chunked
        <5> QED
          BY <1>1, <3>5, <5>1, <5>2 DEF SentWhole
      <4>4. TalkInv'
        BY <1>1, <2>2, <3>2, <3>3, <4>1, <4>2, <4>3 DEF TalkInv
      <4> QED
        BY <1>1, <1>2, <1>3, <1>4, <1>5, <2>1, <3>2, <3>3, <3>4, <4>4, Proceed
    <3> QED
      BY <1>1, <3>6, <3>7, SendFacts
  <2> QED
    BY <2>5, <2>6
<1> QED
  BY <1>6, <1>7

\* It cannot be opened: the client gets an error page and may go on.
LEMMA ConnectFailsStep == Apart /\ Inv /\ ConnectFails => Inv'
<1> SUFFICES ASSUME Apart, Inv, ConnectFails PROVE Inv'
  OBVIOUS
<1>1. /\ pc = "connect" /\ pc' = "closed" /\ sfd' = "none"
      /\ conf' = conf /\ reqs' = reqs /\ todo' = todo /\ client' = client /\ up' = up
      /\ answered' = answered /\ abandoned' = abandoned /\ stray' = stray
      /\ req' = req /\ wire' = wire /\ iob' = iob /\ expected' = expected /\ flags' = flags
  BY DEF ConnectFails, clientVars, requestVars
<1>2. Types /\ (sfd = "open" => Settled(reqs, abandoned, up))
  BY <1>1, SendFacts
<1>3. pooled' = pooled \/ (pooled' = up /\ Settled(reqs, abandoned, up))
  BY <1>2 DEF ConnectFails, LeaveServer
<1>4. wire' \in Seq(Parts) /\ iob' \in Seq(Parts) /\ sfd' \in {"none", "open", "dead"} /\ expected' \in Nat
      /\ flags' \subseteq Flags /\ answered' \subseteq DOMAIN reqs /\ abandoned' \subseteq DOMAIN reqs
      /\ answered \subseteq answered' /\ abandoned \subseteq abandoned'
  BY <1>1, <1>2 DEF Types
<1> QED
  BY <1>1, <1>3, <1>4, Finish

\* The header and what is buffered, behind what was sent before.
LEMMA Sent ==
  ASSUME Types, Asked, History, req \in DOMAIN reqs, AllBelow(answered, req), Before(up, req),
         Settled(reqs, abandoned, up), Filtered \/ Pieces(req, iob)
  PROVE  /\ Ordered(reqs, abandoned, up \o Header \o iob)
         /\ up \o Header \o iob \in Seq(Parts) /\ up \o Header \o iob # <<>>
         /\ Last(up \o Header \o iob) = IF Filtered THEN <<req, 0>> ELSE <<req, 3 + Len(iob)>>
<1> DEFINE y == Header \o iob
<1>1. up \in Seq(Parts) /\ Header \in Seq(Parts) /\ iob \in Seq(Parts)
  BY HeaderFacts DEF Types
<1>2. (up \o Header) \o iob = up \o y
  BY ONLY <1>1, Associates
<1>3. /\ y \in Seq(Parts) /\ y # <<>> /\ y[1] = <<req, 3>>
      /\ y[Len(y)] = IF Filtered THEN <<req, 0>> ELSE <<req, 3 + Len(iob)>>
      /\ \A i \in 2..Len(y) : Orderly(reqs, abandoned, y[i - 1], y[i])
  <2>1. CASE Filtered
    BY <2>1, FilteredFacts
  <2>2. CASE ~Filtered
    BY <2>2, BodyFacts
  <2> QED
    BY <2>1, <2>2
<1> HIDE DEF y
<1>4. /\ Ordered(reqs, abandoned, up \o y)
      /\ up \o y \in Seq(Parts) /\ up \o y # <<>>
      /\ (up \o y)[Len(up \o y)] = y[Len(y)]
  BY <1>3, SendsOn DEF History
<1>5. Last(up \o y) = IF Filtered THEN <<req, 0>> ELSE <<req, 3 + Len(iob)>>
  BY <1>3, <1>4 DEF Last
<1> QED
  BY <1>2, <1>4, <1>5

\* Nothing is left in the buffer.
LEMMA Emptied ==
  ASSUME Types, iob' = <<>>, wire' = wire, todo' = todo
  PROVE  Stream' = Rest /\ iob' \in Seq(Parts)
<1>1. Rest \in Seq(Parts)
  BY StreamFacts
<1>2. Stream' = <<>> \o Rest
  BY DEF Stream, Rest
<1>3. <<>> \in Seq(Parts)
  OBVIOUS
<1> QED
  BY <1>1, <1>2, <1>3, ConcatEmptySeq

\* The request is sent.
LEMMA SendStep == Apart /\ Inv /\ Send => Inv'
<1> SUFFICES ASSUME Apart, Inv, Send PROVE Inv'
  OBVIOUS
<1>1. /\ pc = "send" /\ pc' = "established" /\ ~conf.tls
      /\ conf' = conf /\ reqs' = reqs /\ todo' = todo /\ client' = client /\ sfd' = sfd
      /\ answered' = answered /\ abandoned' = abandoned /\ pooled' = pooled /\ stray' = stray
      /\ req' = req /\ wire' = wire /\ expected' = expected /\ flags' = flags
  BY DEF Send, clientVars, historyVars
<1>2. /\ Types /\ Asked /\ Marks /\ History
      /\ req \in DOMAIN reqs /\ AllBelow(answered, req) /\ Before(up, req)
      /\ Body(req) \in Nat /\ Len(iob) \in Nat /\ (iob = <<>> <=> Len(iob) = 0) /\ expected \in Nat
      /\ "complete" \notin flags => Clean /\ Single /\ "waiting" \notin flags
  BY <1>1, SendFacts
<1>3. Settled(reqs, abandoned, up)
  <2>1. sfd = "open"
    BY <1>1 DEF Inv, Stages, RouteInv
  <2> QED
    BY <1>1, <2>1, SendFacts
<1>4. wire' \in Seq(Parts) /\ sfd' \in {"none", "open", "dead"} /\ expected' \in Nat /\ iob \in Seq(Parts)
      /\ Rest \in Seq(Parts) /\ up \in Seq(Parts)
  <2>1. Rest \in Seq(Parts)
    BY <1>2, StreamFacts
  <2> QED
    BY <1>1, <1>2, <2>1 DEF Types
<1>5. pc \notin Over
  BY <1>1 DEF Over
<1>6. CASE "waiting" \in flags
  <2>1. Unfiltered /\ Body(req) = 0 /\ "complete" \in flags
    BY <1>1, <1>2, <1>6, SendFacts
  <2>2. up' = (up \o Header) \o <<>> /\ iob' = iob
    BY <1>6 DEF Send, Sends
  <2>3. /\ Header \in Seq(Parts) /\ Header # <<>> /\ Len(Header) = 1 /\ Header[1] = <<req, 3>>
        /\ \A i \in 2..Len(Header) : Orderly(reqs, abandoned, Header[i - 1], Header[i])
    BY <1>2, HeaderFacts
  <2> DEFINE y == Header
  <2> HIDE DEF y
  <2>4. /\ y \in Seq(Parts) /\ y # <<>> /\ y[1] = <<req, 3>> /\ y[Len(y)] = <<req, 3>>
        /\ \A i \in 2..Len(y) : Orderly(reqs, abandoned, y[i - 1], y[i])
    BY <2>3 DEF y
  <2>5. /\ Ordered(reqs, abandoned, up \o y)
        /\ up \o y \in Seq(Parts) /\ up \o y # <<>>
        /\ (up \o y)[Len(up \o y)] = y[Len(y)]
    BY <1>2, <1>3, <2>4, SendsOn DEF History
  <2>6. up' = up \o y
    <3>1. (up \o y) \o <<>> = up \o y
      BY <2>5, ConcatEmptySeq
    <3> QED
      BY <2>2, <3>1 DEF y
  <2>7. Last(up)' = <<req, 3>>
    BY <2>4, <2>5, <2>6 DEF Last
  <2>8. Stream' = Stream
    BY <1>1, <2>2 DEF Stream, Rest
  <2>9. Clean' => Continues(reqs', client', Last(up)', Stream')
    BY <1>1, <2>1, <2>7, <2>8 DEF Unfiltered, Clean
  <2>10. Whole'
    <3>1. 3 = 3 + Body(req)
      BY <2>1
    <3> QED
      BY <1>1, <2>5, <2>6, <2>7, <3>1 DEF Whole, Ends, Body
  <2>11. TalkInv'
    BY <1>1, <1>6, <2>1, <2>5, <2>6, <2>7, <2>9, <2>10 DEF TalkInv
  <2>12. iob' \in Seq(Parts) /\ up' \in Seq(Parts) /\ Ordered(reqs, abandoned, up')
    BY <1>4, <2>2, <2>5, <2>6
  <2> QED
    BY <1>1, <1>2, <1>4, <1>5, <2>11, <2>12, Proceed
<1>7. CASE "waiting" \notin flags
  <2>1. up' = (up \o Header) \o iob /\ iob' = <<>>
    BY <1>7 DEF Send, Sends
  <2>2. Filtered \/ Pieces(req, iob)
    BY <1>1, <1>7, SendFacts
  <2>3. /\ Ordered(reqs, abandoned, up') /\ up' \in Seq(Parts) /\ up' # <<>>
        /\ Last(up') = IF Filtered THEN <<req, 0>> ELSE <<req, 3 + Len(iob)>>
    BY <1>2, <1>3, <2>1, <2>2, Sent
  <2>4. Stream' = Rest /\ iob' \in Seq(Parts)
    BY <1>1, <1>2, <2>1, Emptied
  <2>5. Last(up)' = Last(up')
    BY DEF Last
  <2>6. Clean' => Continues(reqs', client', Last(up)', Stream')
    <3>1. CASE Filtered
      <4>1. Continues(reqs, client, <<req, 0>>, Rest)
        BY <1>2, <3>1, FilteredFacts
      <4> QED
        BY <1>1, <2>3, <2>4, <2>5, <3>1, <4>1
    <3>2. CASE ~Filtered
      <4>1. Unfiltered /\ Pieces(req, iob)
        BY <1>1, <1>7, <3>2, SendFacts
      <4>2. Clean => Continues(reqs, client, <<req, 3 + Len(iob)>>, Rest)
        BY <1>2, <4>1, BodyFollowed DEF Unfiltered
      <4> QED
        BY <1>1, <2>3, <2>4, <2>5, <3>2, <4>2 DEF Clean
    <3> QED
      BY <3>1, <3>2
  <2>7. "complete" \in flags => Whole'
    <3>1. "complete" \in flags => Filtered \/ Len(iob) = Body(req)
      BY <1>1, <1>7, SendFacts
    <3> QED
      BY <1>1, <2>3, <2>5, <3>1 DEF Whole, Ends, Body
  <2>8. ASSUME "complete" \notin flags
        PROVE  /\ Last(up)'[2] <= 3 + Body(req)
               /\ Ends(Last(up))' \/ (Last(up)'[2] >= 3 /\ Last(up)'[2] + expected >= 3 + Body(req))
    <3>1. CASE Filtered
      <4>1. Last(up)' = <<req, 0>>
        BY <2>3, <2>5, <3>1
      <4>2. 0 <= 3 + Body(req)
        BY <1>2
      <4> QED
        BY <4>1, <4>2 DEF Ends
    <3>2. CASE ~Filtered
      <4>1. Last(up)' = <<req, 3 + Len(iob)>>
        BY <2>3, <2>5, <3>2
      <4>2. Len(iob) <= Body(req) /\ (expected = Body(req) \/ Len(iob) = Body(req))
        BY <1>1, <1>7, <3>2, SendFacts
      <4>3. 3 + Len(iob) <= 3 + Body(req) /\ 3 + Len(iob) >= 3 /\ (3 + Len(iob)) + expected >= 3 + Body(req)
        BY <1>2, <4>2
      <4> QED
        BY <4>1, <4>3
    <3> QED
      BY <3>1, <3>2
  <2>9. TalkInv'
    <3>1. Last(up)'[1] = req /\ Body(req)' = Body(req)
      BY <1>1, <2>3, <2>5 DEF Body
    <3>2. "complete" \notin flags => Clean' /\ Single' /\ "waiting" \notin flags'
      BY <1>1, <1>2 DEF Clean, Single, Kind
    <3> QED
      BY <1>1, <2>1, <2>3, <2>6, <2>7, <2>8, <3>1, <3>2 DEF TalkInv
  <2> QED
    BY <1>1, <1>2, <1>4, <1>5, <2>3, <2>4, <2>9, Proceed
<1> QED
  BY <1>6, <1>7

\* It cannot be sent.
LEMMA SendFailsStep == Apart /\ Inv /\ SendFails => Inv'
<1> SUFFICES ASSUME Apart, Inv, SendFails PROVE Inv'
  OBVIOUS
<1>1. /\ pc = "send" /\ pc' = "done" /\ ~conf.tls /\ sfd' = "dead"
      /\ conf' = conf /\ reqs' = reqs /\ todo' = todo /\ client' = client /\ up' = up
      /\ answered' = answered \cup {req} /\ abandoned' = abandoned \cup {req} /\ pooled' = pooled /\ stray' = stray
      /\ req' = req /\ wire' = wire /\ iob' = iob /\ expected' = expected /\ flags' = flags \cup {"lengthSet"}
  BY DEF SendFails, clientVars, requestVars, Return, Answer, Abandon
<1>2. /\ Types /\ Asked /\ History /\ req \in DOMAIN reqs /\ AllBelow(answered, req)
      /\ Before(up, req + 1) /\ AllBelow(answered \cup {req}, req + 1)
  BY <1>1, RouteFacts
<1>3. wire' \in Seq(Parts) /\ iob' \in Seq(Parts) /\ expected' \in Nat
      /\ answered' \subseteq DOMAIN reqs /\ abandoned' \subseteq DOMAIN reqs
      /\ answered \subseteq answered' /\ abandoned \subseteq abandoned'
  BY <1>1, <1>2 DEF Types
<1>4. flags' \subseteq Flags
  <2>1. flags \subseteq Flags /\ "lengthSet" \in Flags
    BY <1>2 DEF Types, Flags
  <2> QED
    BY <1>1, <2>1
<1>5. Stream' = Stream
  BY <1>1 DEF Stream, Rest
<1>6. ASSUME MayContinue' PROVE Lined(reqs, client, Stream) /\ Begins(up, answered', abandoned', Stream)
  <2>1. Clean
    BY <1>1, <1>6 DEF MayContinue, Tainted, Clean
  <2>2. CASE Filtered
    <3>1. Lined(reqs, client, Stream) /\ Stream[1] = <<req, 0>>
      BY <1>2, <2>2, FilteredFacts
    <3>2. Begins(up, answered', abandoned', Stream)
      BY <1>1, <3>1 DEF Begins
    <3> QED
      BY <3>1, <3>2
  <2>3. CASE Unfiltered
    <3>1. Continues(reqs, client, <<req, 3>>, Stream) /\ req \in abandoned' /\ 3 \in Nat
      BY <1>1, <2>1, <2>3 DEF Unfiltered
    <3> QED
      BY <1>1, <1>2, <3>1, Onward
  <2> QED
    BY <1>1, <2>2, <2>3, SendFacts
<1>7. sfd' \in {"none", "open", "dead"} /\ sfd' # "open" /\ abandoned' # {}
  BY <1>1
<1> QED
  BY <1>1, <1>3, <1>4, <1>5, <1>6, <1>7, Finish

\* In an inspected session the header is sent, and the body has to follow.
LEMMA SendEncryptedStep == Apart /\ Inv /\ SendEncrypted => Inv'
<1> SUFFICES ASSUME Apart, Inv, SendEncrypted PROVE Inv'
  OBVIOUS
<1> DEFINE left == IF expected < Len(iob) THEN 0 ELSE expected - Len(iob)
<1>1. /\ pc = "send" /\ conf.tls
      /\ conf' = conf /\ reqs' = reqs /\ todo' = todo /\ client' = client
      /\ answered' = answered /\ abandoned' = abandoned /\ pooled' = pooled /\ stray' = stray
      /\ req' = req /\ wire' = wire /\ flags' = flags
  BY DEF SendEncrypted, clientVars, historyVars
<1>2. /\ Types /\ Asked /\ Marks /\ History
      /\ req \in DOMAIN reqs /\ AllBelow(answered, req) /\ Before(up, req)
      /\ Body(req) \in Nat /\ Len(iob) \in Nat /\ (iob = <<>> <=> Len(iob) = 0) /\ expected \in Nat
      /\ "waiting" \notin flags /\ "complete" \notin flags /\ Clean /\ Single /\ ~Chunked
  BY <1>1, SendFacts
<1>3. wire' \in Seq(Parts) /\ iob \in Seq(Parts) /\ Rest \in Seq(Parts) /\ up \in Seq(Parts)
      /\ sfd \in {"none", "open", "dead"}
  <2>1. Rest \in Seq(Parts)
    BY <1>2, StreamFacts
  <2> QED
    BY <1>1, <1>2, <2>1 DEF Types
<1>4. CASE pc' = "closed" /\ sfd' = "none" /\ UNCHANGED <<iob, expected, up>>
  <2>1. sfd' \in {"none", "open", "dead"} /\ iob' \in Seq(Parts) /\ expected' \in Nat
    BY <1>2, <1>3, <1>4
  <2>2. flags' \subseteq Flags /\ answered' \subseteq DOMAIN reqs /\ abandoned' \subseteq DOMAIN reqs
        /\ answered \subseteq answered' /\ abandoned \subseteq abandoned'
    BY <1>1, <1>2 DEF Types
  <2> QED
    BY <1>1, <1>3, <1>4, <2>1, <2>2, Finish
<1>5. CASE /\ up' = up \o Header \o iob
           /\ iob' = <<>> /\ expected' = left
           /\ pc' = (IF left # 0 THEN "relay" ELSE "established")
           /\ sfd' = sfd
  <2>1. Settled(reqs, abandoned, up)
    <3>1. sfd = "open"
      BY <1>1 DEF Inv, Stages, RouteInv
    <3> QED
      BY <1>1, <3>1, SendFacts
  <2>2. Filtered \/ Pieces(req, iob)
    BY <1>1, <1>2, SendFacts
  <2>3. /\ Ordered(reqs, abandoned, up') /\ up' \in Seq(Parts) /\ up' # <<>>
        /\ Last(up') = IF Filtered THEN <<req, 0>> ELSE <<req, 3 + Len(iob)>>
    BY <1>2, <1>5, <2>1, <2>2, Sent
  <2>4. Stream' = Rest /\ iob' \in Seq(Parts)
    BY <1>1, <1>2, <1>5, Emptied
  <2>5. Last(up)' = Last(up')
    BY DEF Last
  <2>6. left \in Nat
    BY <1>2
  <2>7. CASE Filtered /\ expected = 0
    <3>1. Continues(reqs, client, <<req, 0>>, Rest) /\ Last(up)' = <<req, 0>>
      BY <1>2, <2>3, <2>5, <2>7, FilteredFacts
    <3>2. left = 0
      BY <1>2, <2>7
    <3>3. pc' = "established" /\ expected' = 0
      BY <1>5, <3>2
    <3>4. Ends(Last(up))'
      BY <3>1 DEF Ends
    <3>5. Continues(reqs', client', Last(up)', Stream')
      BY <1>1, <2>4, <3>1
    <3>6. TalkInv'
      BY <1>1, <1>5, <2>3, <3>1, <3>4, <3>5 DEF TalkInv
    <3>7. expected' \in Nat /\ pc \notin Over /\ sfd' \in {"none", "open", "dead"}
      BY <1>1, <1>3, <1>5, <3>3 DEF Over
    <3> QED
      BY <1>1, <1>2, <1>3, <2>3, <2>4, <3>3, <3>6, <3>7, Proceed
  <2>8. CASE ~Filtered
    <3>1. Unfiltered /\ Pieces(req, iob) /\ Len(iob) <= Body(req) /\ expected = Body(req)
      BY <1>1, <1>2, <2>8, SendFacts
    <3>2. Continues(reqs, client, <<req, 3 + Len(iob)>>, Rest)
      BY <1>2, <3>1, BodyFollowed DEF Unfiltered
    <3>3. Last(up)' = <<req, 3 + Len(iob)>>
      BY <2>3, <2>5, <2>8
    <3>4. Continues(reqs', client', Last(up)', Stream')
      BY <1>1, <2>4, <3>2, <3>3
    <3>5. left = Body(req) - Len(iob)
      BY <1>2, <3>1
    <3>6. pc \notin Over /\ sfd' \in {"none", "open", "dead"} /\ expected' \in Nat /\ Body(req)' = Body(req)
      BY <1>1, <1>3, <1>5, <2>6 DEF Over, Body
    <3>7. CASE left = 0
      <4>1. pc' = "established" /\ Len(iob) = Body(req)
        BY <1>2, <1>5, <3>5, <3>7
      <4>2. Ends(Last(up))'
        BY <1>1, <3>3, <4>1 DEF Ends, Body
      <4>3. TalkInv'
        BY <1>1, <1>5, <2>3, <3>3, <3>4, <4>2 DEF TalkInv
      <4> QED
        BY <1>1, <1>2, <1>3, <2>3, <2>4, <3>6, <4>1, <4>3, Proceed
    <3>8. CASE left # 0
      <4>1. pc' = "relay"
        BY <1>5, <3>8
      <4>2. left > 0 /\ 3 + Len(iob) >= 3 /\ (3 + Len(iob)) + left = 3 + Body(req)
        <5> HIDE DEF left
        <5> QED
          BY <1>2, <2>6, <3>5, <3>8
      <4>3. RelayInv'
        BY <1>1, <1>5, <2>3, <3>3, <3>4, <3>6, <4>2 DEF RelayInv
      <4> QED
        BY <1>1, <1>2, <1>3, <2>3, <2>4, <3>6, <4>1, <4>3, Proceed
    <3> QED
      BY <3>7, <3>8
  <2>9. ASSUME Pieces(req, iob), Filtered PROVE FALSE
    <3>1. iob = <<<<req, 0>>>>
      BY <2>9 DEF Filtered
    <3>2. Len(iob) = 1 /\ iob[1] = <<req, 0>>
      BY <3>1
    <3>3. iob[1] = <<req, 3 + 1>>
      BY <2>9, <3>2 DEF Pieces
    <3> QED
      BY <3>2, <3>3
  <2> QED
    BY <1>1, <1>2, <2>7, <2>8, <2>9, SendFacts
<1> QED
  BY <1>4, <1>5 DEF SendEncrypted

\* A piece of the body is passed on as it comes.
LEMMA Passed ==
  ASSUME Types, Asked, req \in DOMAIN reqs, AllBelow(answered, req), Single,
         Ordered(reqs, abandoned, up), up # <<>>,
         NEW p \in Nat, Last(up) = <<req, p>>, p >= 3, p <= 3 + Body(req),
         iob = <<>>, Continues(reqs, client, <<req, p>>, Stream),
         NEW n \in 1..Len(wire), todo' = todo, iob' = iob,
         wire' = From(wire, n + 1), up' = up \o SubSeq(wire, 1, n)
  PROVE  /\ Ordered(reqs, abandoned, up') /\ up' \in Seq(Parts) /\ up' # <<>> /\ wire' \in Seq(Parts)
         /\ Last(up') = <<req, p + n>> /\ p + n <= 3 + Body(req)
         /\ Continues(reqs, client, <<req, p + n>>, Stream')
<1> DEFINE a == SubSeq(wire, 1, n)
           b == From(wire, n + 1)
<1>1. wire \in Seq(Parts) /\ todo \in Seq(Parts) /\ up \in Seq(Parts) /\ Rest \in Seq(Parts) /\ Stream \in Seq(Parts)
  BY StreamFacts DEF Types
<1>2. n \in 0..Len(wire) /\ n \in Nat /\ n # 0 /\ n \in 1..n
  OBVIOUS
<1>3. /\ a \in Seq(Parts) /\ b \in Seq(Parts) /\ Len(a) = n /\ a \o b = wire /\ a # <<>>
      /\ \A i \in 1..n : a[i] = wire[i]
  BY <1>1, <1>2, Cut
<1>4. wire' = b /\ up' = up \o a
  OBVIOUS
<1> HIDE DEF a, b
<1>5. Stream = wire \o todo
  <2>1. <<>> \o Rest = Rest
    BY <1>1, ConcatEmptySeq
  <2> QED
    BY <2>1 DEF Stream, Rest
<1>6. Stream' = b \o todo /\ b \o todo \in Seq(Parts)
  <2>1. b \o todo \in Seq(Parts)
    BY <1>1, <1>3, ConcatProperties
  <2>2. <<>> \o (b \o todo) = b \o todo
    BY <2>1, ConcatEmptySeq
  <2>3. Stream' = <<>> \o (b \o todo)
    BY <1>4 DEF Stream, Rest
  <2> QED
    BY <2>1, <2>2, <2>3
<1>7. a \o Stream' = Stream
  <2>1. (a \o b) \o todo = a \o (b \o todo)
    <3>1. a \in Seq(Parts) /\ b \in Seq(Parts) /\ todo \in Seq(Parts)
      BY <1>1, <1>3
    <3> QED
      BY ONLY <3>1, Associates
  <2> QED
    BY <1>3, <1>5, <1>6, <2>1
<1>8. p + Len(Stream) <= 3 + Body(req) /\ \A i \in 1..Len(Stream) : Stream[i] = <<req, p + i>>
  <2>1. p \in Nat \ {0} /\ reqs[req] \notin conf.pipelined
    BY DEF Single, Kind
  <2> QED
    BY <1>1, <2>1, LastOne
<1>9. /\ Len(Stream) = Len(wire) + Len(todo) /\ Len(wire) \in Nat /\ Len(todo) \in Nat
      /\ \A i \in 1..Len(wire) : (wire \o todo)[i] = wire[i]
  BY <1>1, <1>5, Joins
<1>10. \A i \in 1..n : a[i] = <<req, p + i>>
  <2> TAKE i \in 1..n
  <2>1. i \in 1..Len(wire) /\ i \in 1..Len(Stream)
    BY <1>9
  <2>2. wire[i] = Stream[i]
    BY <1>5, <1>9, <2>1
  <2> QED
    BY <1>3, <1>8, <2>1, <2>2
<1>11. p + n <= 3 + Body(req)
  <2>1. Body(req) \in Nat /\ n <= Len(wire)
    BY RequestFacts DEF Body
  <2> QED
    BY <1>2, <1>8, <1>9, <2>1
<1>12. a \in Seq(UnitType) /\ Stream' \in Seq(UnitType) /\ up \in Seq(UnitType)
  BY <1>1, <1>3, <1>6, KnownParts
<1>13. Continues(reqs, client, <<req, p + n>>, Stream')
  <2>1. Lined(reqs, client, a \o Stream')
    BY <1>7, IsLined
  <2>2. a[Len(a)] = <<req, p + n>>
    BY <1>2, <1>3, <1>10
  <2>3. Continues(reqs, client, a[Len(a)], Stream')
    <3> DEFINE y == Stream'
    <3>1. y \in Seq(UnitType) /\ Lined(reqs, client, a \o y)
      BY <1>12, <2>1
    <3> HIDE DEF y
    <3>2. Continues(reqs, client, a[Len(a)], y)
      BY <1>3, <1>12, <3>1, TakeMany
    <3> QED
      BY <3>2 DEF y
  <2> QED
    BY <2>2, <2>3
<1>14. Ordered(reqs, abandoned, up \o a)
  <2>1. ASSUME NEW i \in 2..Len(a) PROVE Orderly(reqs, abandoned, a[i - 1], a[i])
    <3>1. i \in 1..n /\ i - 1 \in 1..n /\ p + i = p + (i - 1) + 1
      BY <1>2, <1>3
    <3>2. a[i] = <<req, p + i>> /\ a[i - 1] = <<req, p + (i - 1)>>
      BY <1>10, <3>1
    <3> QED
      BY <3>1, <3>2 DEF Orderly
  <2>2. Orderly(reqs, abandoned, up[Len(up)], a[1])
    <3>1. a[1] = <<req, p + 1>>
      BY <1>2, <1>10
    <3> QED
      BY <3>1 DEF Orderly, Last
  <2> QED
    BY <1>12, <2>1, <2>2, SentBehind
<1>15. up \o a \in Seq(Parts) /\ up \o a # <<>> /\ Last(up \o a) = <<req, p + n>>
  <2>1. /\ up \o a \in Seq(Parts) /\ Len(up \o a) = Len(up) + Len(a)
        /\ \A i \in 1..Len(a) : (up \o a)[Len(up) + i] = a[i]
        /\ up \o a = <<>> <=> up = <<>> /\ a = <<>>
    <3>1. up \in Seq(Parts) /\ a \in Seq(Parts)
      BY <1>1, <1>3
    <3> QED
      BY ONLY <3>1, Joins
  <2>2. (up \o a)[Len(up) + n] = a[n]
    BY <1>2, <1>3, <2>1
  <2> QED
    BY <1>2, <1>3, <1>10, <2>1, <2>2 DEF Last
<1> QED
  BY <1>3, <1>4, <1>11, <1>13, <1>14, <1>15

\* What is known of the last unit that was sent.
LEMMA LastSent ==
  ASSUME Types, up # <<>>
  PROVE  /\ up[Len(up)] = Last(up) /\ Last(up) = <<Last(up)[1], Last(up)[2]>> /\ Last(up)[2] \in Nat /\ Last(up)[1] \in Nat
         /\ Ends(Last(up)) <=> EndsIn(reqs, Last(up))
<1>1. up \in Seq(Parts)
  BY DEF Types
<1>2. Len(up) \in 1..Len(up)
  BY <1>1, Empty
<1>3. up[Len(up)] \in Parts /\ up[Len(up)] = Last(up)
  BY <1>1, <1>2 DEF Last
<1>4. Ends(Last(up)) <=> EndsIn(reqs, Last(up))
  BY DEF Ends, EndsIn, Body
<1> QED
  BY <1>3, <1>4, PartFacts

\* The body is passed on piece by piece.
LEMMA RelayStep == Apart /\ Inv /\ Relay => Inv'
<1> SUFFICES ASSUME Apart, Inv, Relay PROVE Inv'
  OBVIOUS
<1> DEFINE n == Least(expected, Len(wire))
           p == Last(up)[2]
<1>1. /\ pc = "relay"
      /\ conf' = conf /\ reqs' = reqs /\ todo' = todo /\ client' = client /\ sfd' = sfd
      /\ answered' = answered /\ abandoned' = abandoned /\ pooled' = pooled /\ stray' = stray
      /\ req' = req /\ iob' = iob /\ flags' = flags
  BY DEF Relay, clientVars, historyVars
<1>2. /\ Types /\ Asked /\ Marks /\ History
      /\ req \in DOMAIN reqs /\ AllBelow(answered, req)
      /\ conf.tls /\ iob = <<>> /\ up # <<>> /\ Last(up)[1] = req
      /\ Continues(reqs, client, Last(up), Stream)
      /\ expected > 0 /\ p >= 3 /\ p + expected = 3 + Body(req)
  BY <1>1 DEF Inv, Stages, MiddleInv, RelayInv
<1>3. /\ iob \in Seq(Parts) /\ wire \in Seq(Parts) /\ up \in Seq(Parts) /\ expected \in Nat
      /\ Len(wire) \in Nat /\ (wire = <<>> <=> Len(wire) = 0)
      /\ Body(req) \in Nat /\ sfd \in {"none", "open", "dead"}
  <2>1. iob \in Seq(Parts) /\ wire \in Seq(Parts) /\ up \in Seq(Parts) /\ expected \in Nat /\ sfd \in {"none", "open", "dead"}
    BY <1>2 DEF Types
  <2>2. Body(req) \in Nat
    BY <1>2, RequestFacts DEF Body
  <2> QED
    BY <2>1, <2>2, Empty
<1>4. p \in Nat /\ Last(up) = <<req, p>> /\ p <= 3 + Body(req)
  <2>1. p \in Nat /\ Last(up) = <<req, p>>
    BY <1>2, LastSent
  <2> HIDE DEF p
  <2> QED
    BY <1>2, <1>3, <2>1
<1>5. Single /\ pc \notin Over /\ Ordered(reqs, abandoned, up) /\ Body(req)' = Body(req)
  BY <1>1, <1>2, NoPipelining DEF Single, Over, History, Body
<1>6. CASE wire # <<>> /\ up' = up \o SubSeq(wire, 1, n) /\ wire' = From(wire, n + 1)
           /\ expected' = expected - n
           /\ pc' = IF expected = n THEN "established" ELSE pc
  <2>1. n \in 1..Len(wire) /\ n <= expected /\ n \in Nat
    BY <1>2, <1>3, <1>6 DEF Least
  <2>2. /\ Ordered(reqs, abandoned, up') /\ up' \in Seq(Parts) /\ up' # <<>> /\ wire' \in Seq(Parts)
        /\ Last(up') = <<req, p + n>> /\ p + n <= 3 + Body(req)
        /\ Continues(reqs, client, <<req, p + n>>, Stream')
    <3> HIDE DEF n, p
    <3> QED
      BY <1>1, <1>2, <1>4, <1>5, <1>6, <2>1, Passed
  <2>3. Last(up)' = <<req, p + n>>
    BY <2>2 DEF Last
  <2>4. Continues(reqs', client', Last(up)', Stream')
    BY <1>1, <2>2, <2>3
  <2>5. expected' \in Nat /\ iob' = <<>> /\ iob' \in Seq(Parts) /\ sfd' \in {"none", "open", "dead"} /\ conf'.tls
    <3> HIDE DEF n, p
    <3> QED
      BY <1>1, <1>2, <1>3, <1>6, <2>1
  <2>6. CASE expected = n
    <3>1. p + n = 3 + Body(req)
      BY <1>2, <2>6
    <3>2. pc' = "established"
      BY <1>6, <2>6
    <3>3. Ends(Last(up))'
      <4> HIDE DEF n, p
      <4> QED
        BY <1>1, <2>3, <3>1 DEF Ends, Body
    <3>4. TalkInv'
      <4>1. Last(up)'[1] = req
        BY <2>3
      <4> HIDE DEF n, p
      <4> QED
        BY <1>1, <2>2, <2>4, <2>5, <3>3, <4>1 DEF TalkInv
    <3> HIDE DEF n, p
    <3> QED
      BY <1>1, <1>2, <1>5, <2>2, <2>5, <3>2, <3>4, Proceed
  <2>7. CASE expected # n
    <3>1. pc' = "relay"
      BY <1>1, <1>6, <2>7
    <3>2. expected' > 0 /\ p + n >= 3 /\ (p + n) + expected' = 3 + Body(req)
      <4> HIDE DEF n, p
      <4> QED
        BY <1>2, <1>3, <1>4, <1>6, <2>1, <2>7
    <3>3. RelayInv'
      <4>1. Last(up)'[1] = req /\ Last(up)'[2] = p + n
        BY <2>3
      <4> HIDE DEF n, p
      <4> QED
        BY <1>1, <1>5, <2>2, <2>4, <2>5, <3>2, <4>1 DEF RelayInv
    <3> HIDE DEF n, p
    <3> QED
      BY <1>1, <1>2, <1>5, <2>2, <2>5, <3>1, <3>3, Proceed
  <2> QED
    BY <2>6, <2>7
<1>7. CASE ClientGone /\ pc' = "established" /\ UNCHANGED <<up, wire, expected>>
  <2>1. client = "closed" /\ wire = <<>>
    BY <1>7 DEF ClientGone, NoData
  <2>2. up' = up /\ wire' = wire /\ expected' = expected
    BY <1>7
  <2>3. Stream' = Stream
    BY <1>1, <2>2 DEF Stream, Rest
  <2>4. TalkInv'
    <3>1. Last(up)' = Last(up)
      BY <2>2
    <3>2. Continues(reqs', client', Last(up)', Stream') /\ Last(up)'[1] = req
      BY <1>1, <1>2, <2>3, <3>1
    <3> QED
      BY <1>1, <1>2, <2>1, <2>2, <3>2 DEF TalkInv
  <2>5. wire' \in Seq(Parts) /\ up' \in Seq(Parts) /\ iob' \in Seq(Parts) /\ expected' \in Nat /\ sfd' \in {"none", "open", "dead"}
        /\ Ordered(reqs, abandoned, up')
    BY <1>1, <1>3, <1>5, <2>2
  <2> QED
    BY <1>1, <1>2, <1>5, <1>7, <2>4, <2>5, Proceed
<1> QED
  BY <1>6, <1>7 DEF Relay

-----------------------------------------------------------------------------
(* The answer.                                                             *)

\* What the invariant says while the answer is awaited.
LEMMA TalkFacts ==
  ASSUME Inv, pc = "established"
  PROVE  /\ Types /\ Asked /\ Marks /\ History /\ TalkInv
         /\ req \in DOMAIN reqs /\ req \in Nat /\ AllBelow(answered, req) /\ Before(up, req + 1)
         /\ AllBelow(answered, req + 1) /\ AllBelow(answered \cup {req}, req + 1)
         /\ up # <<>> /\ Last(up)[1] = req /\ Last(up) = <<req, Last(up)[2]>> /\ Last(up)[2] \in Nat
         /\ up[Len(up)] = Last(up)
         /\ Ends(Last(up)) <=> EndsIn(reqs, Last(up))
         /\ Whole <=> Ends(Last(up))
         /\ Body(req) \in Nat
         /\ "lengthSet" \notin flags /\ "crunched" \notin flags /\ "serverKA" \notin flags
         /\ flags \subseteq Flags /\ answered \subseteq DOMAIN reqs /\ abandoned \subseteq DOMAIN reqs
         /\ iob \in Seq(Parts) /\ wire \in Seq(Parts) /\ up \in Seq(Parts) /\ expected \in Nat
         /\ sfd \in {"none", "open", "dead"}
<1>1. Types /\ Asked /\ Marks /\ History /\ TalkInv
  BY DEF Inv, Stages
<1>2. req \in DOMAIN reqs /\ AllBelow(answered, req)
  BY DEF Inv, Stages, MiddleInv
<1>3. req \in Nat /\ req \in 1..Len(reqs) /\ answered \subseteq Nat
  BY <1>1, <1>2, RequestFacts DEF Types
<1>4. AllBelow(answered, req + 1) /\ AllBelow(answered \cup {req}, req + 1)
  BY <1>2, <1>3, OneMore
<1>5. up # <<>> /\ Last(up)[1] = req
  BY <1>1 DEF TalkInv
<1>6. /\ Last(up) = <<req, Last(up)[2]>> /\ Last(up)[2] \in Nat /\ up[Len(up)] = Last(up)
      /\ Ends(Last(up)) <=> EndsIn(reqs, Last(up))
  BY <1>1, <1>5, LastSent
<1>7. Before(up, req + 1)
  BY <1>3, <1>5, <1>6 DEF Before
<1>8. Whole <=> Ends(Last(up))
  BY <1>5 DEF Whole
<1>9. Body(req) \in Nat
  BY <1>1, <1>2, RequestFacts DEF Body
<1>10. /\ flags \subseteq Flags /\ answered \subseteq DOMAIN reqs /\ abandoned \subseteq DOMAIN reqs
       /\ iob \in Seq(Parts) /\ wire \in Seq(Parts) /\ up \in Seq(Parts) /\ expected \in Nat
       /\ sfd \in {"none", "open", "dead"}
  BY <1>1 DEF Types
<1>11. "lengthSet" \notin flags /\ "crunched" \notin flags /\ "serverKA" \notin flags
  BY <1>1 DEF Marks, Over
<1> QED
  BY <1>1, <1>2, <1>3, <1>4, <1>5, <1>6, <1>7, <1>8, <1>9, <1>10, <1>11

\* The answer has come, or will not come: what is left is fit for the next request.
LEMMA AfterAnswer ==
  ASSUME Inv, pc = "established", Clean, NEW ab, abandoned \subseteq ab, Whole \/ req \in ab,
         NEW an, AllBelow(an, req + 1)
  PROVE  /\ Lined(reqs, client, Stream) /\ Begins(up, an, ab, Stream)
         /\ Settled(reqs, ab, up)
         /\ "waiting" \notin flags => iob = <<>> \/ ab # {}
         /\ conf.tls => iob = <<>>
<1>1. /\ Types /\ Asked /\ TalkInv
      /\ req \in DOMAIN reqs /\ AllBelow(answered, req) /\ Before(up, req + 1)
      /\ up # <<>> /\ Last(up)[1] = req /\ Last(up) = <<req, Last(up)[2]>> /\ Last(up)[2] \in Nat
      /\ up[Len(up)] = Last(up)
      /\ Ends(Last(up)) <=> EndsIn(reqs, Last(up))
      /\ Whole <=> Ends(Last(up))
  BY TalkFacts
<1>2. /\ (Filtered /\ ~Whole) \/ Continues(reqs, client, Last(up), Stream)
      /\ iob # <<>> => "waiting" \in flags \/ ~Whole
      /\ conf.tls => iob = <<>>
  BY <1>1 DEF TalkInv
<1>3. Settled(reqs, ab, up)
  BY <1>1 DEF Settled
<1>4. "waiting" \notin flags => iob = <<>> \/ ab # {}
  BY <1>2
<1>5. CASE Filtered /\ ~Whole
  <2>1. Lined(reqs, client, Stream) /\ Stream[1] = <<req, 0>>
    BY <1>1, <1>5, FilteredFacts
  <2>2. Begins(up, an, ab, Stream)
    BY <1>5, <2>1 DEF Begins
  <2> QED
    BY <1>2, <1>3, <1>4, <2>1, <2>2
<1>6. CASE Continues(reqs, client, Last(up), Stream)
  <2> DEFINE p == Last(up)[2]
  <2>1. p \in Nat /\ Continues(reqs, client, <<req, p>>, Stream) /\ (EndsIn(reqs, <<req, p>>) \/ req \in ab)
    BY <1>1, <1>6
  <2> HIDE DEF p
  <2>2. Lined(reqs, client, Stream) /\ Begins(up, an, ab, Stream)
    BY <1>1, <2>1, Onward
  <2> QED
    BY <1>2, <1>3, <1>4, <2>2
<1> QED
  BY <1>2, <1>5, <1>6

\* The client is gone.
LEMMA ClientHangsUpStep == Inv /\ ClientHangsUp => Inv'
<1> SUFFICES ASSUME Inv, ClientHangsUp PROVE Inv'
  OBVIOUS
<1>1. /\ pc = "established" /\ pc' = "done"
      /\ conf' = conf /\ reqs' = reqs /\ todo' = todo /\ client' = client /\ sfd' = sfd /\ up' = up
      /\ answered' = answered /\ abandoned' = abandoned /\ pooled' = pooled /\ stray' = stray
      /\ req' = req /\ wire' = wire /\ iob' = iob /\ expected' = expected
  BY DEF ClientHangsUp, clientVars, serverVars, historyVars, requestVars, Return
<1>2. /\ Types /\ Asked /\ TalkInv /\ req \in DOMAIN reqs /\ AllBelow(answered, req + 1) /\ Before(up, req + 1)
      /\ flags \subseteq Flags /\ answered \subseteq DOMAIN reqs /\ abandoned \subseteq DOMAIN reqs
      /\ Whole <=> Ends(Last(up))
  BY <1>1, TalkFacts
<1>3. wire' \in Seq(Parts) /\ iob' \in Seq(Parts) /\ sfd' \in {"none", "open", "dead"} /\ expected' \in Nat
  BY <1>1, <1>2, Unmoved
<1>4. flags' \subseteq Flags /\ ("tainted" \notin flags' => conf.tls /\ Clean /\ ("waiting" \in flags' <=> "waiting" \in flags))
  <2>1. {"tainted", "lengthSet", "serverKA"} \subseteq Flags
    BY DEF Flags
  <2>2. CASE ClientGone /\ ~conf.tls /\ flags' = flags \cup {"tainted"}
    BY <1>2, <2>1, <2>2
  <2>3. CASE /\ conf.tls
             /\ \E S \in SUBSET {"tainted", "lengthSet", "serverKA"} : flags' = flags \cup S
    <3>1. PICK S \in SUBSET {"tainted", "lengthSet", "serverKA"} : flags' = flags \cup S
      BY <2>3
    <3>2. "waiting" \notin S
      BY <3>1
    <3> QED
      BY <1>2, <2>1, <2>3, <3>1, <3>2 DEF Clean
  <2> QED
    BY <2>2, <2>3 DEF ClientHangsUp
<1>5. answered \subseteq answered' /\ abandoned \subseteq abandoned'
  BY <1>1
<1>6. Stream' = Stream
  BY <1>1 DEF Stream, Rest
<1>7. ASSUME MayContinue' PROVE /\ Lined(reqs, client, Stream') /\ Begins(up, answered', abandoned', Stream')
                                /\ sfd' = "open" => Settled(reqs, abandoned', up) \/ Gone'
                                /\ "waiting" \notin flags' => iob' = <<>> \/ abandoned' # {}
                                /\ conf.tls => iob' = <<>>
  <2>1. "tainted" \notin flags'
    BY <1>7 DEF MayContinue, Tainted
  <2>2. conf.tls /\ Clean
    BY <1>4, <2>1
  <2>3. iob = <<>> /\ (Ends(Last(up)) \/ (client = "closed" /\ wire = <<>>))
    BY <1>1, <1>2, <2>2 DEF TalkInv
  <2>4. CASE Ends(Last(up))
    <3>1. /\ Lined(reqs, client, Stream) /\ Begins(up, answered, abandoned, Stream)
          /\ Settled(reqs, abandoned, up)
      BY <1>1, <1>2, <2>2, <2>4, AfterAnswer
    <3> QED
      BY <1>1, <1>6, <2>3, <3>1
  <2>5. CASE client = "closed" /\ wire = <<>>
    <3>1. todo = <<>>
      BY <1>2, <2>5 DEF Asked
    <3>2. Stream = <<>>
      BY <2>3, <2>5, <3>1 DEF Stream, Rest
    <3>3. Lined(reqs, client, Stream) /\ Begins(up, answered, abandoned, Stream)
      BY <3>2 DEF Lined, Begins
    <3>4. Gone'
      BY <1>1, <2>2, <2>3, <2>5 DEF Gone
    <3> QED
      BY <1>1, <1>6, <2>3, <3>3, <3>4
  <2> QED
    BY <2>3, <2>4, <2>5
<1> QED
  BY <1>1, <1>2, <1>3, <1>4, <1>5, <1>7, Finish

\* The whole answer has come.
LEMMA ServerAnswersStep == Inv /\ ServerAnswers => Inv'
<1> SUFFICES ASSUME Inv, ServerAnswers PROVE Inv'
  OBVIOUS
<1>1. /\ pc = "established" /\ pc' = "done"
      /\ conf' = conf /\ reqs' = reqs /\ todo' = todo /\ client' = client /\ sfd' = sfd /\ up' = up
      /\ answered' = answered \cup {req} /\ pooled' = pooled /\ stray' = stray
      /\ req' = req /\ wire' = wire /\ iob' = iob /\ expected' = expected
      /\ Neglect
  BY DEF ServerAnswers, clientVars, serverVars, requestVars, Return, Answer
<1>2. /\ Types /\ req \in DOMAIN reqs /\ AllBelow(answered \cup {req}, req + 1)
      /\ flags \subseteq Flags /\ answered \subseteq DOMAIN reqs /\ abandoned \subseteq DOMAIN reqs
  BY <1>1, TalkFacts
<1>3. wire' \in Seq(Parts) /\ iob' \in Seq(Parts) /\ sfd' \in {"none", "open", "dead"} /\ expected' \in Nat
  BY <1>1, <1>2, Unmoved
<1>4. PICK S \in SUBSET {"lengthSet", "serverKA"} : flags' = flags \cup S
  BY DEF ServerAnswers, Answer
<1>5. flags' \subseteq Flags /\ ("waiting" \in flags' <=> "waiting" \in flags)
  <2>1. {"lengthSet", "serverKA"} \subseteq Flags /\ "waiting" \notin S
    BY <1>4 DEF Flags
  <2> QED
    BY <1>2, <1>4, <2>1
<1>6. /\ abandoned \subseteq abandoned' /\ abandoned' \subseteq DOMAIN reqs /\ (Whole \/ req \in abandoned')
      /\ answered \subseteq answered' /\ answered' \subseteq DOMAIN reqs
  BY <1>1, <1>2 DEF Neglect, Abandon
<1>7. Stream' = Stream
  BY <1>1 DEF Stream, Rest
<1>8. ASSUME MayContinue' PROVE /\ Lined(reqs, client, Stream') /\ Begins(up, answered', abandoned', Stream')
                                /\ sfd' = "open" => Settled(reqs, abandoned', up) \/ Gone'
                                /\ "waiting" \notin flags' => iob' = <<>> \/ abandoned' # {}
                                /\ conf.tls => iob' = <<>>
  <2>1. Clean
    BY <1>4, <1>8 DEF MayContinue, Tainted, Clean
  <2>2. /\ Lined(reqs, client, Stream) /\ Begins(up, answered', abandoned', Stream)
        /\ Settled(reqs, abandoned', up)
        /\ "waiting" \notin flags => iob = <<>> \/ abandoned' # {}
        /\ conf.tls => iob = <<>>
    <3> DEFINE ab == abandoned'
               an == answered'
    <3>1. abandoned \subseteq ab /\ (Whole \/ req \in ab) /\ AllBelow(an, req + 1)
      BY <1>1, <1>2, <1>6
    <3> HIDE DEF ab, an
    <3>2. /\ Lined(reqs, client, Stream) /\ Begins(up, an, ab, Stream)
          /\ Settled(reqs, ab, up)
          /\ "waiting" \notin flags => iob = <<>> \/ ab # {}
          /\ conf.tls => iob = <<>>
      BY <1>1, <2>1, <3>1, AfterAnswer
    <3> QED
      BY <3>2 DEF ab, an
  <2> QED
    BY <1>1, <1>5, <1>7, <2>2
<1> QED
  BY <1>1, <1>2, <1>3, <1>5, <1>6, <1>8, Finish

\* The server closes, amid the answer or instead of it.
LEMMA ServerClosesStep == Inv /\ ServerCloses => Inv'
<1> SUFFICES ASSUME Inv, ServerCloses PROVE Inv'
  OBVIOUS
<1>1. /\ pc = "established" /\ pc' = "done" /\ sfd' = "dead"
      /\ conf' = conf /\ reqs' = reqs /\ todo' = todo /\ client' = client /\ up' = up
      /\ answered' = answered /\ pooled' = pooled /\ stray' = stray
      /\ req' = req /\ wire' = wire /\ iob' = iob /\ expected' = expected
      /\ Neglect
  BY DEF ServerCloses, clientVars, requestVars, Return
<1>2. /\ Types /\ req \in DOMAIN reqs /\ AllBelow(answered, req + 1)
      /\ flags \subseteq Flags /\ answered \subseteq DOMAIN reqs /\ abandoned \subseteq DOMAIN reqs
  BY <1>1, TalkFacts
<1>3. wire' \in Seq(Parts) /\ iob' \in Seq(Parts) /\ expected' \in Nat /\ sfd' \in {"none", "open", "dead"}
  BY <1>1, <1>2 DEF Types
<1>4. PICK S \in SUBSET {"lengthSet", "tainted"} : flags' = flags \cup S
  BY DEF ServerCloses
<1>5. flags' \subseteq Flags /\ ("waiting" \in flags' <=> "waiting" \in flags)
  <2>1. {"lengthSet", "tainted"} \subseteq Flags /\ "waiting" \notin S
    BY <1>4 DEF Flags
  <2> QED
    BY <1>2, <1>4, <2>1
<1>6. /\ abandoned \subseteq abandoned' /\ abandoned' \subseteq DOMAIN reqs /\ (Whole \/ req \in abandoned')
      /\ answered \subseteq answered' /\ answered' \subseteq DOMAIN reqs
  BY <1>1, <1>2 DEF Neglect, Abandon
<1>7. Stream' = Stream
  BY <1>1 DEF Stream, Rest
<1>8. ASSUME MayContinue' PROVE /\ Lined(reqs, client, Stream') /\ Begins(up, answered', abandoned', Stream')
                                /\ sfd' = "open" => Settled(reqs, abandoned', up) \/ Gone'
                                /\ "waiting" \notin flags' => iob' = <<>> \/ abandoned' # {}
                                /\ conf.tls => iob' = <<>>
  <2>1. Clean
    BY <1>4, <1>8 DEF MayContinue, Tainted, Clean
  <2>2. /\ Lined(reqs, client, Stream) /\ Begins(up, answered, abandoned', Stream)
        /\ "waiting" \notin flags => iob = <<>> \/ abandoned' # {}
        /\ conf.tls => iob = <<>>
    <3> DEFINE ab == abandoned'
    <3>1. abandoned \subseteq ab /\ (Whole \/ req \in ab)
      BY <1>6
    <3> HIDE DEF ab
    <3>2. /\ Lined(reqs, client, Stream) /\ Begins(up, answered, ab, Stream)
          /\ "waiting" \notin flags => iob = <<>> \/ ab # {}
          /\ conf.tls => iob = <<>>
      BY <1>1, <1>2, <2>1, <3>1, AfterAnswer
    <3> QED
      BY <3>2 DEF ab
  <2> QED
    BY <1>1, <1>5, <1>7, <2>2
<1> QED
  BY <1>1, <1>2, <1>3, <1>5, <1>6, <1>8, Finish

\* The connection is tainted: nothing comes behind.
LEMMA TaintedStep == Inv /\ (ServerCrunched \/ Timeout) => Inv'
<1> SUFFICES ASSUME Inv, ServerCrunched \/ Timeout PROVE Inv'
  OBVIOUS
<1>1. /\ pc = "established" /\ pc' = "done"
      /\ conf' = conf /\ reqs' = reqs /\ todo' = todo /\ client' = client /\ sfd' = sfd /\ up' = up
      /\ abandoned' = abandoned /\ pooled' = pooled /\ stray' = stray
      /\ req' = req /\ wire' = wire /\ iob' = iob /\ expected' = expected
      /\ answered' = answered \/ answered' = answered \cup {req}
      /\ flags' = flags \cup {"tainted"} \/ flags' = flags \cup {"crunched", "tainted", "lengthSet"}
  BY DEF ServerCrunched, Timeout, clientVars, serverVars, historyVars, requestVars, Return, Answer
<1>2. /\ Types /\ req \in DOMAIN reqs
      /\ flags \subseteq Flags /\ answered \subseteq DOMAIN reqs /\ abandoned \subseteq DOMAIN reqs
  BY <1>1, TalkFacts
<1>3. wire' \in Seq(Parts) /\ iob' \in Seq(Parts) /\ sfd' \in {"none", "open", "dead"} /\ expected' \in Nat
  BY <1>1, <1>2, Unmoved
<1>4. flags' \subseteq Flags
  <2>1. {"crunched", "tainted", "lengthSet"} \subseteq Flags
    BY DEF Flags
  <2> QED
    BY <1>1, <1>2, <2>1
<1>5. ~MayContinue'
  BY <1>1 DEF MayContinue, Tainted
<1>6. /\ answered \subseteq answered' /\ abandoned \subseteq abandoned'
      /\ answered' \subseteq DOMAIN reqs /\ abandoned' \subseteq DOMAIN reqs
  BY <1>1, <1>2
<1> QED
  BY <1>1, <1>3, <1>4, <1>5, <1>6, Finish

\* More of the body comes while the answer is awaited, and goes to the server.
LEMMA PassBodyStep == Inv /\ PassBody => Inv'
<1> SUFFICES ASSUME Inv, PassBody PROVE Inv'
  OBVIOUS
<1> DEFINE n == IF expected # 0 THEN Least(expected, Len(wire)) ELSE Len(wire)
           p == Last(up)[2]
<1>1. /\ pc = "established" /\ ~conf.tls /\ "complete" \notin flags /\ wire # <<>>
      /\ conf' = conf /\ reqs' = reqs /\ todo' = todo /\ client' = client /\ sfd' = sfd
      /\ answered' = answered /\ abandoned' = abandoned /\ pooled' = pooled /\ stray' = stray
      /\ req' = req /\ iob' = iob /\ wire' = From(wire, n + 1)
      /\ expected' = IF expected # 0 THEN expected - n ELSE 0
  BY DEF PassBody, Watched, clientVars, historyVars
<1>2. /\ Types /\ Asked /\ History /\ TalkInv
      /\ req \in DOMAIN reqs /\ AllBelow(answered, req)
      /\ up # <<>> /\ Last(up) = <<req, p>> /\ p \in Nat
      /\ Ends(Last(up)) <=> EndsIn(reqs, Last(up))
      /\ Body(req) \in Nat
      /\ flags \subseteq Flags /\ answered \subseteq DOMAIN reqs /\ abandoned \subseteq DOMAIN reqs
      /\ iob \in Seq(Parts) /\ wire \in Seq(Parts) /\ up \in Seq(Parts) /\ expected \in Nat
      /\ sfd \in {"none", "open", "dead"}
  BY <1>1, TalkFacts
<1>3. /\ Clean /\ "waiting" \notin flags /\ iob = <<>> /\ Single /\ p <= 3 + Body(req)
      /\ Ends(Last(up)) \/ (p >= 3 /\ p + expected >= 3 + Body(req))
      /\ Continues(reqs, client, Last(up), Stream)
  <2> HIDE DEF p, n
  <2>1. /\ Clean /\ "waiting" \notin flags /\ iob = <<>> /\ Single
        /\ (Filtered /\ ~Whole) \/ Continues(reqs, client, Last(up), Stream)
    BY <1>1, <1>2 DEF TalkInv
  <2>2. ~Filtered
    BY <2>1 DEF Filtered
  <2>3. p <= 3 + Body(req) /\ (Ends(Last(up)) \/ (p >= 3 /\ p + expected >= 3 + Body(req)))
    BY <1>1, <1>2 DEF TalkInv, p
  <2> QED
    BY <2>1, <2>2, <2>3
<1>4. Len(wire) \in Nat /\ Len(wire) # 0
  BY <1>1, <1>2, Empty
<1>5. Len(Stream) >= Len(wire) /\ Len(Stream) \in Nat /\ Stream \in Seq(Parts)
  <2>1. Rest \in Seq(Parts) /\ Stream \in Seq(Parts) /\ todo \in Seq(Parts)
    BY <1>2, StreamFacts DEF Types
  <2>2. <<>> \o Rest = Rest
    BY <2>1, ConcatEmptySeq
  <2>3. Len(wire \o todo) = Len(wire) + Len(todo) /\ Len(todo) \in Nat
    BY <1>2, <2>1, Joins
  <2> QED
    BY <1>3, <1>4, <2>1, <2>2, <2>3 DEF Stream, Rest
<1>6. ~Ends(Last(up))
  <2> SUFFICES ASSUME Ends(Last(up)) PROVE FALSE
    OBVIOUS
  <2>1. Stream # <<>> /\ 1 \in 1..Len(Stream)
    BY <1>4, <1>5, Empty
  <2>2. Stream[1] = <<req + 1, 1>>
    BY <1>2, <1>3, <2>1 DEF Continues, Succ
  <2>3. Stream[1] \in Parts
    BY <1>5, <2>1
  <2>4. req + 1 \in 1..Len(reqs)
    BY <1>2, <2>2, <2>3, PartFacts
  <2>5. req = Len(reqs) /\ Len(reqs) \in Nat
    BY <1>2, <1>3, LastOne, RequestFacts DEF Single, Kind
  <2> QED
    BY <2>4, <2>5
<1>7. p >= 3 /\ p + expected >= 3 + Body(req) /\ p # 3 + Body(req) /\ p <= 3 + Body(req)
  <2>1. p # 3 + Body(req)
    BY <1>2, <1>6 DEF Ends
  <2> QED
    BY <1>3, <1>6, <2>1
<1>8. expected # 0
  <2> HIDE DEF p
  <2> QED
    BY <1>2, <1>7
<1>9. n \in 1..Len(wire) /\ n <= expected /\ n \in Nat /\ n = Least(expected, Len(wire))
  BY <1>2, <1>4, <1>8 DEF Least
<1>10. expected' = expected - n /\ expected' \in Nat /\ wire' \in Seq(Parts) /\ iob' \in Seq(Parts)
  <2>1. n \in 0..Len(wire)
    BY <1>9
  <2>2. From(wire, n + 1) \in Seq(Parts)
    <3> HIDE DEF n
    <3> QED
      BY <1>2, <2>1, Cut
  <2> HIDE DEF n
  <2> QED
    BY <1>1, <1>2, <1>8, <1>9, <2>2
<1>11. CASE flags' = flags \cup {"tainted"} /\ Return /\ up' = up
  <2>1. flags' \subseteq Flags
    BY <1>2, <1>11 DEF Flags
  <2>2. ~MayContinue' /\ pc' = "done"
    BY <1>11 DEF MayContinue, Tainted, Return
  <2>3. /\ answered \subseteq answered' /\ abandoned \subseteq abandoned'
        /\ answered' \subseteq DOMAIN reqs /\ abandoned' \subseteq DOMAIN reqs
        /\ sfd' \in {"none", "open", "dead"}
    BY <1>1, <1>2
  <2> HIDE DEF n, p
  <2> QED
    BY <1>1, <1>10, <1>11, <2>1, <2>2, <2>3, Finish
<1>12. CASE /\ up' = up \o SubSeq(wire, 1, n)
            /\ flags' = (IF expected # 0 /\ expected = n THEN flags \cup {"complete"} ELSE flags)
            /\ pc' = pc
  <2>1. /\ Ordered(reqs, abandoned, up') /\ up' \in Seq(Parts) /\ up' # <<>>
        /\ Last(up') = <<req, p + n>> /\ p + n <= 3 + Body(req)
        /\ Continues(reqs, client, <<req, p + n>>, Stream')
    <3>1. Ordered(reqs, abandoned, up) /\ Continues(reqs, client, <<req, p>>, Stream)
      BY <1>2, <1>3 DEF History
    <3> HIDE DEF n, p
    <3> QED
      BY <1>1, <1>2, <1>3, <1>7, <1>9, <1>12, <3>1, Passed
  <2>2. Last(up)' = <<req, p + n>>
    BY <2>1 DEF Last
  <2>3. Continues(reqs', client', Last(up)', Stream') /\ Last(up)'[1] = req /\ Last(up)'[2] = p + n
    BY <1>1, <2>1, <2>2
  <2>4. Body(req)' = Body(req) /\ Single' /\ Clean' /\ "waiting" \notin flags'
    BY <1>1, <1>3, <1>12 DEF Body, Single, Kind, Clean
  <2>5. p + n >= 3 /\ (p + n) + expected' >= 3 + Body(req)
    <3> HIDE DEF n, p
    <3>1. /\ p \in Nat /\ n \in Nat /\ expected \in Nat /\ Body(req) \in Nat
          /\ p >= 3 /\ p + expected >= 3 + Body(req) /\ n <= expected /\ expected' = expected - n
      BY <1>2, <1>7, <1>9, <1>10
    <3> QED
      BY ONLY <3>1
  <2>6. "complete" \in flags' => Whole'
    <3>1. "complete" \in flags' => expected = n
      BY <1>1, <1>12
    <3>2. expected = n => p + n = 3 + Body(req)
      <4> HIDE DEF n, p
      <4>1. /\ p \in Nat /\ n \in Nat /\ expected \in Nat /\ Body(req) \in Nat
            /\ p + expected >= 3 + Body(req) /\ p + n <= 3 + Body(req)
        BY <1>2, <1>7, <1>9, <2>1
      <4> QED
        BY ONLY <4>1
    <3>3. p + n = 3 + Body(req) => Ends(Last(up))'
      <4> HIDE DEF n, p
      <4> QED
        BY <1>1, <2>2 DEF Ends, Body
    <3> HIDE DEF n, p
    <3> QED
      BY <1>1, <2>1, <2>3, <3>1, <3>2, <3>3 DEF Whole
  <2>7. TalkInv'
    <3> HIDE DEF n, p
    <3> QED
      BY <1>1, <1>3, <1>12, <2>1, <2>3, <2>4, <2>5, <2>6 DEF TalkInv
  <2>8. flags' = flags \/ (~conf.tls /\ flags' = flags \cup {"complete"})
    BY <1>1, <1>12
  <2>9. pc \notin Over /\ pc' = "established" /\ sfd' \in {"none", "open", "dead"}
    BY <1>1, <1>2, <1>12 DEF Over
  <2> HIDE DEF n, p
  <2> QED
    BY <1>1, <1>2, <1>10, <2>1, <2>7, <2>8, <2>9, Proceed
<1> QED
  BY <1>11, <1>12 DEF PassBody

-----------------------------------------------------------------------------
(* From one request to the next.                                           *)

\* The thread turns to the next request.
LEMMA Prepared ==
  ASSUME Inv, pc = "idle" \/ (pc = "done" /\ MayContinue), NEW s \in {"none", "open", "dead"}, s = "open" => sfd = "open",
         Prepare(s),
         conf' = conf, reqs' = reqs, todo' = todo, client' = client, up' = up,
         answered' = answered, abandoned' = abandoned, pooled' = pooled, stray' = stray,
         wire' = wire, iob' = iob
  PROVE  Inv'
<1>1. /\ pc' = "line" /\ req' = 0 /\ expected' = 0 /\ sfd' = s
      /\ flags' = {"reused"} \cup (IF iob # <<>> THEN {"waiting"} ELSE {})
  BY DEF Prepare
<1>2. Types /\ Asked /\ History
  BY DEF Inv
<1>3. /\ Lined(reqs, client, Stream) /\ Begins(up, answered, abandoned, Stream)
      /\ sfd = "open" => Settled(reqs, abandoned, up) \/ Gone
  BY DEF Inv, Stages, LineInv, AtLine
<1>4. conf.tls => iob = <<>>
  BY DEF Inv, Stages, DrainedInv
<1>5. Asked'
  <2>1. answered \subseteq answered'
    OBVIOUS
  <2> QED
    BY <1>2, <2>1, ThreadAsked
<1>6. Types'
  <2>1. pc' \in Pcs /\ expected' \in Nat /\ req' \in {0} \cup DOMAIN reqs
    BY <1>1 DEF Pcs
  <2>2. flags' \subseteq Flags
    BY <1>1 DEF Flags
  <2>3. /\ wire' \in Seq(Parts) /\ iob' \in Seq(Parts) /\ up' \in Seq(Parts) /\ pooled' \in Seq(Parts)
        /\ stray' \in {0} \cup DOMAIN reqs /\ answered' \subseteq DOMAIN reqs /\ abandoned' \subseteq DOMAIN reqs
        /\ sfd' \in {"none", "open", "dead"}
    BY <1>1, <1>2 DEF Types
  <2> QED
    BY <1>2, <2>1, <2>2, <2>3, ThreadTypes
<1>7. Marks'
  <2>1. /\ "lengthSet" \notin flags' /\ "crunched" \notin flags' /\ "serverKA" \notin flags'
        /\ "tainted" \notin flags' /\ "complete" \notin flags'
        /\ conf.tls => "waiting" \notin flags'
    BY <1>1, <1>4
  <2> QED
    BY <1>1, <2>1 DEF Marks
<1>8. History'
  <2>1. UNCHANGED <<reqs, up, stray, pooled>> /\ abandoned \subseteq abandoned'
    OBVIOUS
  <2> QED
    BY <1>2, <2>1, SameHistory
<1>9. Stream' = Stream
  BY DEF Stream, Rest
<1>10. LineInv'
  <2>1. Gone' <=> Gone
    BY DEF Gone
  <2> QED
    BY <1>1, <1>3, <1>9, <2>1 DEF LineInv
<1>11. DrainedInv'
  <2>1. LineIn(iob') => "waiting" \in flags'
    BY <1>1 DEF LineIn
  <2> QED
    BY <1>1, <2>1 DEF DrainedInv
<1> QED
  BY <1>1, <1>5, <1>6, <1>7, <1>8, <1>10, <1>11, OnlyHere DEF Inv

\* Whether there is to be one is decided from the flags.
LEMMA DecideStep == Inv /\ Decide => Inv'
<1> SUFFICES ASSUME Inv, Decide PROVE Inv'
  OBVIOUS
<1> DEFINE newSfd == IF CloseServer THEN "none" ELSE sfd
<1>1. /\ pc = "done"
      /\ conf' = conf /\ reqs' = reqs /\ todo' = todo /\ client' = client /\ up' = up
      /\ answered' = answered /\ abandoned' = abandoned /\ pooled' = pooled /\ stray' = stray
      /\ wire' = wire /\ iob' = iob
  BY DEF Decide, clientVars, historyVars
<1>2. ContinueChatting => MayContinue
  BY DEF ContinueChatting, MayContinue
<1>3. Types /\ Asked /\ History
  BY DEF Inv
<1>4. newSfd \in {"none", "open", "dead"} /\ (newSfd = "open" => sfd = "open")
  BY <1>3 DEF Types
<1>5. CASE ContinueChatting /\ "waiting" \in flags /\ Prepare(newSfd)
  <2> HIDE DEF newSfd
  <2> QED
    BY <1>1, <1>2, <1>4, <1>5, Prepared
<1>6. CASE ContinueChatting /\ "waiting" \notin flags /\ pc' = "idle" /\ sfd' = newSfd
           /\ UNCHANGED <<req, expected, flags>>
  <2>1. MayContinue /\ pc' = "idle" /\ sfd' = newSfd /\ req' = req /\ expected' = expected /\ flags' = flags
    BY <1>2, <1>6
  <2>2. /\ Lined(reqs, client, Stream) /\ Begins(up, answered, abandoned, Stream)
        /\ sfd = "open" => Settled(reqs, abandoned, up) \/ Gone
    BY <1>1, <2>1 DEF Inv, Stages, LineInv, AtLine
  <2>3. (iob = <<>> \/ abandoned # {}) /\ (conf.tls => iob = <<>>)
    BY <1>1, <1>6, <2>1 DEF Inv, Stages, DrainedInv
  <2>4. Asked'
    BY <1>1, <1>3 DEF Asked
  <2>5. Types'
    <3>1. pc' \in Pcs
      BY <2>1 DEF Pcs
    <3>2. /\ wire' \in Seq(Parts) /\ iob' \in Seq(Parts) /\ up' \in Seq(Parts) /\ pooled' \in Seq(Parts)
          /\ req' \in {0} \cup DOMAIN reqs /\ stray' \in {0} \cup DOMAIN reqs
          /\ answered' \subseteq DOMAIN reqs /\ abandoned' \subseteq DOMAIN reqs
          /\ expected' \in Nat /\ flags' \subseteq Flags
      BY <1>1, <1>3, <2>1 DEF Types
    <3>3. sfd' \in {"none", "open", "dead"}
      BY <1>4, <2>1
    <3> QED
      BY <1>1, <1>3, <3>1, <3>2, <3>3, ThreadTypes
  <2>6. Marks'
    BY <2>1 DEF Marks, Over
  <2>7. History'
    <3>1. abandoned \subseteq abandoned'
      BY <1>1
    <3> QED
      BY <1>1, <1>3, <3>1, SameHistory
  <2>8. Stream' = Stream
    BY <1>1 DEF Stream, Rest
  <2>9. LineInv'
    <3>1. Gone' <=> Gone
      BY <1>1 DEF Gone
    <3>2. sfd' = "open" => Settled(reqs, abandoned, up) \/ Gone
      BY <1>4, <2>1, <2>2
    <3> QED
      BY <1>1, <2>2, <2>8, <3>1, <3>2 DEF LineInv
  <2>10. DrainedInv'
    BY <1>1, <2>1, <2>3 DEF DrainedInv
  <2> QED
    BY <2>1, <2>4, <2>5, <2>6, <2>7, <2>9, <2>10, OnlyHere DEF Inv
<1>7. CASE pc' = "closed" /\ sfd' = "none" /\ UNCHANGED <<req, expected, flags>>
  <2>1. /\ wire' \in Seq(Parts) /\ iob' \in Seq(Parts) /\ sfd' \in {"none", "open", "dead"} /\ expected' \in Nat
        /\ flags' \subseteq Flags /\ answered' \subseteq DOMAIN reqs /\ abandoned' \subseteq DOMAIN reqs
        /\ answered \subseteq answered' /\ abandoned \subseteq abandoned'
    BY <1>1, <1>3, <1>7 DEF Types
  <2> QED
    BY <1>1, <1>7, <2>1, Finish
<1> QED
  BY <1>5, <1>6, <1>7 DEF Decide

\* It comes in time.
LEMMA NextRequestStep == Inv /\ NextRequest => Inv'
<1> SUFFICES ASSUME Inv, NextRequest PROVE Inv'
  OBVIOUS
<1>1. /\ pc = "idle" /\ Prepare(sfd)
      /\ conf' = conf /\ reqs' = reqs /\ todo' = todo /\ client' = client /\ up' = up
      /\ answered' = answered /\ abandoned' = abandoned /\ pooled' = pooled /\ stray' = stray
      /\ wire' = wire /\ iob' = iob
  BY DEF NextRequest, clientVars, historyVars
<1>2. sfd \in {"none", "open", "dead"}
  BY DEF Inv, Types
<1> QED
  BY <1>1, <1>2, Prepared

\* It does not.
LEMMA NoNextRequestStep == Inv /\ NoNextRequest => Inv'
<1> SUFFICES ASSUME Inv, NoNextRequest PROVE Inv'
  OBVIOUS
<1>1. /\ pc = "idle" /\ pc' = "closed" /\ sfd' = "none"
      /\ conf' = conf /\ reqs' = reqs /\ todo' = todo /\ client' = client /\ up' = up
      /\ answered' = answered /\ abandoned' = abandoned /\ stray' = stray
      /\ req' = req /\ wire' = wire /\ iob' = iob /\ expected' = expected /\ flags' = flags
  BY DEF NoNextRequest, clientVars, requestVars
<1>2. Types /\ (sfd = "open" => Settled(reqs, abandoned, up) \/ Gone)
  BY <1>1 DEF Inv, Stages, LineInv, AtLine
<1>3. pooled' = pooled \/ (pooled' = up /\ Settled(reqs, abandoned, up))
  BY <1>2 DEF NoNextRequest, LeaveServer, Gone
<1>4. wire' \in Seq(Parts) /\ iob' \in Seq(Parts) /\ sfd' \in {"none", "open", "dead"} /\ expected' \in Nat
      /\ flags' \subseteq Flags /\ answered' \subseteq DOMAIN reqs /\ abandoned' \subseteq DOMAIN reqs
      /\ answered \subseteq answered' /\ abandoned \subseteq abandoned'
  BY <1>1, <1>2 DEF Types
<1> QED
  BY <1>1, <1>3, <1>4, Finish

-----------------------------------------------------------------------------
(* The client.                                                             *)

\* What the client does is seen in the stream only.
LEMMA ClientSendsStep == Inv /\ ClientSends => Inv'
<1> SUFFICES ASSUME Inv, ClientSends PROVE Inv'
  OBVIOUS
<1>1. PICK n \in 1..Len(todo) : wire' = wire \o SubSeq(todo, 1, n) /\ todo' = From(todo, n + 1)
  BY DEF ClientSends
<1>2. /\ conf' = conf /\ reqs' = reqs /\ client' = client /\ sfd' = sfd /\ up' = up /\ pc' = pc
      /\ answered' = answered /\ abandoned' = abandoned /\ pooled' = pooled /\ stray' = stray
      /\ req' = req /\ iob' = iob /\ expected' = expected /\ flags' = flags
  BY DEF ClientSends, serverVars, historyVars, requestVars
<1>3. Types /\ Asked /\ Marks /\ History /\ Stages
  BY DEF Inv
<1>4. todo \in Seq(Parts) /\ wire \in Seq(Parts) /\ iob \in Seq(Parts)
  BY <1>3 DEF Types
<1>5. client # "closed"
  <2>1. todo # <<>>
    <3>1. Len(todo) # 0
      BY <1>1
    <3> QED
      BY <1>4, <3>1, Empty
  <2> QED
    BY <1>3, <2>1 DEF Asked
<1>6. Rest' = Rest /\ wire' \in Seq(Parts) /\ todo' \in Seq(Parts)
  <2> DEFINE a == SubSeq(todo, 1, n)
             b == From(todo, n + 1)
  <2>1. n \in 0..Len(todo)
    OBVIOUS
  <2>2. a \in Seq(Parts) /\ b \in Seq(Parts) /\ a \o b = todo
    BY <1>4, <2>1, Cut
  <2> HIDE DEF a, b
  <2>3. wire' = wire \o a /\ todo' = b
    BY <1>1 DEF a, b
  <2>4. (wire \o a) \o b = wire \o (a \o b)
    <3>1. wire \in Seq(Parts) /\ a \in Seq(Parts) /\ b \in Seq(Parts)
      BY <1>4, <2>2
    <3> QED
      BY ONLY <3>1, Associates
  <2>5. wire \o a \in Seq(Parts)
    BY <1>4, <2>2, ConcatProperties
  <2> QED
    BY <2>2, <2>3, <2>4, <2>5 DEF Rest
<1>7. Stream' = Stream
  BY <1>2, <1>6 DEF Stream
<1>8. Types'
  <2>1. Parts' = Parts /\ Pcs' = Pcs
    BY <1>2 DEF Parts, Pcs
  <2> QED
    BY <1>2, <1>3, <1>6, <2>1 DEF Types
<1>9. Asked'
  BY <1>2, <1>3, <1>5 DEF Asked
<1>10. Marks'
  BY <1>2, <1>3 DEF Marks
<1>11. History'
  BY <1>2, <1>3 DEF History
<1>12. (Clean' <=> Clean) /\ (MayContinue' <=> MayContinue) /\ (Single' <=> Single)
       /\ (Chunked' <=> Chunked) /\ Kind' = Kind /\ (Whole' <=> Whole)
       /\ (Filtered' <=> Filtered) /\ Last(up)' = Last(up) /\ (Ends(Last(up))' <=> Ends(Last(up))) /\ Body(req)' = Body(req)
  <2>1. (Clean' <=> Clean) /\ (MayContinue' <=> MayContinue)
    BY <1>2 DEF Clean, MayContinue, Tainted, Unread
  <2>2. Kind' = Kind /\ (Single' <=> Single) /\ (Chunked' <=> Chunked) /\ Body(req)' = Body(req)
    BY <1>2 DEF Single, Kind, Chunked, Body
  <2>3. Last(up)' = Last(up) /\ (Ends(Last(up))' <=> Ends(Last(up))) /\ (Whole' <=> Whole)
    BY <1>2 DEF Whole, Ends, Body, Last
  <2>4. Filtered' <=> Filtered
    BY <1>2, <1>6, <2>2 DEF Filtered
  <2> QED
    BY <2>1, <2>2, <2>3, <2>4
<1>13. LineInv'
  <2>1. ~Gone
    BY <1>5 DEF Gone
  <2> QED
    BY <1>2, <1>3, <1>7, <1>12, <2>1 DEF LineInv, AtLine, Stages
<1>14. DrainedInv'
  BY <1>2, <1>3, <1>12 DEF DrainedInv, Stages
<1>15. MiddleInv'
  BY <1>2, <1>3 DEF MiddleInv, Stages
<1>16. ReadInv'
  BY <1>2, <1>3, <1>7, <1>12 DEF ReadInv, Stages
<1>17. RouteInv'
  <2>1. Unfiltered' <=> Unfiltered
    BY <1>2, <1>7, <1>12 DEF Unfiltered
  <2> QED
    BY <1>2, <1>3, <1>12, <2>1 DEF RouteInv, Stages
<1>18. RelayInv'
  BY <1>2, <1>3, <1>7, <1>12 DEF RelayInv, Stages
<1>19. TalkInv'
  <2>1. conf.tls /\ pc = "established" => iob = <<>> /\ Ends(Last(up))
    BY <1>3, <1>5 DEF TalkInv, Stages
  <2> QED
    BY <1>2, <1>3, <1>7, <1>12, <2>1 DEF TalkInv, Stages
<1> QED
  BY <1>8, <1>9, <1>10, <1>11, <1>13, <1>14, <1>15, <1>16, <1>17, <1>18, <1>19 DEF Inv, Stages

\* What it did not send yet is never sent.
LEMMA ClientClosesStep == Inv /\ ClientCloses => Inv'
<1> SUFFICES ASSUME Inv, ClientCloses PROVE Inv'
  OBVIOUS
<1>1. client = "open" /\ client' = "closed" /\ todo' = <<>>
  BY DEF ClientCloses
<1>2. /\ conf' = conf /\ reqs' = reqs /\ wire' = wire /\ sfd' = sfd /\ up' = up /\ pc' = pc
      /\ answered' = answered /\ abandoned' = abandoned /\ pooled' = pooled /\ stray' = stray
      /\ req' = req /\ iob' = iob /\ expected' = expected /\ flags' = flags
  BY DEF ClientCloses, serverVars, historyVars, requestVars
<1>3. Types /\ Asked /\ Marks /\ History /\ Stages
  BY DEF Inv
<1>4. todo \in Seq(Parts) /\ wire \in Seq(Parts) /\ iob \in Seq(Parts)
  BY <1>3 DEF Types
<1> DEFINE short == iob \o wire
<1>5. short \in Seq(Parts) /\ Stream = short \o todo
  BY <1>3, <1>4, ConcatProperties, StreamFacts
<1>6. Rest' = wire /\ Stream' = short
  <2>1. wire \o <<>> = wire
    BY <1>4, ConcatEmptySeq
  <2> QED
    BY <1>1, <1>2, <2>1 DEF Rest, Stream
<1> HIDE DEF short
<1>7. /\ Lined(reqs, client, Stream) => Lined(reqs, "closed", short)
      /\ \A u : Continues(reqs, client, u, Stream) => Continues(reqs, "closed", u, short)
  <2>1. short \in Seq(UnitType) /\ todo \in Seq(UnitType)
    BY <1>3, <1>4, <1>5, KnownParts
  <2> QED
    BY <1>5, <2>1, Shortened
<1>8. short # <<>> => Stream # <<>> /\ Stream[1] = short[1]
  <2>1. /\ Len(short) \in Nat /\ \A i \in 1..Len(short) : (short \o todo)[i] = short[i]
        /\ short \o todo = <<>> <=> short = <<>> /\ todo = <<>>
    <3>1. short \in Seq(Parts) /\ todo \in Seq(Parts)
      BY <1>4, <1>5
    <3> QED
      BY ONLY <3>1, Joins
  <2>2. short # <<>> => 1 \in 1..Len(short)
    BY <1>5, <2>1, Empty
  <2> QED
    BY <1>5, <2>1, <2>2
<1>9. Rest = <<>> => wire = <<>>
  BY <1>4, Joins DEF Rest
<1>10. Types'
  <2>1. Parts' = Parts /\ Pcs' = Pcs
    BY <1>2 DEF Parts, Pcs
  <2>2. todo' \in Seq(Parts)
    BY <1>1
  <2> QED
    BY <1>1, <1>2, <1>3, <2>1, <2>2 DEF Types
<1>11. Asked'
  BY <1>1, <1>2, <1>3 DEF Asked
<1>12. Marks'
  BY <1>2, <1>3 DEF Marks
<1>13. History'
  BY <1>2, <1>3 DEF History
<1>14. (Clean' <=> Clean) /\ (MayContinue' <=> MayContinue) /\ (Single' <=> Single)
       /\ (Chunked' <=> Chunked) /\ Kind' = Kind /\ (Whole' <=> Whole)
       /\ (Filtered => Filtered') /\ Last(up)' = Last(up) /\ (Ends(Last(up))' <=> Ends(Last(up))) /\ Body(req)' = Body(req)
  <2>1. (Clean' <=> Clean) /\ (MayContinue' <=> MayContinue)
    BY <1>2 DEF Clean, MayContinue, Tainted, Unread
  <2>2. Kind' = Kind /\ (Single' <=> Single) /\ (Chunked' <=> Chunked) /\ Body(req)' = Body(req)
    BY <1>2 DEF Single, Kind, Chunked, Body
  <2>3. Last(up)' = Last(up) /\ (Ends(Last(up))' <=> Ends(Last(up))) /\ (Whole' <=> Whole)
    BY <1>2 DEF Whole, Ends, Body, Last
  <2>4. Filtered => Filtered'
    BY <1>2, <1>6, <1>9, <2>2 DEF Filtered
  <2> QED
    BY <2>1, <2>2, <2>3, <2>4
<1>15. \A u : Continues(reqs, client, u, Stream) => Continues(reqs', client', u, Stream')
  BY <1>1, <1>2, <1>6, <1>7
<1>16. LineInv'
  <2> SUFFICES ASSUME AtLine' PROVE /\ Lined(reqs, client, Stream)'
                                    /\ Begins(up, answered, abandoned, Stream)'
                                    /\ sfd' = "open" => Settled(reqs, abandoned, up)' \/ Gone'
    BY DEF LineInv
  <2>1. AtLine /\ ~Gone
    BY <1>1, <1>2, <1>14 DEF AtLine, Gone
  <2>2. /\ Lined(reqs, client, Stream) /\ Begins(up, answered, abandoned, Stream)
        /\ sfd = "open" => Settled(reqs, abandoned, up)
    BY <1>3, <2>1 DEF Stages, LineInv
  <2>3. Begins(up, answered, abandoned, short)
    BY <1>8, <2>2 DEF Begins
  <2> QED
    BY <1>1, <1>2, <1>6, <1>7, <2>2, <2>3
<1>17. DrainedInv'
  BY <1>2, <1>3, <1>14 DEF DrainedInv, Stages
<1>18. MiddleInv'
  BY <1>2, <1>3 DEF MiddleInv, Stages
<1>19. ReadInv'
  BY <1>2, <1>3, <1>14, <1>15 DEF ReadInv, Stages
<1>20. RouteInv'
  <2>1. Unfiltered => Unfiltered'
    BY <1>2, <1>14, <1>15 DEF Unfiltered
  <2> QED
    BY <1>2, <1>3, <1>14, <2>1 DEF RouteInv, Stages
<1>21. RelayInv'
  BY <1>2, <1>3, <1>14, <1>15 DEF RelayInv, Stages
<1>22. TalkInv'
  <2>1. conf.tls /\ pc = "established" => iob = <<>> /\ Ends(Last(up))
    BY <1>1, <1>3 DEF TalkInv, Stages
  <2> QED
    BY <1>2, <1>3, <1>14, <1>15, <2>1 DEF TalkInv, Stages
<1> QED
  BY <1>10, <1>11, <1>12, <1>13, <1>16, <1>17, <1>18, <1>19, <1>20, <1>21, <1>22 DEF Inv, Stages

\* What was said of the units of earlier requests is not changed by a new request.
LEMMA Grown ==
  ASSUME NEW R, NEW rs \in Seq(R), NEW k, NEW ab, NEW x \in Seq(UnitType), Known(rs, x)
  PROVE  /\ Ordered(rs, ab, x) => Ordered(Append(rs, k), ab, x)
         /\ Settled(rs, ab, x) => Settled(Append(rs, k), ab, x)
<1> DEFINE s == Append(rs, k)
<1>1. Len(rs) \in Nat /\ \A r \in 1..Len(rs) : s[r] = rs[r]
  OBVIOUS
<1>2. Len(x) \in Nat /\ (x # <<>> => Len(x) # 0)
  OBVIOUS
<1> HIDE DEF s
<1>3. \A i \in 1..Len(x) : EndsIn(s, x[i]) <=> EndsIn(rs, x[i])
  <2> TAKE i \in 1..Len(x)
  <2>1. x[i][1] \in 1..Len(rs)
    BY DEF Known
  <2>2. s[x[i][1]] = rs[x[i][1]]
    BY <1>1, <2>1
  <2> QED
    BY <2>2 DEF EndsIn
<1>4. Ordered(rs, ab, x) => Ordered(s, ab, x)
  <2>1. \A i \in 2..Len(x) : Orderly(rs, ab, x[i - 1], x[i]) => Orderly(s, ab, x[i - 1], x[i])
    <3> TAKE i \in 2..Len(x)
    <3>1. i - 1 \in 1..Len(x)
      BY <1>2
    <3>2. EndsIn(s, x[i - 1]) <=> EndsIn(rs, x[i - 1])
      BY <1>3, <3>1
    <3> QED
      BY <3>2 DEF Orderly
  <2> QED
    BY <2>1 DEF Ordered
<1>5. Settled(rs, ab, x) => Settled(s, ab, x)
  <2>1. x # <<>> => Len(x) \in 1..Len(x)
    BY <1>2
  <2> QED
    BY <1>3, <2>1 DEF Settled
<1> QED
  BY <1>4, <1>5 DEF s

\* The client sends another request only when the one that is served, if it is not
\* answered, is one to pipeline behind.
LEMMA ClientStartsStep == Apart /\ Inv /\ (\E k \in conf.kinds : ClientStarts(k)) => Inv'
<1> SUFFICES ASSUME Apart, Inv, NEW k \in conf.kinds, ClientStarts(k) PROVE Inv'
  OBVIOUS
<1> DEFINE n == UnitsOf(Len(reqs) + 1, k)
           s == Append(reqs, k)
<1>1. /\ client = "open" /\ todo = <<>> /\ reqs' = s /\ todo' = n
      /\ \A r \in DOMAIN reqs : r \in answered \/ reqs[r] \in conf.pipelined
  BY DEF ClientStarts
<1>2. /\ conf' = conf /\ client' = client /\ wire' = wire /\ sfd' = sfd /\ up' = up /\ pc' = pc
      /\ answered' = answered /\ abandoned' = abandoned /\ pooled' = pooled /\ stray' = stray
      /\ req' = req /\ iob' = iob /\ expected' = expected /\ flags' = flags
  BY DEF ClientStarts, serverVars, historyVars, requestVars
<1>3. Types /\ Asked /\ Marks /\ History /\ Stages
  BY DEF Inv
<1>4. wire \in Seq(Parts) /\ iob \in Seq(Parts) /\ up \in Seq(Parts) /\ pooled \in Seq(Parts)
  BY <1>3 DEF Types
<1>5. /\ reqs \in Seq(conf.kinds) /\ k.body \in Nat
      /\ Len(reqs) \in Nat /\ DOMAIN reqs = 1..Len(reqs) /\ Bodied(reqs)
  <2>1. conf \in Configurations /\ reqs \in Seq(conf.kinds)
    BY <1>3 DEF Types
  <2>2. conf.kinds \subseteq KindType
    BY <2>1, SessionAssumption DEF ConfigurationType
  <2>3. k.body \in Nat
    BY <2>2 DEF KindType
  <2> QED
    BY <1>3, <2>1, <2>3, RequestFacts
<1>6. /\ s \in Seq(conf.kinds) /\ DOMAIN s = 1..(Len(reqs) + 1) /\ Len(s) = Len(reqs) + 1
      /\ \A r \in DOMAIN reqs : s[r] = reqs[r]
  BY <1>5
<1> HIDE DEF s
<1>7. Parts \subseteq Parts' /\ n \in Seq(Parts')
  <2>1. Parts' = (1..(Len(reqs) + 1)) \X Nat
    BY <1>1, <1>6 DEF Parts
  <2>2. Parts \subseteq Parts'
    BY <1>5, <2>1 DEF Parts
  <2> DEFINE l == 3 + k.body
             m == Len(reqs) + 1
             P == Parts'
  <2>3. l \in Nat /\ n = [p \in 1..l |-> <<m, p>>] /\ m \in 1..m
    BY <1>5 DEF UnitsOf
  <2> HIDE DEF l, n, m
  <2>4. \A p \in 1..l : <<m, p>> \in P
    BY <2>1, <2>3 DEF m
  <2> HIDE DEF P
  <2>5. n \in Seq(P)
    BY <2>3, <2>4
  <2> QED
    BY <2>2, <2>5 DEF P
<1> HIDE DEF n
<1>8. /\ Stream \in Seq(Parts) /\ Stream \in Seq(UnitType) /\ Known(reqs, Stream)
      /\ Stream = iob \o wire /\ Rest = wire
  <2>1. wire \o <<>> = wire
    BY <1>4, ConcatEmptySeq
  <2>2. Rest = wire
    BY <1>1, <2>1 DEF Rest
  <2>3. Stream \in Seq(Parts)
    BY <1>3, StreamFacts
  <2>4. Stream \in Seq(UnitType) /\ Known(reqs, Stream)
    BY <1>3, <2>3, KnownParts
  <2> QED
    BY <2>2, <2>3, <2>4 DEF Stream
<1>9. Stream' = Stream \o n /\ todo' \in Seq(Parts') /\ wire' \in Seq(Parts') /\ iob' \in Seq(Parts')
  <2> DEFINE P == Parts'
  <2>1. \A x \in Seq(Parts) : x \in Seq(P)
    BY <1>7, SeqMonotonic
  <2> HIDE DEF P
  <2>2. iob \in Seq(P) /\ wire \in Seq(P) /\ n \in Seq(P)
    BY <1>4, <1>7, <2>1 DEF P
  <2>3. (iob \o wire) \o n = iob \o (wire \o n)
    BY ONLY <2>2, Associates
  <2>4. Stream' = iob \o (wire \o n)
    BY <1>1, <1>2 DEF Stream, Rest
  <2> QED
    BY <1>1, <1>2, <1>8, <2>2, <2>3, <2>4 DEF P
<1>10. /\ Lined(reqs, "open", Stream) => Lined(s, "open", Stream \o n)
       /\ Stream = <<>> => Stream \o n # <<>> /\ (Stream \o n)[1] = <<Len(reqs) + 1, 1>>
       /\ \A u \in UnitType : u[1] \in 1..Len(reqs) /\ Continues(reqs, "open", u, Stream)
            => Continues(s, "open", u, Stream \o n)
       /\ n \in Seq(UnitType)
  BY <1>5, <1>8, Another DEF n, s
<1>11. \A u \in Parts : Continues(reqs, client, u, Stream) => Continues(reqs', client', u, Stream')
  <2> TAKE u \in Parts
  <2>1. u \in UnitType /\ u[1] \in 1..Len(reqs)
    BY <1>3, PartFacts
  <2> QED
    BY <1>1, <1>2, <1>9, <1>10, <2>1
<1>12. Stream # <<>> => Stream'[1] = Stream[1]
  <2>1. Len(Stream) \in Nat /\ \A i \in 1..Len(Stream) : (Stream \o n)[i] = Stream[i]
    <3>1. Stream \in Seq(UnitType) /\ n \in Seq(UnitType)
      BY <1>8, <1>10
    <3> QED
      BY ONLY <3>1, Joins
  <2>2. Stream # <<>> => 1 \in 1..Len(Stream)
    BY <1>8, <2>1, Empty
  <2> QED
    BY <1>9, <2>1, <2>2
<1>13. \A x \in Seq(Parts) : /\ Ordered(reqs, abandoned, x) => Ordered(s, abandoned, x)
                             /\ Settled(reqs, abandoned, x) => Settled(s, abandoned, x)
  <2> TAKE x \in Seq(Parts)
  <2>1. x \in Seq(UnitType) /\ Known(reqs, x)
    BY <1>3, KnownParts
  <2> QED
    BY <1>5, <2>1, Grown DEF s
<1>14. Types'
  <2>1. Pcs' = Pcs
    BY DEF Pcs
  <2>2. up' \in Seq(Parts') /\ pooled' \in Seq(Parts')
    BY <1>2, <1>4, <1>7, SeqMonotonic
  <2>3. DOMAIN reqs \subseteq DOMAIN reqs' /\ reqs' \in Seq(conf'.kinds)
    BY <1>1, <1>2, <1>5, <1>6
  <2>4. req' \in {0} \cup DOMAIN reqs' /\ stray' \in {0} \cup DOMAIN reqs'
    BY <1>2, <1>3, <2>3 DEF Types
  <2>5. answered' \subseteq DOMAIN reqs' /\ abandoned' \subseteq DOMAIN reqs'
    BY <1>2, <1>3, <2>3 DEF Types
  <2> QED
    BY <1>2, <1>3, <1>9, <2>1, <2>2, <2>3, <2>4, <2>5 DEF Types
<1>15. Asked'
  <2>1. \A r \in DOMAIN s : r < Len(s) => r \in DOMAIN reqs
    BY <1>5, <1>6
  <2> QED
    BY <1>1, <1>2, <1>6, <2>1 DEF Asked
<1>16. Marks'
  BY <1>2, <1>3 DEF Marks
<1>17. History'
  BY <1>1, <1>2, <1>3, <1>4, <1>13 DEF History
<1>18. (Clean' <=> Clean) /\ (MayContinue' <=> MayContinue)
  BY <1>2 DEF Clean, MayContinue, Tainted, Unread
<1>19. LineInv'
  <2> SUFFICES ASSUME AtLine' PROVE /\ Lined(reqs, client, Stream)'
                                    /\ Begins(up, answered, abandoned, Stream)'
                                    /\ sfd' = "open" => Settled(reqs, abandoned, up)' \/ Gone'
    BY DEF LineInv
  <2>1. AtLine /\ ~Gone
    BY <1>1, <1>2, <1>18 DEF AtLine, Gone
  <2>2. /\ Lined(reqs, client, Stream) /\ Begins(up, answered, abandoned, Stream)
        /\ sfd = "open" => Settled(reqs, abandoned, up)
    BY <1>3, <2>1 DEF Stages, LineInv
  <2>3. Lined(reqs, client, Stream)'
    BY <1>1, <1>2, <1>9, <1>10, <2>2
  <2>4. Begins(up, answered, abandoned, Stream)'
    <3>1. CASE Stream # <<>>
      BY <1>2, <1>12, <2>2, <3>1 DEF Begins
    <3>2. CASE Stream = <<>>
      <4>1. Stream'[1] = <<Len(reqs) + 1, 1>>
        BY <1>9, <1>10, <3>2
      <4>2. Before(up, Len(reqs) + 1)
        <5>1. up # <<>> => Len(up) \in 1..Len(up)
          BY <1>4
        <5>2. up # <<>> => up[Len(up)][1] \in 1..Len(reqs)
          BY <1>3, <1>4, <5>1, KnownParts DEF Known
        <5> QED
          BY <1>5, <5>2 DEF Before
      <4>3. AllBelow(answered, Len(reqs) + 1)
        <5>1. \A q \in answered : q \in 1..Len(reqs)
          BY <1>3, <1>5 DEF Types
        <5> QED
          BY <1>5, <5>1 DEF AllBelow
      <4> QED
        BY <1>2, <4>1, <4>2, <4>3 DEF Begins
    <3> QED
      BY <3>1, <3>2
  <2>5. sfd' = "open" => Settled(reqs, abandoned, up)'
    BY <1>1, <1>2, <1>4, <1>13, <2>2
  <2> QED
    BY <2>3, <2>4, <2>5
<1>20. DrainedInv'
  BY <1>2, <1>3, <1>18 DEF DrainedInv, Stages
<1>21. MiddleInv'
  <2>1. DOMAIN reqs \subseteq DOMAIN reqs'
    BY <1>1, <1>5, <1>6
  <2>2. Settled(reqs, abandoned, up) => Settled(reqs', abandoned', up')
    BY <1>1, <1>2, <1>4, <1>13
  <2> QED
    BY <1>2, <1>3, <2>1, <2>2 DEF MiddleInv, Stages
<1>22. ASSUME req \in DOMAIN reqs, AllBelow(answered, req)
       PROVE  /\ Kind' = Kind /\ (Chunked' <=> Chunked) /\ Body(req)' = Body(req)
              /\ ~Single /\ ~Single' /\ ~conf.tls
              /\ \A p \in Nat : Continues(reqs, client, <<req, p>>, Stream) => Continues(reqs', client', <<req, p>>, Stream')
  <2>1. reqs'[req] = reqs[req] /\ req' = req
    BY <1>1, <1>2, <1>6, <1>22
  <2>2. Kind' = Kind /\ (Chunked' <=> Chunked) /\ Body(req)' = Body(req)
    BY <2>1 DEF Kind, Chunked, Body
  <2>3. req \notin answered
    BY <1>5, <1>22 DEF AllBelow
  <2>4. ~Single /\ ~Single'
    BY <1>1, <1>2, <1>22, <2>2, <2>3 DEF Single, Kind
  <2>5. ~conf.tls
    BY <1>3, <2>4, NoPipelining DEF Single
  <2>6. \A p \in Nat : Continues(reqs, client, <<req, p>>, Stream) => Continues(reqs', client', <<req, p>>, Stream')
    <3> TAKE p \in Nat
    <3>1. <<req, p>> \in Parts
      BY <1>22 DEF Parts
    <3> QED
      BY <1>11, <3>1
  <2> QED
    BY <2>2, <2>4, <2>5, <2>6
<1>23. pc \in Middle \cup {"relay", "established"} => req \in DOMAIN reqs /\ AllBelow(answered, req)
  BY <1>3 DEF Stages, MiddleInv
<1>24. ReadInv'
  <2> SUFFICES ASSUME pc \in {"headers", "chunked", "parse"} PROVE ReadInv'
    BY <1>2 DEF ReadInv
  <2>1. pc \in Middle
    BY DEF Middle
  <2> QED
    BY <1>2, <1>3, <1>22, <1>23, <2>1 DEF ReadInv, Stages
<1>25. RouteInv'
  <2> SUFFICES ASSUME pc \in {"crunch", "buffer", "connect", "send"} PROVE RouteInv'
    BY <1>2 DEF RouteInv
  <2>1. pc \in Middle
    BY DEF Middle
  <2>2. Unfiltered => Unfiltered'
    BY <1>2, <1>18, <1>22, <1>23, <2>1 DEF Unfiltered
  <2> QED
    BY <1>2, <1>3, <1>22, <1>23, <2>1, <2>2 DEF RouteInv, Stages, Filtered
<1>26. pc # "relay"
  BY <1>3, <1>22, <1>23 DEF RelayInv, Stages
<1>27. RelayInv'
  BY <1>2, <1>26 DEF RelayInv
<1>28. TalkInv'
  <2> SUFFICES ASSUME pc = "established" PROVE TalkInv'
    BY <1>2 DEF TalkInv
  <2>1. up # <<>> /\ Last(up)[1] = req /\ Last(up) \in Parts
    <3>1. up # <<>> /\ Last(up)[1] = req
      BY <1>3 DEF TalkInv, Stages
    <3>2. Len(up) \in 1..Len(up)
      BY <1>4, <3>1
    <3> QED
      BY <1>4, <3>1, <3>2 DEF Last
  <2>2. Last(up)' = Last(up) /\ (Ends(Last(up))' <=> Ends(Last(up)))
    BY <1>2, <1>22, <1>23, <2>1 DEF Ends, Body, Last
  <2>3. Whole' <=> Whole
    BY <1>2, <2>2 DEF Whole
  <2>4. Clean => Continues(reqs', client', Last(up)', Stream')
    BY <1>3, <1>11, <1>22, <1>23, <2>1, <2>2 DEF TalkInv, Stages, Filtered
  <2>5. "complete" \in flags
    BY <1>3, <1>22, <1>23 DEF TalkInv, Stages
  <2> QED
    BY <1>2, <1>3, <1>18, <1>22, <1>23, <2>1, <2>2, <2>3, <2>4, <2>5 DEF TalkInv, Stages
<1> QED
  BY <1>14, <1>15, <1>16, <1>17, <1>19, <1>20, <1>21, <1>24, <1>25, <1>27, <1>28 DEF Inv, Stages

-----------------------------------------------------------------------------
(* The theorems.                                                           *)

\* Every step keeps the invariant.
LEMMA NextInv == Apart /\ Inv /\ [Next]_vars => Inv'
<1> SUFFICES ASSUME Apart, Inv, [Next]_vars PROVE Inv'
  OBVIOUS
<1>1. CASE UNCHANGED vars
  <2>1. /\ conf' = conf /\ reqs' = reqs /\ todo' = todo /\ client' = client /\ wire' = wire
        /\ pc' = pc /\ iob' = iob /\ req' = req /\ expected' = expected /\ flags' = flags
        /\ sfd' = sfd /\ up' = up
        /\ answered' = answered /\ abandoned' = abandoned /\ stray' = stray /\ pooled' = pooled
    BY <1>1 DEF vars, clientVars, requestVars, serverVars, historyVars
  <2>2. Types' /\ Asked' /\ Marks' /\ History'
    BY <2>1 DEF Inv, Types, Parts, Pcs, Asked, Marks, History
  <2>3. LineInv' /\ DrainedInv' /\ MiddleInv' /\ ReadInv'
    BY <2>1 DEF Inv, Stages, LineInv, AtLine, MayContinue, Tainted, Unread, Stream, Rest, Begins, Gone,
       DrainedInv, MiddleInv, ReadInv, Chunked, Kind, Body
  <2>4. RouteInv' /\ RelayInv'
    BY <2>1 DEF Inv, Stages, RouteInv, RelayInv, Single, Clean, Kind, Body, Filtered, Unfiltered, Stream, Rest,
       Chunked, Last
  <2>5. TalkInv'
    BY <2>1 DEF Inv, Stages, TalkInv, Single, Clean, Kind, Body, Filtered, Stream, Rest, Last, Whole, Ends
  <2> QED
    BY <2>2, <2>3, <2>4, <2>5 DEF Inv, Stages
<1>2. CASE Client
  BY <1>2, ClientStartsStep, ClientSendsStep, ClientClosesStep DEF Client
<1>3. CASE Read
  BY <1>3, GetRequestLineStep, GetHeadersStep, GetChunkedBodyStep, GetEncryptedHeadersStep, ParseRequestStep
     DEF Read
<1>4. CASE Route
  BY <1>4, CrunchStep, DropClientStep, DontCrunchStep, GetBodyStep, FilterBodyStep DEF Route
<1>5. CASE Open
  BY <1>5, ReuseStep, ConnectStep, ConnectFailsStep, SendStep, SendFailsStep, SendEncryptedStep, RelayStep
     DEF Open
<1>6. CASE Talk
  BY <1>6, PassBodyStep, ClientHangsUpStep, ServerAnswersStep, TaintedStep, ServerClosesStep DEF Talk
<1>7. CASE Go
  BY <1>7, DecideStep, NextRequestStep, NoNextRequestStep DEF Go
<1> QED
  BY <1>1, <1>2, <1>3, <1>4, <1>5, <1>6, <1>7 DEF Next, Thread

\* Every state of a connection has the inductive invariant, however many requests the
\* client sends and wherever they are cut, when each configuration is Separable.
THEOREM SessionInvariant == Apart => (Spec => []Inv)
<1>1. ASSUME Apart PROVE Spec => []Inv
  <2>1. Inv /\ [Next]_vars => Inv'
    BY <1>1, NextInv
  <2> QED
    BY <2>1, InitInv, PTL DEF Spec
<1> QED
  BY <1>1

\* No step takes back a request, and the client begins at most MaxRequests of them.
LEMMA ReqsGrow == [Next]_vars => reqs' = reqs \/ (Len(reqs) < MaxRequests /\ \E k : reqs' = Append(reqs, k))
<1> SUFFICES ASSUME [Next]_vars PROVE reqs' = reqs \/ (Len(reqs) < MaxRequests /\ \E k : reqs' = Append(reqs, k))
  OBVIOUS
<1> USE DEF clientVars
<1>1. CASE UNCHANGED vars
  BY <1>1 DEF vars
<1>2. CASE Client
  BY <1>2 DEF Client, ClientStarts, ClientSends, ClientCloses
<1>3. CASE Read
  BY <1>3 DEF Read, GetRequestLine, GetHeaders, GetChunkedBody, GetEncryptedHeaders, ParseRequest
<1>4. CASE Route
  BY <1>4 DEF Route, Crunch, DropClient, DontCrunch, GetBody, FilterBody
<1>5. CASE Open
  BY <1>5 DEF Open, Reuse, Connect, ConnectFails, Send, SendFails, SendEncrypted, Relay
<1>6. CASE Talk
  BY <1>6 DEF Talk, PassBody, ClientHangsUp, ServerAnswers, ServerCrunched, ServerCloses, Timeout
<1>7. CASE Go
  BY <1>7 DEF Go, Decide, NextRequest, NoNextRequest
<1> QED
  BY <1>1, <1>2, <1>3, <1>4, <1>5, <1>6, <1>7 DEF Next, Thread

\* Every variable keeps its type.
THEOREM SessionTypeCorrect == Apart => (Spec => []TypeOK)
<1> DEFINE Few == Len(reqs) <= MaxRequests
<1>1. Init => Few
  BY SessionAssumption DEF Init
<1>2. Inv /\ Few /\ [Next]_vars => Few'
  <2> SUFFICES ASSUME Inv, Few, [Next]_vars PROVE Few'
    OBVIOUS
  <2>1. MaxRequests \in Nat /\ reqs \in Seq(conf.kinds) /\ Len(reqs) \in Nat
    BY SessionAssumption DEF Inv, Types
  <2>2. CASE reqs' = reqs
    BY <2>2
  <2>3. ASSUME NEW k, Len(reqs) < MaxRequests, reqs' = Append(reqs, k) PROVE Few'
    <3>1. Len(reqs') = Len(reqs) + 1
      BY <2>1, <2>3
    <3> QED
      BY <2>1, <2>3, <3>1
  <2> QED
    BY <2>2, <2>3, ReqsGrow
<1>3. Inv /\ Few => TypeOK
  BY DEF Inv, Types, TypeOK, Units, Parts, Pcs
<1> HIDE DEF Few
<1>4. ASSUME Apart PROVE Spec => []TypeOK
  <2>1. Spec => []Inv
    BY <1>4, SessionInvariant
  <2> QED
    BY <1>1, <1>2, <1>3, <2>1, PTL DEF Spec
<1> QED
  BY <1>4

\* A server gets whole requests in the order in which the client sent them, and so does
\* whoever reuses its connection.
THEOREM UpstreamAlwaysInOrder == Apart => (Spec => []UpstreamInOrder)
<1>1. Inv => UpstreamInOrder
  <2> SUFFICES ASSUME Inv PROVE UpstreamInOrder
    OBVIOUS
  <2>1. Ordered(reqs, abandoned, up) /\ Settled(reqs, abandoned, pooled)
    BY DEF Inv, History
  <2>2. Len(up) \in Nat
    BY DEF Inv, Types
  <2>3. \A u, v : Follows(u, v) <=> Orderly(reqs, abandoned, u, v)
    BY DEF Follows, Orderly, Ends, EndsIn, Body
  <2>4. up # <<>> => up[1][2] = 3
    BY <2>1 DEF Ordered
  <2>5. ASSUME up # <<>> PROVE \A i \in 1..Len(up) - 1 : Follows(up[i], up[i + 1])
    <3> TAKE i \in 1..Len(up) - 1
    <3>1. i + 1 \in 2..Len(up) /\ (i + 1) - 1 = i
      BY <2>2
    <3>2. Orderly(reqs, abandoned, up[(i + 1) - 1], up[i + 1])
      BY <2>1, <2>5, <3>1 DEF Ordered
    <3>3. Orderly(reqs, abandoned, up[i], up[i + 1])
      BY <3>1, <3>2
    <3> QED
      BY <2>3, <3>3
  <2>6. pooled # <<>> => Ends(Last(pooled)) \/ Last(pooled)[1] \in abandoned
    BY <2>1 DEF Settled, EndsIn, Ends, Body, Last
  <2> QED
    BY <2>4, <2>5, <2>6 DEF UpstreamInOrder
<1>2. ASSUME Apart PROVE Spec => []UpstreamInOrder
  BY <1>1, <1>2, SessionInvariant, PTL
<1> QED
  BY <1>2

\* A body is found where a request line should be only if its request was answered
\* without it.
THEOREM StrayOnlyOfAbandoned == Apart => (Spec => []StrayOnlyIfAbandoned)
<1>1. Inv => StrayOnlyIfAbandoned
  BY DEF Inv, History, StrayOnlyIfAbandoned
<1>2. ASSUME Apart PROVE Spec => []StrayOnlyIfAbandoned
  BY <1>1, <1>2, SessionInvariant, PTL
<1> QED
  BY <1>2

Deliverable == \A c \in Configurations : SentWhole(c)

\* No wait leaves behind what was received, when forward-socks5t is used only for what it
\* can send.
THEOREM NothingEverStuck == Apart /\ Deliverable => (Spec => []NothingStuck)
<1>1. ASSUME Deliverable PROVE Inv => NothingStuck
  <2> SUFFICES ASSUME Inv PROVE NothingStuck
    OBVIOUS
  <2>1. SentWhole(conf)
    BY <1>1 DEF Inv, Types, Deliverable
  <2>2. pc = "established" /\ conf.tls => "complete" \notin flags
    BY DEF Inv, Marks, Over
  <2>3. NothingWithheld
    BY <2>1, <2>2 DEF Inv, Stages, TalkInv, NothingWithheld
  <2>4. WaitsOnlyWhenDrained
    BY DEF Inv, Stages, DrainedInv, WaitsOnlyWhenDrained
  <2> QED
    BY <2>3, <2>4 DEF NothingStuck
<1>2. ASSUME Apart, Deliverable PROVE Spec => []NothingStuck
  <2>1. Inv => NothingStuck
    BY <1>1, <1>2
  <2> QED
    BY <2>1, <1>2, SessionInvariant, PTL
<1> QED
  BY <1>2

-----------------------------------------------------------------------------
(* The files for TLS with the client.                                      *)

USE CertificatesAssumption

\* The files that the steps write.
LEMMA FilesTyped ==
  /\ NoFile \in FilesType /\ Part \in FilesType
  /\ \A k \in 0..MaxKeys : File("whole", k) \in FilesType
  BY DEF NoFile, Part, File, FilesType

\* What is in them.
LEMMA FileFields ==
  /\ ~Exists(NoFile) /\ Exists(Part) /\ NoFile.state # "whole" /\ Part.state # "whole"
  /\ NoFile.state # "expired" /\ Part.state # "expired"
  /\ \A k \in 0..MaxKeys : /\ File("whole", k).state = "whole" /\ File("whole", k).key = k
                          /\ Exists(File("whole", k))
  BY DEF NoFile, Part, File, Exists

\* At the start there is no file.
LEMMA CertInitInv == CertInit => CertificatesInv
  BY DEF CertInit, CertificatesInv, CertTypeOK, FilesMatch, Progress, FilesType, Steps, Generating, NoFile, File, Exists

\* Steps with the mutex held keep the types.
LEMMA CertTypeInv == CertTypeOK /\ [CertNext]_certVars => CertTypeOK'
<1> SUFFICES ASSUME CertTypeOK, [CertNext]_certVars PROVE CertTypeOK' OBVIOUS
<1> USE FilesTyped DEF CertTypeOK, Steps, Generating, Goto, Release, Fails, threadVars, fileVars
<1>1. ASSUME NEW t \in Threads, AskForTls(t) PROVE CertTypeOK' BY <1>1 DEF AskForTls
<1>2. ASSUME NEW t \in Threads, Lock(t) PROVE CertTypeOK' BY <1>2 DEF Lock
<1>3. ASSUME NEW t \in Threads, MakeSane(t) PROVE CertTypeOK' BY <1>3 DEF MakeSane
<1>4. ASSUME NEW t \in Threads, CheckCertificate(t) PROVE CertTypeOK' BY <1>4 DEF CheckCertificate
<1>5. ASSUME NEW t \in Threads, UnlinkKey(t) PROVE CertTypeOK' BY <1>5 DEF UnlinkKey
<1>6. ASSUME NEW t \in Threads, GenerateKey(t) PROVE CertTypeOK' BY <1>6 DEF GenerateKey
<1>7. ASSUME NEW t \in Threads, WriteKey(t) PROVE CertTypeOK' BY <1>7 DEF WriteKey
<1>8. ASSUME NEW t \in Threads, IssueCertificate(t) PROVE CertTypeOK' BY <1>8 DEF IssueCertificate
<1>9. ASSUME NEW t \in Threads, WriteCertificate(t) PROVE CertTypeOK' BY <1>9 DEF WriteCertificate
<1>10. ASSUME NEW t \in Threads, LoadCertificate(t) \/ LoadKey(t) PROVE CertTypeOK'
  BY <1>10 DEF LoadCertificate, LoadKey
<1>11. ASSUME NEW t \in Threads, Handshake(t) \/ ConnectServer(t) \/ EndSession(t) PROVE CertTypeOK'
  BY <1>11 DEF Handshake, ConnectServer, EndSession, Close
<1>12. ASSUME NEW h \in Hosts, Expire(h) PROVE CertTypeOK' BY <1>12 DEF Expire, FilesType
<1>13. CASE Restart BY <1>13 DEF Restart
<1>14. CASE UNCHANGED certVars BY <1>14 DEF certVars
<1> QED BY <1>1, <1>2, <1>3, <1>4, <1>5, <1>6, <1>7, <1>8, <1>9, <1>10, <1>11, <1>12, <1>13, <1>14 DEF CertNext

-----------------------------------------------------------------------------
\* A thread that is not generating has nothing to keep.
LEMMA NotGenerating == ASSUME NEW t \in Threads, at'[t] \notin Generating PROVE Progress(t)'
  BY DEF Progress, Generating

\* While one thread generates no other does.
LEMMA Alone ==
  ASSUME CertificatesInv, NEW t \in Threads, at[t] \in Generating,
         NEW u \in Threads, u # t, at'[u] = at[u]
  PROVE  Progress(u)'
  BY NotGenerating DEF CertificatesInv, Progress

\* Whoever keeps the files, the mutex and the thread's own step keeps its progress.
LEMMA UnmovedByOthers ==
  ASSUME CertificatesInv, NEW t \in Threads,
         UNCHANGED <<fileVars, mutex>>, at'[t] = at[t], host'[t] = host[t], made'[t] = made[t]
  PROVE  Progress(t)'
  BY DEF CertificatesInv, Progress, fileVars

\* A step that no thread with the mutex takes: it changes no file, and it enters the part
\* with the mutex by Lock only.
LEMMA OutsideStep ==
  ASSUME CertificatesInv, NEW t \in Threads, at[t] \notin Generating,
         UNCHANGED <<fileVars, made, mutex>>, at'[t] \notin Generating,
         \A u \in Threads \ {t} : at'[u] = at[u] /\ host'[u] = host[u]
  PROVE  FilesMatch' /\ \A u \in Threads : Progress(u)'
<1>1. FilesMatch' BY DEF CertificatesInv, FilesMatch, fileVars
<1>2. Progress(t)' BY NotGenerating
<1>3. ASSUME NEW u \in Threads, u # t PROVE Progress(u)' BY <1>3, UnmovedByOthers
<1> QED BY <1>1, <1>2, <1>3

\* The steps of generate_host_certificate(), each for the files of its own host.
LEMMA GenerateStep ==
  ASSUME CertificatesInv, CertTypeOK', NEW t \in Threads,
         \/ MakeSane(t) \/ CheckCertificate(t) \/ UnlinkKey(t) \/ GenerateKey(t)
         \/ WriteKey(t) \/ IssueCertificate(t) \/ WriteCertificate(t)
  PROVE  FilesMatch' /\ \A u \in Threads : Progress(u)'
<1> DEFINE h == host[t]
<1> USE FilesTyped, FileFields DEF Goto, Release, Fails, fileVars
<1>0. /\ h \in Hosts /\ CertTypeOK /\ FilesMatch /\ Progress(t) /\ made[t] \in 0..MaxKeys
      /\ keyFile \in [Hosts -> FilesType] /\ certFile \in [Hosts -> FilesType]
      /\ at \in [Threads -> Steps]
  BY DEF CertificatesInv, CertTypeOK
<1>1. /\ at[t] \in Generating
      /\ \A u \in Threads \ {t} : at'[u] = at[u]
  BY <1>0 DEF MakeSane, CheckCertificate, UnlinkKey, GenerateKey, WriteKey, IssueCertificate,
              WriteCertificate, Generating
<1>2. \A u \in Threads \ {t} : Progress(u)' BY <1>1, Alone
<1>3. host' = host
  BY DEF MakeSane, CheckCertificate, UnlinkKey, GenerateKey, WriteKey, IssueCertificate,
         WriteCertificate
<1>4. ASSUME MakeSane(t) PROVE FilesMatch' /\ Progress(t)'
  <2>1. mutex = t /\ at \in [Threads -> Steps]
    BY <1>0, <1>4 DEF Progress, MakeSane, Generating
  <2>2. FilesMatch' BY <1>0, <1>4 DEF MakeSane, FilesMatch
  <2>3. Progress(t)'
    BY <1>0, <1>3, <1>4, <2>1 DEF MakeSane, Progress, Generating, Orphan
  <2> QED BY <2>2, <2>3
<1>5. ASSUME CheckCertificate(t) PROVE FilesMatch' /\ Progress(t)'
  <2>1. FilesMatch' BY <1>0, <1>5 DEF CheckCertificate, FilesMatch
  <2>2. Progress(t)' BY <1>0, <1>3, <1>5 DEF CheckCertificate, Progress, Generating
  <2> QED BY <2>1, <2>2
<1>6. ASSUME UnlinkKey(t) PROVE FilesMatch' /\ Progress(t)'
  <2>1. FilesMatch' BY <1>0, <1>6 DEF UnlinkKey, FilesMatch
  <2>2. Progress(t)' BY <1>0, <1>3, <1>6 DEF UnlinkKey, Progress, Generating
  <2> QED BY <2>1, <2>2
<1>7. ASSUME GenerateKey(t) PROVE FilesMatch' /\ Progress(t)'
  <2>1. FilesMatch' BY <1>0, <1>7 DEF GenerateKey, FilesMatch
  <2>2. Progress(t)' BY <1>0, <1>3, <1>7 DEF GenerateKey, Progress, Generating
  <2> QED BY <2>1, <2>2
<1>8. ASSUME WriteKey(t) PROVE FilesMatch' /\ Progress(t)'
  <2>1. certFile[h].state = "none" BY <1>0, <1>8 DEF WriteKey, Progress, Exists
  <2>2. FilesMatch' BY <1>0, <1>8, <2>1 DEF WriteKey, FilesMatch
  <2>3. Progress(t)' BY <1>0, <1>3, <1>8 DEF WriteKey, Progress, Generating
  <2> QED BY <2>2, <2>3
<1>9. ASSUME IssueCertificate(t) PROVE FilesMatch' /\ Progress(t)'
  <2>1. FilesMatch' BY <1>0, <1>9 DEF IssueCertificate, FilesMatch
  <2>2. Progress(t)' BY <1>0, <1>3, <1>9 DEF IssueCertificate, Progress, Generating
  <2> QED BY <2>1, <2>2
<1>10. ASSUME WriteCertificate(t) PROVE FilesMatch' /\ Progress(t)'
  <2>1. keyFile[h].state = "whole" => keyFile[h].key = made[t]
    BY <1>0, <1>10 DEF WriteCertificate, Progress
  <2>2. FilesMatch' BY <1>0, <1>10, <2>1 DEF WriteCertificate, FilesMatch
  <2>3. Progress(t)' BY <1>0, <1>3, <1>10 DEF WriteCertificate, Progress, Generating
  <2> QED BY <2>2, <2>3
<1> QED BY <1>2, <1>4, <1>5, <1>6, <1>7, <1>8, <1>9, <1>10

\* Every step keeps the invariant of the files.
LEMMA StepInv == CertificatesInv /\ [CertNext]_certVars => CertificatesInv'
<1> SUFFICES ASSUME CertificatesInv, [CertNext]_certVars
             PROVE  FilesMatch' /\ \A u \in Threads : Progress(u)'
  BY CertTypeInv DEF CertificatesInv
<1>0. CertTypeOK /\ CertTypeOK' BY CertTypeInv DEF CertificatesInv
<1> USE DEF Goto, Close
<1>1. ASSUME NEW t \in Threads,
             \/ AskForTls(t) \/ LoadCertificate(t) \/ LoadKey(t)
             \/ Handshake(t) \/ ConnectServer(t) \/ EndSession(t)
      PROVE  FilesMatch' /\ \A u \in Threads : Progress(u)'
  <2>1. /\ at[t] \notin Generating /\ at'[t] \notin Generating
        /\ UNCHANGED <<fileVars, made, mutex>>
        /\ \A u \in Threads \ {t} : at'[u] = at[u] /\ host'[u] = host[u]
    BY <1>0, <1>1 DEF CertTypeOK, AskForTls, LoadCertificate, LoadKey, Handshake, ConnectServer,
                      EndSession, Generating
  <2> QED BY <2>1, OutsideStep
<1>2. ASSUME NEW t \in Threads, Lock(t) PROVE FilesMatch' /\ \A u \in Threads : Progress(u)'
  <2>1. FilesMatch' BY <1>2 DEF Lock, CertificatesInv, FilesMatch, fileVars
  <2>2. Progress(t)' BY <1>0, <1>2 DEF Lock, Progress, Generating, CertTypeOK
  <2>3. ASSUME NEW u \in Threads, u # t PROVE Progress(u)'
    <3>1. at[u] \notin Generating
      BY <1>2, CertificatesAssumption DEF Lock, Free, CertificatesInv, Progress
    <3>2. at'[u] = at[u] BY <1>0, <1>2, <2>3 DEF Lock, CertTypeOK
    <3> QED BY <3>1, <3>2, NotGenerating
  <2> QED BY <2>1, <2>2, <2>3
<1>3. ASSUME NEW t \in Threads,
             \/ MakeSane(t) \/ CheckCertificate(t) \/ UnlinkKey(t) \/ GenerateKey(t)
             \/ WriteKey(t) \/ IssueCertificate(t) \/ WriteCertificate(t)
      PROVE  FilesMatch' /\ \A u \in Threads : Progress(u)'
  BY <1>0, <1>3, GenerateStep
<1>4. ASSUME NEW h \in Hosts, Expire(h) PROVE FilesMatch' /\ \A u \in Threads : Progress(u)'
  <2>1. certFile \in [Hosts -> FilesType] /\ certFile' = [certFile EXCEPT ![h].state = "expired"]
        /\ certFile[h].state = "whole"
    BY <1>0, <1>4 DEF CertTypeOK, Expire
  <2>2. /\ certFile'[h].key = certFile[h].key /\ certFile'[h].state = "expired"
        /\ \A g \in Hosts \ {h} : certFile'[g] = certFile[g]
    BY <2>1 DEF FilesType
  <2>3. UNCHANGED <<keyFile, keys, threadVars>> BY <1>4 DEF Expire
  <2>4. FilesMatch' BY <2>1, <2>2, <2>3 DEF CertificatesInv, FilesMatch
  <2>5. ASSUME NEW u \in Threads PROVE Progress(u)'
    <3>1. /\ Exists(certFile[host[u]])' <=> Exists(certFile[host[u]])
          /\ certFile[host[u]] = Part => certFile'[host'[u]] = Part
      BY <1>0, <2>1, <2>2, <2>3, FileFields DEF CertTypeOK, Exists, threadVars
    <3> QED BY <2>3, <3>1 DEF CertificatesInv, Progress, Exists, threadVars
  <2> QED BY <2>4, <2>5
<1>5. CASE Restart
  <2>1. \A u \in Threads : at'[u] \notin Generating BY <1>5 DEF Restart, Generating
  <2>2. FilesMatch' BY <1>5 DEF Restart, CertificatesInv, FilesMatch, fileVars
  <2> QED BY <2>1, <2>2, NotGenerating
<1>6. CASE UNCHANGED certVars
  BY <1>6, UnmovedByOthers DEF certVars, threadVars, fileVars, CertificatesInv, FilesMatch
<1> QED BY <1>1, <1>2, <1>3, <1>4, <1>5, <1>6 DEF CertNext

\* Whatever was interrupted and whichever threads asked for the host: two whole files of a
\* host belong together.
THEOREM FilesBelongTogether == CertSpec => []FilesMatch
<1>1. CertificatesInv => FilesMatch BY DEF CertificatesInv
<1> QED BY <1>1, CertInitInv, StepInv, PTL DEF CertSpec

\* generate_key() never finds a key: the question in generate_host_certificate() is
\* answered.
THEOREM KeyGenerationStartsFresh == CertSpec => []KeyIsNew
<1>1. CertificatesInv => KeyIsNew BY DEF CertificatesInv, Progress, KeyIsNew
<1> QED BY <1>1, CertInitInv, StepInv, PTL DEF CertSpec

\* The files, the mutex and the threads have the types they should have.
THEOREM CertificatesTypeCorrect == CertSpec => []CertTypeOK
<1>1. CertificatesInv => CertTypeOK BY DEF CertificatesInv
<1> QED BY <1>1, CertInitInv, StepInv, PTL DEF CertSpec
=============================================================================
