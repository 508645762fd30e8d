-------------------------- MODULE FilteringProofs --------------------------
(***************************************************************************)
(* Proofs about Filtering: for every response a server may send, every set *)
(* of actions and whatever fails on the way, the client gets the edited    *)
(* body under a head that describes it, every buffer is freed once, and no *)
(* cookie keeps a date it was to lose.                                     *)
(*                                                                         *)
(* Four conjuncts of the invariant follow the pointers through the buffers *)
(* of the heap (BuffersInv), the others what is told of the body in hand   *)
(* from the server's head to the client's (HeadInv, CookieInv).            *)
(***************************************************************************)
EXTENDS Filtering, NaturalsInduction, WellFoundedInduction, SequenceTheorems, TLAPS

\* The codings a body can have, on the way too.
Coding == {"chunked", "gzip", "deflate", "br", "compress", "sdch", "zstd"}

\* What an edit adds to a body.
Edit == Nat \X Nat

\* The bodies.
Body == [te : Seq(Coding), ce : Seq(Coding), edits : Seq(Nat \X Nat), size : Sizes, nul : BOOLEAN]

\* The names of buffers.
Names == 1..4

\* The last job of the filters that ran did not fail.
LastOK == "last job" \notin failed

\* The places before the first buffer is allocated.
Early == {"head", "prepare", "choose", "gif"}

\* The places of the program counter.
Places == Early \cup {"job", "external", "run", "compress", "send", "done", "gone"}

\* Type correctness.
TypeInv ==
  /\ at \in Places
  /\ {iob, size, length, sent} \subseteq Body
  /\ \A p \in DOMAIN heap : heap[p] \in Body
  /\ edits \in Seq(Nat \X Nat) /\ hits \in Nat /\ f \in Nat /\ j \in Nat
  /\ acts \in ActionSets

\* Which buffers there are: at most the filters' last copy and the result.
HeapInv ==
  /\ DOMAIN heap \subseteq {old, content} \cap Names
  /\ content \in DOMAIN heap \cup {0, IOB}
  /\ at \in Early \cup {"job"} => content = 0
  /\ at \in Early => DOMAIN heap = {} /\ strayed = {} /\ failed = {} /\ edits = <<>>
  /\ at = "job" =>
       /\ data = IOB /\ old \in Names \cup {IOB} /\ strayed = {}
       /\ DOMAIN heap = {old} \ {IOB}
       /\ new \in {0} \cup ({old} \ {IOB})
       /\ new = 0 /\ hits > 0 => ~LastOK
       /\ hits = 0 => edits = <<>>

\* While the last job did not fail there is nothing but the result in hand; from the external
\* filters on, the input may be the result only if all of them failed.
BalanceInv ==
  /\ at = "external" => content # IOB
  /\ at \in {"external", "run"} /\ LastOK => strayed = {} /\ DOMAIN heap = {content} \ {0, IOB}
  /\ at = "run" => content # 0 /\ acts.external # <<>>
  /\ at = "run" /\ content = IOB => f = 1 \/ "external" \in failed
  /\ at \in {"compress", "send"} /\ LastOK /\ ("external" \in failed => edits # <<>>)
       => strayed = {} /\ content # IOB /\ DOMAIN heap = {content} \ {0}

\* The body in hand has all edits made so far, and its length is the one kept.
EditsInv ==
  /\ iob.edits = <<>>
  /\ at = "job" => At(old) = size /\ size.edits = edits
  /\ at \notin {"job", "done", "gone"} /\ content \in {0, IOB} => edits = <<>> \/ ~LastOK
  /\ at \in {"external", "compress", "send"} /\ content # 0 => At(content) = length
  /\ at = "run" => At(content) = size
  /\ at \in {"external", "run", "compress", "send"} /\ content # 0 /\ LastOK =>
       At(content).edits = edits
  /\ at \in Early \cup {"job", "external", "compress"} /\ content = 0 => length = Nothing
  /\ at = "done" => length \in {Nothing, sent} /\ (LastOK => sent.edits = edits)

(* the head *)

\* The part of the invariant that is about the buffers.
BuffersInv == TypeInv /\ HeapInv /\ BalanceInv /\ EditsInv

-----------------------------------------------------------------------------
(* What the head tells.                                                    *)

\* What sed() and update_server_headers() work on.
Shape(t) == t = [head |-> t.head, status |-> t.status, type |-> t.type, flags |-> t.flags]

\* The user did not remove the header that tells the transfer codings.
TEKept == acts.crunch # "Transfer-Encoding"

\* So for the content coding.
CEKept == acts.crunch # "Content-Encoding"

\* What the head h tells of the codings cs.
ToldIn(t, name) == IF Has(t, name) THEN t.head[name] ELSE <<>>

\* The codings that update_server_headers() will leave in the head, if nothing more happens to
\* the body.
LaterCE(t) ==
  IF "Modified" \in t.flags /\ t.type \cap Compressed # {}
  THEN <<>> ELSE ToldIn(t, "Content-Encoding")

\* So for the transfer codings.
LaterTE(t) ==
  IF "Modified" \in t.flags /\ "chunked" \in ToSet(ToldIn(t, "Transfer-Encoding"))
  THEN <<>> ELSE ToldIn(t, "Transfer-Encoding")

\* The codings of the body in hand are those the client will be told.
Coded(t, b) ==
  /\ TEKept => b.te = LaterTE(t)
  /\ CEKept => b.ce = IF "Deflated" \in t.flags THEN Append(LaterCE(t), "deflate") ELSE LaterCE(t)

\* The body is as the server sent it.
UnreadInv == at \in {"head", "prepare"} => iob \in Unread

\* The head is as the server sent it.
StartInv ==
  at = "head" =>
    /\ Shape(s) /\ s.type = {}
    /\ {"Modified", "Deflated", "Chunked", "ServerLength"} \cap s.flags = {}
    /\ method # "HEAD" => Describes(s.head, iob)
    /\ Has(s, "Set-Cookie") => s.head["Set-Cookie"] \in Seq({"over", "soon", "late", "unreadable"})

\* After sed(): the flags say what the head says.
ToldInv ==
  at \notin {"head", "done", "gone"} =>
    /\ Shape(s)
    /\ "ServerLength" \in s.flags => acts.crunch = "Content-Length" \/ Has(s, "Content-Length")
    /\ at # "send" => "Deflated" \notin s.flags
    /\ method # "HEAD" =>
       /\ TEKept => ("Chunked" \in s.flags <=> "chunked" \in ToSet(ToldIn(s, "Transfer-Encoding")))
       /\ TEKept /\ ~acts.forceText => "gzip" \notin ToSet(ToldIn(s, "Transfer-Encoding"))
       /\ CEKept /\ Has(s, "Content-Encoding") => s.head["Content-Encoding"] # <<>>

\* A body that was not modified has the length the server told.
LengthInv ==
  at \notin {"head", "done", "gone"} =>
    /\ at # "send" => ~iob.nul
    /\ "Modified" \notin s.flags =>
         /\ at # "run" => content = 0
         /\ method # "HEAD" /\ Has(s, "Content-Length") =>
              s.head["Content-Length"] = Bytes(iob) \/ iob.nul

\* Before execute_content_filters(): the head tells the body's codings, and the flags and type
\* bits the codings to remove.
PreparedInv ==
  at = "prepare" =>
    /\ "Modified" \notin s.flags
    /\ method # "HEAD" =>
       /\ "Chunked" \in s.flags <=> iob.te # <<>> /\ Last(iob.te) = "chunked"
       /\ TEKept => ToldIn(s, "Transfer-Encoding") = iob.te
       /\ CEKept => ToldIn(s, "Content-Encoding") = iob.ce
       /\ ~acts.forceText =>
            /\ iob.te \in {<<>>, <<"chunked">>}
            /\ iob.ce \in {<<>>, <<"zstd">>, <<"gzip">>, <<"deflate">>, <<"br">>}
            /\ s.type \cap Compressed # {} <=> iob.ce \in {<<"gzip">>, <<"deflate">>, <<"br">>}

\* Filters see a body without chunks and without a coding Privoxy knows, and once one was
\* removed the body is marked as modified.
WorkInv ==
  at \in {"choose", "job", "gif", "external", "run", "compress"} =>
    /\ s.type \cap Compressed # {} \/ "Chunked" \in s.flags => "Modified" \in s.flags
    /\ method # "HEAD" /\ CEKept /\ ~acts.forceText => LaterCE(s) \in {<<>>, <<"zstd">>}

\* The body in hand, and without one that of the buffer, has the codings told.
CodedInv ==
  at \in {"choose", "job", "gif", "external", "run", "compress", "send"}
  /\ method # "HEAD" /\ ~acts.forceText =>
    /\ content \in {0, IOB} => Coded(s, iob)
    /\ content \notin {0, IOB} => Coded(s, At(content))
    /\ at = "job" => Coded(s, At(old))

\* A client that stays is told an end other than that of chunks that are gone.
SendInv ==
  at = "send" =>
    /\ method # "HEAD" /\ {"Chunked", "ClientKeepAlive"} \subseteq s.flags => "Modified" \in s.flags
    /\ method # "HEAD" /\ ~acts.forceText /\ CEKept /\ "Deflated" \in s.flags =>
         LaterCE(s) \in {<<>>, <<"zstd">>}

\* The client was told what it was sent, or the connection is closed.
DoneInv ==
  at = "done" => HeadFitsBody /\ KeptClientFindsEnd

\* The part of the invariant that is about the head and the body.
HeadInv ==
  /\ StartInv /\ ToldInv /\ LengthInv /\ PreparedInv
  /\ WorkInv /\ CodedInv /\ SendInv /\ DoneInv

\* sed() has limited the cookies.
CookieInv == at # "head" /\ Has(s, "Set-Cookie") /\ (acts.limitCookies \/ acts.sessionCookies) =>
    /\ ToSet(s.head["Set-Cookie"]) \cap {"late", "unreadable"} = {}
    /\ acts.limitCookies => s.head["Set-Cookie"] # <<>>

\* The inductive invariant.
FilteringInv == BuffersInv /\ UnreadInv /\ HeadInv /\ CookieInv /\ MemoryBalanced

-----------------------------------------------------------------------------
(* Sequences.                                                              *)

\* The order on the natural numbers, as the theorems on well-founded relations want it.
LEMMA Smaller == \A i, k \in Nat : <<k, i>> \in OpToRel(<, Nat) <=> k < i
  BY DEF OpToRel

\* Every nonempty set of natural numbers has a least element: what stands in for induction.
LEMMA LeastElement ==
  ASSUME NEW S, S \subseteq Nat, S # {}
  PROVE  \E i \in S : \A k \in S : i <= k
<1>1. PICK i \in S : \A k \in S : ~ (<<k, i>> \in OpToRel(<, Nat))
  BY NatLessThanWellFounded, WFMin
<1>2. \A k \in S : ~ (k < i)
  BY <1>1, Smaller
<1> QED
  BY <1>2

\* Keep() keeps members of T only, and the last one if it is one of them.
LEMMA KeepOnly ==
  ASSUME NEW S, NEW seq \in Seq(S), NEW T
  PROVE  /\ Keep(seq, T) \in Seq(T)
         /\ seq # <<>> /\ Last(seq) \in T => Keep(seq, T) # <<>>
<1> DEFINE n == Len(seq)
           IsTaken(g, k) ==
             g = [i \in 0..k |-> IF i = 0 THEN <<>>
                                 ELSE IF seq[i] \in T THEN Append(g[i - 1], seq[i]) ELSE g[i - 1]]
<1>1. n \in Nat
  OBVIOUS
<1> HIDE DEF n
<1>2. \E g : IsTaken(g, n)
  <2> DEFINE bad == {k \in Nat : ~ \E g : IsTaken(g, k)}
  <2>1. SUFFICES ASSUME bad # {} PROVE FALSE
    BY <1>1
  <2>2. PICK k \in bad : \A i \in bad : k <= i
    BY <2>1, LeastElement
  <2>3. CASE k = 0
    <3> DEFINE g == [i \in 0..0 |-> <<>>]
    <3>1. IsTaken(g, 0)
      OBVIOUS
    <3> QED
      BY <2>2, <2>3, <3>1
  <2>4. CASE k # 0
    <3>1. k \in Nat /\ k - 1 \in Nat /\ ~(k <= k - 1)
      BY <2>2, <2>4
    <3>2. PICK g : IsTaken(g, k - 1)
      BY <2>2, <3>1
    <3> DEFINE h == [i \in 0..k |-> IF i < k THEN g[i]
                                    ELSE IF seq[k] \in T THEN Append(g[k - 1], seq[k])
                                           ELSE g[k - 1]]
    <3>3. DOMAIN g = 0..(k - 1) /\ \A i \in 0..(k - 1) :
            g[i] = IF i = 0 THEN <<>> ELSE IF seq[i] \in T THEN Append(g[i - 1], seq[i])
              ELSE g[i - 1]
      BY <3>2
    <3>4. ASSUME NEW i \in 0..k
          PROVE  h[i] = IF i = 0 THEN <<>>
                   ELSE IF seq[i] \in T THEN Append(h[i - 1], seq[i]) ELSE h[i - 1]
      <4>1. CASE i = 0
        BY <4>1, <3>1, <3>3, <2>4
      <4>2. CASE i # 0 /\ i < k
        <5>1. i - 1 \in 0..k /\ i - 1 < k /\ i \in 0..(k - 1)
          BY <4>2, <3>1
        <5>2. h[i - 1] = g[i - 1] /\ h[i] = g[i]
          BY <4>2, <5>1
        <5> QED
          BY <3>3, <4>2, <5>1, <5>2
      <4>3. CASE i = k
        <5>1. h[k - 1] = g[k - 1]
          BY <3>1
        <5> QED
          BY <4>3, <5>1, <2>4, <3>1
      <4> QED
        BY <4>1, <4>2, <4>3, <3>1
    <3>5. IsTaken(h, k)
      <4> DEFINE hh == [i \in 0..k |-> IF i = 0 THEN <<>>
                       ELSE IF seq[i] \in T THEN Append(h[i - 1], seq[i]) ELSE h[i - 1]]
      <4>1. \A i \in 0..k : h[i] = hh[i]
        BY <3>4
      <4>2. h = hh
        BY <4>1
      <4> QED
        BY <4>2
    <3> QED
      BY <2>2, <3>5
  <2> QED
    BY <2>3, <2>4
<1> DEFINE Taken[i \in 0..n] ==
        IF i = 0 THEN <<>> ELSE IF seq[i] \in T THEN Append(Taken[i - 1], seq[i]) ELSE Taken[i - 1]
<1>3. Keep(seq, T) = Taken[n]
  BY DEF Keep, n
<1>4. IsTaken(Taken, n)
  BY <1>2
<1> HIDE DEF Taken
<1>5. \A i \in 0..n : Taken[i] = IF i = 0 THEN <<>>
                        ELSE IF seq[i] \in T THEN Append(Taken[i - 1], seq[i]) ELSE Taken[i - 1]
  BY <1>4
<1> HIDE DEF IsTaken
<1>6. \A i \in 0..n : Taken[i] \in Seq(T)
  <2> DEFINE bad == {i \in 0..n : Taken[i] \notin Seq(T)}
  <2>1. SUFFICES ASSUME bad # {} PROVE FALSE
    OBVIOUS
  <2>2. bad \subseteq Nat
    BY <1>1
  <2>3. \E i \in bad : \A k \in bad : i <= k
    <3> HIDE DEF bad
    <3> QED
      BY <2>1, <2>2, LeastElement
  <2>4. PICK i \in bad : \A k \in bad : i <= k
    BY <2>3
  <2>5. CASE i = 0
    <3>1. Taken[0] = <<>> /\ <<>> \in Seq(T)
      BY <1>1, <1>5
    <3> QED
      BY <2>4, <2>5, <3>1
  <2>6. CASE i # 0
    <3>1. i - 1 \in 0..n /\ ~(i <= i - 1) /\ i \in 1..n /\ i \in 0..n
      BY <2>4, <2>6, <1>1
    <3>2. Taken[i - 1] \in Seq(T)
      BY <2>4, <3>1
    <3>3. Taken[i] = IF seq[i] \in T THEN Append(Taken[i - 1], seq[i]) ELSE Taken[i - 1]
      BY <2>6, <3>1, <1>5
    <3>4. Taken[i] \in Seq(T)
      BY <3>2, <3>3
    <3> QED
      BY <2>4, <3>4
  <2> QED
    BY <2>5, <2>6
<1>7. ASSUME seq # <<>>, Last(seq) \in T PROVE Taken[n] # <<>>
  <2>1. n \in 1..n /\ n \in 0..n /\ n - 1 \in 0..n /\ n # 0
    BY <1>1, <1>7 DEF n
  <2>2. seq[n] \in T
    BY <1>7 DEF Last, n
  <2>3. Taken[n] = Append(Taken[n - 1], seq[n]) /\ Taken[n - 1] \in Seq(T)
    BY <2>1, <2>2, <1>5, <1>6
  <2>4. Len(Taken[n]) = Len(Taken[n - 1]) + 1 /\ Len(Taken[n - 1]) \in Nat
    BY <2>2, <2>3
  <2>5. Len(<<>>) = 0
    OBVIOUS
  <2> QED
    BY <2>4, <2>5
<1> QED
  BY <1>1, <1>3, <1>6, <1>7

\* Appending keeps the type.
LEMMA Appended ==
  ASSUME NEW es \in Seq(Edit), NEW e \in Edit
  PROVE  Append(es, e) \in Seq(Edit) /\ Append(es, e) # <<>>
<1>1. Append(es, e) \in Seq(Edit) /\ Len(Append(es, e)) = Len(es) + 1 /\ Len(es) \in Nat
  OBVIOUS
<1>2. Len(Append(es, e)) # 0
  BY <1>1
<1>3. Len(<<>>) = 0
  OBVIOUS
<1> QED
  BY <1>1, <1>2, <1>3

\* Sequences spelled out.
LEMMA Appends ==
  ASSUME NEW x, NEW y
  PROVE  Append(<<>>, x) = <<x>> /\ Append(<<x>>, y) = <<x, y>>
<1> DEFINE a == Append(<<x>>, y)
           b == <<x, y>>
<1>1. <<x>> \in Seq({x, y}) /\ Len(<<x>>) = 1
  OBVIOUS
<1>2. a \in Seq({x, y}) /\ Len(a) = 2 /\ a[1] = x /\ a[2] = y
  BY <1>1
<1>3. b \in Seq({x, y}) /\ Len(b) = 2 /\ b[1] = x /\ b[2] = y
  OBVIOUS
<1> HIDE DEF a, b
<1>4. a = b
  BY <1>2, <1>3, SeqEqual
<1> QED
  BY <1>4 DEF a, b

\* What is left of the transfer codings when the last one is removed.
LEMMA FrontTypes == \A t \in Transfers : Front(t) \in Seq(Coding)
<1>1. {"gzip", "chunked"} \subseteq Coding
    BY DEF Coding
<1>2. /\ Front(<<>>) = <<>> /\ Front(<<"gzip">>) = <<>> /\ Front(<<"chunked">>) = <<>>
      /\ Front(<<"gzip", "chunked">>) = <<"gzip">>
  <2>1. Front(<<>>) = <<>>
    BY DEF Front
  <2>2. Front(<<"gzip">>) = <<>>
    BY DEF Front
  <2>3. Front(<<"gzip", "chunked">>) = <<"gzip">>
    <3> DEFINE gc == <<"gzip", "chunked">>
               x == Front(gc)
    <3>1. Len(gc) = 2 /\ gc[1] = "gzip" /\ gc \in Seq({"gzip", "chunked"})
      OBVIOUS
    <3> HIDE DEF gc
    <3>2. x = SubSeq(gc, 1, 1)
      BY <3>1 DEF Front
    <3>3. x \in Seq({"gzip", "chunked"}) /\ Len(x) = 1 /\ x[1] = "gzip"
      BY <3>1, <3>2, SubSeqProperties
    <3>4. x = <<"gzip">>
      BY <3>3
    <3> QED
      BY <3>4 DEF gc
  <2> QED
    BY <2>1, <2>2, <2>3 DEF Front
<1>3. <<>> \in Seq(Coding) /\ <<"gzip">> \in Seq(Coding)
  BY <1>1
<1> QED
  BY <1>2, <1>3 DEF Transfers

\* Chunks were added last, and without gzip there is nothing but chunks.
LEMMA TransferFacts ==
  \A te \in Transfers :
    /\ "chunked" \in ToSet(te) <=> te # <<>> /\ Last(te) = "chunked"
    /\ "gzip" \notin ToSet(te) => te \in {<<>>, <<"chunked">>}
<1>1. ToSet(<<>>) = {}
  BY DEF ToSet
<1>2. \A x : ToSet(<<x>>) = {x} /\ <<x>> # <<>> /\ Last(<<x>>) = x
  BY DEF ToSet, Last
<1>3. /\ ToSet(<<"gzip", "chunked">>) = {"gzip", "chunked"}
      /\ <<"gzip", "chunked">> # <<>> /\ Last(<<"gzip", "chunked">>) = "chunked"
  <2> DEFINE gc == <<"gzip", "chunked">>
  <2>1. DOMAIN gc = {1, 2} /\ gc[1] = "gzip" /\ gc[2] = "chunked" /\ Len(gc) = 2
    OBVIOUS
  <2> HIDE DEF gc
  <2>2. ToSet(gc) = {"gzip", "chunked"} /\ gc # <<>> /\ Last(gc) = "chunked"
    BY <2>1 DEF ToSet, Last
  <2> QED
    BY <2>2 DEF gc
<1>4. TAKE te \in Transfers
<1>5. CASE te = <<>>
  BY <1>1, <1>5
<1>6. CASE te = <<"chunked">>
  BY <1>2, <1>6
<1>7. CASE te = <<"gzip">>
  <2>1. ToSet(te) = {"gzip"} /\ Last(te) = "gzip"
    BY <1>2, <1>7
  <2> QED
    BY <2>1
<1>8. CASE te = <<"gzip", "chunked">>
  BY <1>3, <1>8
<1> QED
  BY <1>5, <1>6, <1>7, <1>8 DEF Transfers

\* The content codings Privoxy removes.
Known == {<<"gzip">>, <<"deflate">>, <<"br">>}

\* The type bits of a content coding tell whether Privoxy removes it.
LEMMA CodingFacts ==
  \A ce \in Codings : ce # <<>> =>
    LET bits == CodingBits[Last(ce)] IN
    /\ "TABOO" \notin bits => ce \in Known \cup {<<"zstd">>}
    /\ "TABOO" \notin bits => (bits \cap Compressed # {} <=> ce \in Known)
<1>1. DOMAIN CodingBits = {"gzip", "deflate", "br", "compress", "sdch", "zstd"}
  BY DEF CodingBits
<1>2. TAKE ce \in Codings
<1> DEFINE bits == CodingBits[Last(ce)]
           Goal == /\ "TABOO" \notin bits => ce \in Known \cup {<<"zstd">>}
                   /\ "TABOO" \notin bits => (bits \cap Compressed # {} <=> ce \in Known)
<1>3. SUFFICES ASSUME ce # <<>> PROVE Goal
  OBVIOUS
<1>4. PICK c \in DOMAIN CodingBits : ce = <<c>>
  BY <1>3 DEF Codings
<1>5. bits = CodingBits[c]
  BY <1>4 DEF Last
<1> HIDE DEF bits
<1>6. CASE c \in {"gzip", "deflate", "br"}
  <2>1. ce \in Known
    BY <1>4, <1>6 DEF Known
  <2>2. CodingBits[c] \cap Compressed # {}
    BY <1>6 DEF CodingBits, Compressed
  <2> QED
    BY <1>5, <2>1, <2>2
<1>7. CASE c \in {"compress", "sdch"}
  <2>1. "TABOO" \in bits
    BY <1>5, <1>7 DEF CodingBits
  <2> QED
    BY <2>1
<1>8. CASE c = "zstd"
  <2>1. bits = {}
    BY <1>5, <1>8 DEF CodingBits
  <2>2. ce[1] = "zstd" /\ ce = <<"zstd">>
    BY <1>4, <1>8
  <2>3. ce \notin Known
    <3>1. \A k \in Known : k[1] # "zstd"
      BY DEF Known
    <3> QED
      BY <2>2, <3>1
  <2> QED
    BY <2>1, <2>2, <2>3
<1> QED
  BY <1>1, <1>6, <1>7, <1>8

-----------------------------------------------------------------------------
(* Heads: what one edit changes.                                           *)

\* Crunching a header changes no other.
LEMMA CrunchedHead ==
  ASSUME NEW t, Shape(t), NEW name
  PROVE  LET u == Crunched(t, name) IN
         /\ Shape(u) /\ u.flags = t.flags /\ u.type = t.type /\ u.status = t.status
         /\ DOMAIN u.head = DOMAIN t.head \ {name}
         /\ \A n \in DOMAIN t.head \ {name} : u.head[n] = t.head[n]
<1> DEFINE h == Restrict(t.head, DOMAIN t.head \ {name})
           u == Crunched(t, name)
<1>1. u = [t EXCEPT !.head = h]
  BY DEF Crunched
<1>2. DOMAIN h = DOMAIN t.head \ {name} /\ \A n \in DOMAIN t.head \ {name} : h[n] = t.head[n]
  BY DEF Restrict
<1> HIDE DEF h, u
<1>3. Shape(u) /\ u.flags = t.flags /\ u.type = t.type /\ u.status = t.status /\ u.head = h
  BY <1>1 DEF Shape
<1> QED
  BY <1>2, <1>3 DEF u

\* Nor does adding or rewriting one.
LEMMA SaysHead ==
  ASSUME NEW t, Shape(t), NEW name, NEW v
  PROVE  LET u == Says(t, name, v) IN
         /\ Shape(u) /\ u.flags = t.flags /\ u.type = t.type /\ u.status = t.status
         /\ DOMAIN u.head = DOMAIN t.head \cup {name}
         /\ u.head[name] = v
         /\ \A n \in DOMAIN t.head \ {name} : u.head[n] = t.head[n]
<1> DEFINE h == [n \in DOMAIN t.head \cup {name} |-> IF n = name THEN v ELSE t.head[n]]
           u == Says(t, name, v)
<1>1. u = [t EXCEPT !.head = h]
  BY DEF Says
<1>2. /\ DOMAIN h = DOMAIN t.head \cup {name} /\ h[name] = v
      /\ \A n \in DOMAIN t.head \ {name} : h[n] = t.head[n]
  OBVIOUS
<1> HIDE DEF h, u
<1>3. Shape(u) /\ u.flags = t.flags /\ u.type = t.type /\ u.status = t.status /\ u.head = h
  BY <1>1 DEF Shape
<1> QED
  BY <1>2, <1>3 DEF u

\* Nor does raising a flag.
LEMMA RaisedHead ==
  ASSUME NEW t, Shape(t), NEW flag
  PROVE  LET u == Raised(t, flag) IN
         /\ Shape(u) /\ u.flags = t.flags \cup {flag} /\ u.type = t.type /\ u.status = t.status
         /\ u.head = t.head
BY DEF Shape, Raised

\* The headers N are the same in two heads.
Same(t, u, N) == \A n \in N : /\ Has(u, n) <=> Has(t, n)
                              /\ Has(t, n) => u.head[n] = t.head[n]

\* The marks ms are the same in two heads.
SameMarks(t, u) == \A m \in {"Modified", "Deflated", "Chunked", "ServerLength"} :
    m \in u.flags <=> m \in t.flags

\* The type bits of two type sets that count here are the same.
SameBits(t, u)  == \A b \in Compressed \cup {"TABOO"} : b \in u.type <=> b \in t.type

\* The headers, flags and type bits that decide about the body and its end, and the cookies.
Watched == {"Content-Encoding", "Transfer-Encoding", "Content-Length", "Set-Cookie"}

\* Nothing watched differs.
Neutral(t, u) == Shape(u) /\ Same(t, u, Watched) /\ SameMarks(t, u) /\ SameBits(t, u)

\* Neutral steps compose.
LEMMA NeutralTrans ==
  ASSUME NEW t, NEW u, NEW v, Neutral(t, u), Neutral(u, v)
  PROVE  Neutral(t, v)
BY DEF Neutral, Same, SameMarks, SameBits

\* Doing nothing is neutral.
LEMMA NeutralSelf ==
  ASSUME NEW t, Shape(t)
  PROVE  Neutral(t, t)
BY DEF Neutral, Same, SameMarks, SameBits

\* Edits of other headers, and other flags, are neutral.
LEMMA NeutralEdits ==
  ASSUME NEW t, Shape(t), NEW name, name \notin Watched, NEW v,
         NEW flag, flag \notin {"Modified", "Deflated", "Chunked", "ServerLength"}
  PROVE  /\ Neutral(t, Crunched(t, name))
         /\ Neutral(t, Says(t, name, v))
         /\ Neutral(t, Raised(t, flag))
<1>1. Neutral(t, Crunched(t, name))
  <2> DEFINE u == Crunched(t, name)
  <2>1. Shape(u) /\ u.flags = t.flags /\ u.type = t.type
         /\ DOMAIN u.head = DOMAIN t.head \ {name}
         /\ \A n \in DOMAIN t.head \ {name} : u.head[n] = t.head[n]
    BY CrunchedHead
  <2> HIDE DEF u
  <2>2. Neutral(t, u)
    BY <2>1 DEF Neutral, Same, SameMarks, SameBits, Has
  <2> QED
    BY <2>2 DEF u
<1>2. Neutral(t, Says(t, name, v))
  <2> DEFINE u == Says(t, name, v)
  <2>1. Shape(u) /\ u.flags = t.flags /\ u.type = t.type
         /\ DOMAIN u.head = DOMAIN t.head \cup {name}
         /\ \A n \in DOMAIN t.head \ {name} : u.head[n] = t.head[n]
    BY SaysHead
  <2> HIDE DEF u
  <2>2. Neutral(t, u)
    BY <2>1 DEF Neutral, Same, SameMarks, SameBits, Has
  <2> QED
    BY <2>2 DEF u
<1>3. Neutral(t, Raised(t, flag))
  <2> DEFINE u == Raised(t, flag)
  <2>1. Shape(u) /\ u.flags = t.flags \cup {flag} /\ u.type = t.type /\ u.head = t.head
    BY RaisedHead
  <2> HIDE DEF u
  <2>2. Neutral(t, u)
    BY <2>1 DEF Neutral, Same, SameMarks, SameBits, Has
  <2> QED
    BY <2>2 DEF u
<1> QED
  BY <1>1, <1>2, <1>3

\* So are the handlers that do nothing but that.
LEMMA NeutralHandlers ==
  ASSUME NEW t, Shape(t), NEW a \in ActionSets
  PROVE  /\ Neutral(t, server_connection(t))
         /\ Neutral(t, server_keep_alive(t))
         /\ Neutral(t, server_proxy_connection(t))
         /\ Neutral(t, server_content_disposition(t, a))
         /\ Neutral(t, server_last_modified(t, a))
         /\ Neutral(t, proxy_authentication(t, a))
         /\ Neutral(t, server_content_md5(t))
         /\ Neutral(t, server_connection_adder(t))
         /\ Neutral(t, server_proxy_connection_adder(t))
         /\ Neutral(t, server_content_type(t, a))
         /\ Neutral(t, LengthIgnoredWhenChunked(t))
<1> USE DEF When
<1> DEFINE Others == {"Connection", "Keep-Alive", "Proxy-Connection", "Content-Disposition",
                      "Last-Modified", "Proxy-Authenticate", "Content-MD5", "Content-Type", "HTTP"}
           Flags == {"ServerKeepAlive", "ConnectionSet", "TimeoutSet", "ProxyConnectionSet"}
<1>1. \A u : Shape(u) => /\ Neutral(u, u)
                         /\ \A n \in Others : \A v : Neutral(u, Says(u, n, v))
                         /\ \A n \in Others : Neutral(u, Crunched(u, n))
                         /\ \A flag \in Flags : Neutral(u, Raised(u, flag))
  <2>1. \A n \in Others : n \notin Watched
    BY DEF Watched
  <2>2. \A flag \in Flags : flag \notin {"Modified", "Deflated", "Chunked", "ServerLength"}
    OBVIOUS
  <2> HIDE DEF Others, Flags
  <2>3. TAKE u
  <2>4. SUFFICES ASSUME Shape(u)
                 PROVE /\ Neutral(u, u)
                       /\ \A n \in Others : \A v : Neutral(u, Says(u, n, v))
                       /\ \A n \in Others : Neutral(u, Crunched(u, n))
                       /\ \A flag \in Flags : Neutral(u, Raised(u, flag))
    OBVIOUS
  <2>5. "other" \notin {"Modified", "Deflated", "Chunked", "ServerLength"} /\ "other" \notin Watched
    BY DEF Watched
  <2> QED
    BY <2>1, <2>2, <2>4, <2>5, NeutralEdits, NeutralSelf
<1>2. /\ {"Connection", "Keep-Alive", "Proxy-Connection", "Content-Disposition",
          "Last-Modified", "Proxy-Authenticate", "Content-MD5", "Content-Type", "HTTP"}
           \subseteq Others
      /\ {"ServerKeepAlive", "ConnectionSet", "TimeoutSet", "ProxyConnectionSet"} \subseteq Flags
  OBVIOUS
<1>3. \A u, v, w : Neutral(u, v) /\ Neutral(v, w) => Neutral(u, w)
  BY NeutralTrans
<1>4. \A u, v : Neutral(u, v) => Shape(v)
  BY DEF Neutral
<1> HIDE DEF Others, Flags
<1>5. Neutral(t, server_connection(t))
  <2> DEFINE alive == t.head["Connection"] = "keep-alive" /\ "Tainted" \notin t.flags
             kept  == When(alive, Raised(t, "ServerKeepAlive"), t)
             told  == When(alive /\
                      "ClientKeepAlive" \notin t.flags, Says(kept, "Connection", "close"), kept)
  <2>1. Neutral(t, kept)
    BY <1>1, <1>2
  <2> HIDE DEF kept
  <2>2. Neutral(t, told)
    BY <2>1, <1>1, <1>2, <1>3, <1>4
  <2> HIDE DEF told
  <2>3. Neutral(t, Raised(told, "ConnectionSet"))
    BY <2>2, <1>1, <1>2, <1>3, <1>4
  <2>4. Neutral(t, IF Has(t, "Connection") THEN Raised(told, "ConnectionSet") ELSE t)
    BY <2>3, <1>1
  <2> QED
    BY <2>4 DEF server_connection, told, kept
<1>6. Neutral(t, server_keep_alive(t))
  <2>1. Neutral(t, Raised(Crunched(t, "Keep-Alive"), "TimeoutSet"))
    BY <1>1, <1>2, <1>3, <1>4
  <2> QED
    BY <2>1, <1>1 DEF server_keep_alive
<1>7. Neutral(t, server_proxy_connection(t))
  BY <1>1, <1>2 DEF server_proxy_connection
<1>8. \A name \in {"Content-Disposition", "Last-Modified"}, how \in {"keep", "block", "replace"} :
        Neutral(t, Hidden(t, name, how))
  BY <1>1, <1>2 DEF Hidden
<1>9. Neutral(t, proxy_authentication(t, a))
  BY <1>1, <1>2 DEF proxy_authentication
<1>10. Neutral(t, server_content_md5(t))
  BY <1>1, <1>2 DEF server_content_md5
<1>11. Neutral(t, server_connection_adder(t))
  BY <1>1, <1>2 DEF server_connection_adder
<1>12. Neutral(t, server_proxy_connection_adder(t))
  BY <1>1, <1>2 DEF server_proxy_connection_adder
<1>13. Neutral(t, server_content_type(t, a))
  <2> DEFINE types == t.head["Content-Type"]
             more == {"DECLARED"} \cup (IF "TABOO" \in t.type THEN {}
                     ELSE {types[1]} \cap {"TEXT", "GIF"})
             typed == [t EXCEPT !.type = t.type \cup more]
  <2>1. more \subseteq {"DECLARED", "TEXT", "GIF"}
    OBVIOUS
  <2> HIDE DEF more
  <2>2. Neutral(t, typed)
    <3>1. Shape(typed) /\ typed.head = t.head /\ typed.flags = t.flags /\
            typed.type = t.type \cup more
      BY DEF Shape
    <3> HIDE DEF typed
    <3> QED
      BY <2>1, <3>1 DEF Neutral, Same, SameMarks, SameBits, Has, Compressed
  <2> HIDE DEF typed
  <2>3. \A v : Neutral(t, Says(typed, "Content-Type", v))
    BY <2>2, <1>1, <1>2, <1>3, <1>4
  <2> QED
    BY <2>3, <1>1 DEF server_content_type, typed, more
<1>14. Neutral(t, LengthIgnoredWhenChunked(t))
  <2> DEFINE u == [t EXCEPT !.flags = t.flags \ {"LengthKnown"}]
  <2>1. Shape(u) /\ u.head = t.head /\ u.type = t.type /\ u.flags = t.flags \ {"LengthKnown"}
    BY DEF Shape
  <2> HIDE DEF u
  <2>2. Neutral(t, u)
    BY <2>1 DEF Neutral, Same, SameMarks, SameBits, Has
  <2> QED
    BY <2>2, <1>1 DEF LengthIgnoredWhenChunked, u
<1>15. Neutral(t, server_content_disposition(t, a)) /\ Neutral(t, server_last_modified(t, a))
  <2>1. {a.disposition, a.lastModified} \subseteq {"keep", "block", "replace"}
    BY FilteringAssumption
  <2> QED
    BY <1>8, <2>1 DEF server_content_disposition, server_last_modified
<1> QED
  BY <1>5, <1>6, <1>7, <1>9, <1>10, <1>11, <1>12, <1>13, <1>14, <1>15

-----------------------------------------------------------------------------
(* Heads: sed() and update_server_headers().                               *)

\* The dates that server_set_cookie() was to limit.
Unlimited == {"late", "unreadable"}

\* server_set_cookie_dates() leaves no date beyond the limit and none it could not read, and
\* at least one if there is a limit.
LEMMA DatesLimited ==
  ASSUME NEW a, NEW dates \in Seq({"over", "soon", "late", "unreadable"})
  PROVE  LET r == server_set_cookie_dates(dates, a) IN
         /\ ToSet(r) \cap Unlimited = {}
         /\ a.limitCookies => r # <<>>
<1> DEFINE T == Passing(a.limitCookies)
           rest == Keep(dates, T)
           r == server_set_cookie_dates(dates, a)
           Fine == {"over", "soon", "limit"}
<1>1. /\ rest \in Seq(T)
      /\ dates # <<>> /\ Last(dates) \in T => rest # <<>>
  BY KeepOnly
<1>2. T \subseteq Fine /\ "limit" \in Fine /\ Fine \cap Unlimited = {}
  BY DEF Passing, Unlimited
<1>3. rest \in Seq(Fine)
  BY <1>1, <1>2, SeqMonotonic
<1>4. \/ r = rest /\ (a.limitCookies => dates # <<>> /\ Last(dates) \in T)
      \/ r = Append(rest, "limit")
  BY DEF server_set_cookie_dates
<1>5. Append(rest, "limit") \in Seq(Fine) /\ Append(rest, "limit") # <<>>
  <2> HIDE DEF rest, Fine
  <2>1. Append(rest, "limit") \in Seq(Fine) /\ Len(Append(rest,
  "limit")) = Len(rest) + 1 /\ Len(rest) \in Nat
    BY <1>2, <1>3, AppendProperties, LenProperties
  <2>2. Len(<<>>) = 0
    OBVIOUS
  <2>3. Len(Append(rest, "limit")) # 0
    BY <2>1
  <2> QED
    BY <2>1, <2>2, <2>3
<1>6. r \in Seq(Fine)
  BY <1>3, <1>4, <1>5
<1>7. ToSet(r) \subseteq Fine
  <2> HIDE DEF r, Fine
  <2> QED
    BY <1>6 DEF ToSet
<1> QED
  <2> HIDE DEF r, rest, T, Fine
  <2> QED
    BY <1>1, <1>2, <1>4, <1>5, <1>7 DEF r

\* What the server's head says of the body.
HasChunks(t) == Has(t, "Transfer-Encoding") /\ "chunked" \in ToSet(t.head["Transfer-Encoding"])

\* So for compression.
HasGzipped(t) == Has(t, "Transfer-Encoding") /\ "gzip" \in ToSet(t.head["Transfer-Encoding"])

\* The type bits sed() notes of the head.
Bits(t) == IF Has(t, "Content-Encoding") THEN CodingBits[Last(t.head["Content-Encoding"])] ELSE {}

\* What sed() leaves of a server's head: flags and type bits as the head says, the coding
\* headers unless the user removed them, a length only if it could be read, limited cookies.
LEMMA SedFacts ==
  ASSUME NEW t, Shape(t), NEW a \in ActionSets,
         t.type = {}, {"Modified", "Deflated", "Chunked", "ServerLength"} \cap t.flags = {}
  PROVE  LET u == sed(t, a) IN
         /\ Shape(u)
         /\ {"Modified", "Deflated"} \cap u.flags = {}
         /\ "Chunked" \in u.flags <=> HasChunks(t)
         /\ Same(t, u, {"Content-Encoding", "Transfer-Encoding"} \ {a.crunch})
         /\ Has(u, "Content-Length") => /\ Has(t, "Content-Length")
                                        /\ Readable(t.head["Content-Length"])
                                        /\ u.head["Content-Length"] = t.head["Content-Length"]
         /\ "ServerLength" \in u.flags /\ a.crunch # "Content-Length" => Has(u, "Content-Length")
         /\ "TABOO" \notin u.type =>
              /\ ~HasGzipped(t)
              /\ \A b \in Compressed \cup {"TABOO"} : b \in u.type <=> b \in Bits(t)
         /\ Has(u, "Set-Cookie") =>
              /\ Has(t, "Set-Cookie")
              /\ a.sessionCookies \/ a.limitCookies =>
                   u.head["Set-Cookie"] = server_set_cookie_dates(t.head["Set-Cookie"], a)
<1> DEFINE t1 == server_http(t, a)
           t2 == server_set_cookie(t1, a)
           t3 == server_content_type(server_connection(t2), a)
           t4 == server_content_md5(t3)
           t5 == server_content_encoding(t4)
           t6 == server_save_content_length(t5)
           t7 == server_proxy_connection(server_keep_alive(t6))
           t8 == server_transfer_coding(t7)
           t9 == proxy_authentication(server_last_modified(server_content_disposition(t8, a), a), a)
           t10 == crunch_server_header(t9, a)
           t11 == server_proxy_connection_adder(server_connection_adder(LengthIgnoredWhenChunked(t10)))
<1>1. t11 = sed(t, a)
  BY DEF sed, Edited
<1> DEFINE Codes == {"Content-Encoding", "Transfer-Encoding"}
<1>2. /\ Shape(t1) /\ Same(t, t1, Watched) /\ SameMarks(t, t1)
      /\ "TABOO" \notin t1.type => t1.type \cap Compressed = {}
  <2> DEFINE typed == When(t.status \in {101, 206}, [t EXCEPT !.type = {"TABOO"}], t)
             v == IF a.downgrade THEN "1.0" ELSE t.head["HTTP"]
  <2>1. Shape(typed) /\ typed.head = t.head /\ typed.flags = t.flags /\ typed.type \in {{},
  {"TABOO"}}
    BY DEF Shape, When
  <2> HIDE DEF typed
  <2>2. t1 = Says(typed, "HTTP", v)
    BY DEF server_http, typed
  <2> HIDE DEF v
  <2>3. Neutral(typed, Says(typed, "HTTP", v)) /\ Says(typed, "HTTP", v).type = typed.type
    <3>1. "HTTP" \notin Watched /\ "x" \notin {"Modified", "Deflated", "Chunked", "ServerLength"}
      BY DEF Watched
    <3> QED
      BY <2>1, <3>1, NeutralEdits, SaysHead
  <2> HIDE DEF t1
  <2>4. t1.type \in {{}, {"TABOO"}}
    BY <2>1, <2>2, <2>3
  <2> QED
    BY <2>1, <2>2, <2>3, <2>4 DEF Neutral, Same, SameMarks, Has
<1> HIDE DEF t1
<1>3. /\ Shape(t2) /\ Same(t, t2, Watched \ {"Set-Cookie"}) /\ SameMarks(t, t2)
      /\ "TABOO" \notin t2.type => t2.type \cap Compressed = {}
      /\ Has(t2, "Set-Cookie") =>
              /\ Has(t, "Set-Cookie")
              /\ a.sessionCookies \/ a.limitCookies =>
                   t2.head["Set-Cookie"] = server_set_cookie_dates(t.head["Set-Cookie"], a)
  <2> DEFINE v == server_set_cookie_dates(t1.head["Set-Cookie"], a)
  <2>1. \/ t2 = t1 /\ (Has(t1, "Set-Cookie") => ~(a.sessionCookies \/ a.limitCookies))
        \/ t2 = Crunched(t1, "Set-Cookie")
        \/ t2 = Says(t1, "Set-Cookie", v) /\ Has(t1, "Set-Cookie")
    BY DEF server_set_cookie, When
  <2>2. Has(t1, "Set-Cookie") <=> Has(t, "Set-Cookie")
    BY <1>2 DEF Same, Watched
  <2>3. Has(t, "Set-Cookie") => v = server_set_cookie_dates(t.head["Set-Cookie"], a)
    BY <1>2 DEF Same, Watched
  <2> HIDE DEF t2, v
  <2>4. CASE t2 = t1 /\ (Has(t1, "Set-Cookie") => ~(a.sessionCookies \/ a.limitCookies))
    BY <1>2, <2>2, <2>4 DEF Same, SameMarks
  <2>5. CASE t2 = Crunched(t1, "Set-Cookie")
    <3>1. /\ Shape(t2) /\ t2.flags = t1.flags /\ t2.type = t1.type
          /\ DOMAIN t2.head = DOMAIN t1.head \ {"Set-Cookie"}
          /\ \A n \in DOMAIN t1.head \ {"Set-Cookie"} : t2.head[n] = t1.head[n]
      BY <1>2, <2>5, CrunchedHead
    <3> QED
      BY <1>2, <3>1 DEF Same, SameMarks, Has
  <2>6. CASE t2 = Says(t1, "Set-Cookie", v) /\ Has(t1, "Set-Cookie")
    <3>1. /\ Shape(t2) /\ t2.flags = t1.flags /\ t2.type = t1.type
          /\ DOMAIN t2.head = DOMAIN t1.head \cup {"Set-Cookie"}
          /\ t2.head["Set-Cookie"] = v
          /\ \A n \in DOMAIN t1.head \ {"Set-Cookie"} : t2.head[n] = t1.head[n]
      BY <1>2, <2>6, SaysHead
    <3> QED
      BY <1>2, <2>2, <2>3, <2>6, <3>1 DEF Same, SameMarks, Has
  <2> QED
    BY <2>1, <2>4, <2>5, <2>6
<1> HIDE DEF t2
<1>4. Neutral(t2, t4)
  <2>1. Shape(server_connection(t2)) /\ Neutral(t2, server_connection(t2))
    BY <1>3, NeutralHandlers DEF Neutral
  <2>2. Shape(t3) /\ Neutral(t2, t3)
    BY <2>1, NeutralHandlers, NeutralTrans DEF Neutral
  <2> HIDE DEF t3
  <2> QED
    BY <2>2, NeutralHandlers, NeutralTrans
<1> HIDE DEF t4
<1>5. /\ Shape(t4) /\ Same(t, t4, Watched \ {"Set-Cookie"}) /\ SameMarks(t, t4)
      /\ "TABOO" \notin t4.type => t4.type \cap Compressed = {}
      /\ Same(t2, t4, {"Set-Cookie"})
  BY <1>3, <1>4 DEF Neutral, Same, SameMarks, SameBits, Watched
<1>6. /\ Shape(t5) /\ Same(t, t5, Watched \ {"Set-Cookie"}) /\ SameMarks(t, t5)
      /\ "TABOO" \notin t5.type => \A b \in Compressed \cup {"TABOO"} : b \in t5.type <=>
           b \in Bits(t)
      /\ Same(t2, t5, {"Set-Cookie"})
  <2> DEFINE bits == CodingBits[Last(t4.head["Content-Encoding"])]
  <2>1. /\ Has(t4, "Content-Encoding") <=> Has(t, "Content-Encoding")
        /\ Has(t4, "Content-Encoding") => bits = Bits(t)
    BY <1>5 DEF Same, Watched, Bits
  <2>2. t5 = IF Has(t4, "Content-Encoding") THEN [t4 EXCEPT !.type = t4.type \cup bits] ELSE t4
    BY DEF server_content_encoding, When
  <2> HIDE DEF t5, bits
  <2>3. Shape(t5) /\ t5.head = t4.head /\ t5.flags = t4.flags
    BY <1>5, <2>2 DEF Shape
  <2>4. t5.type = IF Has(t4, "Content-Encoding") THEN t4.type \cup bits ELSE t4.type
    BY <1>5, <2>2 DEF Shape
  <2>5. "TABOO" \notin t5.type => \A b \in Compressed \cup {"TABOO"} : b \in t5.type <=>
          b \in Bits(t)
    BY <1>5, <2>1, <2>4 DEF Bits
  <2> QED
    BY <1>5, <2>3, <2>5 DEF Same, SameMarks, Has
<1> HIDE DEF t5
<1>7. /\ Shape(t6) /\ Same(t, t6, Codes) /\ t6.type = t5.type
      /\ {"Modified", "Deflated", "Chunked"} \cap t6.flags = {}
      /\ Same(t2, t6, {"Set-Cookie"})
      /\ Has(t6, "Content-Length") => /\ Has(t, "Content-Length")
                                      /\ Readable(t.head["Content-Length"])
                                      /\ t6.head["Content-Length"] = t.head["Content-Length"]
      /\ "ServerLength" \in t6.flags => Has(t6, "Content-Length")
  <2>0. /\ Has(t5, "Content-Length") <=> Has(t, "Content-Length")
        /\ Has(t, "Content-Length") => t5.head["Content-Length"] = t.head["Content-Length"]
        /\ {"Modified", "Deflated", "Chunked", "ServerLength"} \cap t5.flags = {}
        /\ Same(t, t5, Codes)
    BY <1>6 DEF Same, Watched, SameMarks
  <2>1. CASE ~Has(t5, "Content-Length")
    <3>1. t6 = t5
      BY <2>1 DEF server_save_content_length
    <3> HIDE DEF t6
    <3> QED
      BY <1>6, <2>0, <2>1, <3>1
  <2>2. CASE Has(t5, "Content-Length") /\ ~Readable(t5.head["Content-Length"])
    <3>1. t6 = Crunched(t5, "Content-Length")
      BY <2>2 DEF server_save_content_length
    <3> HIDE DEF t6
    <3>2. /\ Shape(t6) /\ t6.flags = t5.flags /\ t6.type = t5.type
          /\ DOMAIN t6.head = DOMAIN t5.head \ {"Content-Length"}
          /\ \A n \in DOMAIN t5.head \ {"Content-Length"} : t6.head[n] = t5.head[n]
      BY <1>6, <3>1, CrunchedHead
    <3> QED
      BY <1>6, <2>0, <3>2 DEF Same, Has
  <2>3. CASE Has(t5, "Content-Length") /\ Readable(t5.head["Content-Length"])
    <3>1. t6 = [t5 EXCEPT !.flags = t5.flags \cup {"ServerLength", "LengthKnown"}]
      BY <2>3 DEF server_save_content_length, LengthSaved
    <3> HIDE DEF t6
    <3>2. /\ Shape(t6) /\ t6.flags = t5.flags \cup {"ServerLength", "LengthKnown"}
          /\ t6.type = t5.type /\ t6.head = t5.head
      BY <1>6, <3>1 DEF Shape
    <3> QED
      BY <1>6, <2>0, <2>3, <3>2 DEF Same, Has
  <2> QED
    BY <2>1, <2>2, <2>3
<1> HIDE DEF t6
<1>8. Neutral(t6, t7)
  <2>1. Shape(server_keep_alive(t6)) /\ Neutral(t6, server_keep_alive(t6))
    BY <1>7, NeutralHandlers DEF Neutral
  <2> QED
    BY <2>1, NeutralHandlers, NeutralTrans
<1> HIDE DEF t7
<1> DEFINE After(u) ==
        /\ Same(t2, u, {"Set-Cookie"})
        /\ {"Modified", "Deflated"} \cap u.flags = {}
        /\ Has(u, "Content-Length") => /\ Has(t, "Content-Length")
                                       /\ Readable(t.head["Content-Length"])
                                       /\ u.head["Content-Length"] = t.head["Content-Length"]
        /\ "ServerLength" \in u.flags => Has(u, "Content-Length")
<1>9. /\ Shape(t7) /\ Same(t, t7, Codes) /\ After(t7) /\ "Chunked" \notin t7.flags
      /\ "TABOO" \notin t7.type => \A b \in Compressed \cup {"TABOO"} : b \in t7.type <=>
           b \in Bits(t)
  BY <1>6, <1>7, <1>8 DEF Neutral, Same, SameMarks, SameBits, Watched
<1> DEFINE Typed(u) ==
        /\ "Chunked" \in u.flags <=> HasChunks(t)
        /\ "TABOO" \notin u.type =>
              /\ ~HasGzipped(t)
              /\ \A b \in Compressed \cup {"TABOO"} : b \in u.type <=> b \in Bits(t)
<1>10. Shape(t8) /\ Same(t, t8, Codes) /\ After(t8) /\ Typed(t8)
  <2> DEFINE te == t7.head["Transfer-Encoding"]
             typed == When("gzip" \in ToSet(te), [t7 EXCEPT !.type = {"TABOO"}], t7)
  <2>1. /\ Has(t7, "Transfer-Encoding") <=> Has(t, "Transfer-Encoding")
        /\ Has(t, "Transfer-Encoding") => te = t.head["Transfer-Encoding"]
    BY <1>9 DEF Same
  <2>2. CASE ~Has(t7, "Transfer-Encoding")
    <3>1. t8 = t7
      BY <2>2 DEF server_transfer_coding
    <3> HIDE DEF t8
    <3> QED
      BY <1>9, <2>1, <2>2, <3>1 DEF HasChunks, HasGzipped
  <2>3. CASE Has(t7, "Transfer-Encoding")
    <3>1. /\ HasChunks(t) <=> "chunked" \in ToSet(te)
          /\ HasGzipped(t) <=> "gzip" \in ToSet(te)
      BY <2>1, <2>3 DEF HasChunks, HasGzipped
    <3> HIDE DEF te
    <3>2. Shape(typed) /\ typed.head = t7.head /\ typed.flags = t7.flags
      BY <1>9 DEF Shape, When
    <3>3. typed.type = IF "gzip" \in ToSet(te) THEN {"TABOO"} ELSE t7.type
      BY <1>9 DEF Shape, When
    <3>4. t8 = IF "chunked" \in ToSet(te) THEN Raised(typed, "Chunked") ELSE typed
      <4>1. "Modified" \notin t7.flags
        BY <1>9
      <4> QED
        BY <2>3, <4>1 DEF server_transfer_coding, When, te
    <3> HIDE DEF typed, t8
    <3>5. /\ Shape(t8) /\ t8.head = t7.head /\ t8.type = typed.type
          /\ t8.flags = IF "chunked" \in ToSet(te) THEN t7.flags \cup {"Chunked"} ELSE t7.flags
      <4>1. CASE "chunked" \in ToSet(te)
        <5>1. t8 = Raised(typed, "Chunked")
          BY <3>4, <4>1
        <5>2. /\ Shape(t8) /\ t8.head = typed.head /\ t8.type = typed.type
              /\ t8.flags = typed.flags \cup {"Chunked"}
          BY <3>2, <5>1, RaisedHead
        <5> QED
          BY <3>2, <4>1, <5>2
      <4>2. CASE "chunked" \notin ToSet(te)
        BY <3>2, <3>4, <4>2
      <4> QED
        BY <4>1, <4>2
    <3>6. Typed(t8)
      BY <1>9, <3>1, <3>3, <3>5
    <3>7. After(t8) /\ Same(t, t8, Codes)
      BY <1>9, <3>5 DEF Same, Has
    <3> QED
      BY <3>5, <3>6, <3>7
  <2> QED
    BY <2>2, <2>3
<1> HIDE DEF t8
<1>11. Neutral(t8, t9)
  <2>1. Shape(server_content_disposition(t8, a)) /\ Neutral(t8, server_content_disposition(t8, a))
    BY <1>10, NeutralHandlers DEF Neutral
  <2>2. /\ Shape(server_last_modified(server_content_disposition(t8, a), a))
        /\ Neutral(t8, server_last_modified(server_content_disposition(t8, a), a))
    BY <2>1, NeutralHandlers, NeutralTrans DEF Neutral
  <2> QED
    BY <2>2, NeutralHandlers, NeutralTrans
<1> HIDE DEF t9
<1>12. Shape(t9) /\ Same(t, t9, Codes) /\ After(t9) /\ Typed(t9)
  BY <1>10, <1>11 DEF Neutral, Same, SameMarks, SameBits, Watched
<1> DEFINE Left(u) ==
        /\ Shape(u) /\ Typed(u)
        /\ Same(t, u, Codes \ {a.crunch})
        /\ Has(u, "Set-Cookie") => Has(t2, "Set-Cookie") /\
             u.head["Set-Cookie"] = t2.head["Set-Cookie"]
        /\ {"Modified", "Deflated"} \cap u.flags = {}
        /\ Has(u, "Content-Length") => /\ Has(t, "Content-Length")
                                       /\ Readable(t.head["Content-Length"])
                                       /\ u.head["Content-Length"] = t.head["Content-Length"]
        /\ "ServerLength" \in u.flags /\ a.crunch # "Content-Length" => Has(u, "Content-Length")
<1>13. Left(t10)
  <2>1. CASE a.crunch = ""
    <3>1. t10 = t9
      BY <2>1 DEF crunch_server_header, When
    <3> HIDE DEF t10
    <3> QED
      BY <1>12, <3>1 DEF Same
  <2>2. CASE a.crunch # ""
    <3>1. t10 = Crunched(t9, a.crunch)
      BY <2>2 DEF crunch_server_header, When
    <3> HIDE DEF t10
    <3>2. /\ Shape(t10) /\ t10.flags = t9.flags /\ t10.type = t9.type
          /\ DOMAIN t10.head = DOMAIN t9.head \ {a.crunch}
          /\ \A n \in DOMAIN t9.head \ {a.crunch} : t10.head[n] = t9.head[n]
      BY <1>12, <3>1, CrunchedHead
    <3> QED
      BY <1>12, <3>2 DEF Same, Has
  <2> QED
    BY <2>1, <2>2
<1> HIDE DEF t10
<1>14. Neutral(t10, t11)
  <2>1. Shape(LengthIgnoredWhenChunked(t10)) /\ Neutral(t10, LengthIgnoredWhenChunked(t10))
    BY <1>13, NeutralHandlers DEF Neutral
  <2>2. /\ Shape(server_connection_adder(LengthIgnoredWhenChunked(t10)))
        /\ Neutral(t10, server_connection_adder(LengthIgnoredWhenChunked(t10)))
    BY <2>1, NeutralHandlers, NeutralTrans DEF Neutral
  <2> QED
    BY <2>2, NeutralHandlers, NeutralTrans
<1> HIDE DEF t11
<1>15. Left(t11)
  BY <1>13, <1>14 DEF Neutral, Same, SameMarks, SameBits, Watched
<1>16. Has(t11, "Set-Cookie") =>
              /\ Has(t, "Set-Cookie")
              /\ a.sessionCookies \/ a.limitCookies =>
                   t11.head["Set-Cookie"] = server_set_cookie_dates(t.head["Set-Cookie"], a)
  BY <1>3, <1>15
<1> QED
  BY <1>1, <1>15, <1>16

\* Forcing text mode changes nothing else.
LEMMA ForcedFacts ==
  ASSUME NEW t, Shape(t), NEW a
  PROVE  LET u == ForcedType(t, a) IN
         /\ Shape(u) /\ u.head = t.head /\ u.flags = t.flags
         /\ \A b \in Compressed \cup {"TABOO"} : b \in u.type <=> b \in t.type
<1> DEFINE u == ForcedType(t, a)
<1>1. u = t \/ u = [t EXCEPT !.type = t.type \cup {"TEXT"}]
  BY DEF ForcedType, When
<1> HIDE DEF u
<1> DEFINE Goal == /\ Shape(u) /\ u.head = t.head /\ u.flags = t.flags
                   /\ \A b \in Compressed \cup {"TABOO"} : b \in u.type <=> b \in t.type
<1>2. Goal
  <2>1. CASE u = t
    BY <2>1
  <2>2. CASE u = [t EXCEPT !.type = t.type \cup {"TEXT"}]
    <3>1. Shape(u) /\ u.head = t.head /\ u.flags = t.flags /\ u.type = t.type \cup {"TEXT"}
      BY <2>2 DEF Shape
    <3> QED
      BY <3>1 DEF Compressed
  <2> QED
    BY <1>1, <2>1, <2>2
<1> QED
  BY <1>2 DEF u

\* What length_adder() makes of a head: a modified body for a client that stays gets a length.
LEMMA LengthAdderHead ==
  ASSUME NEW t, Shape(t), NEW len
  PROVE  LET u == length_adder(t, len) IN
         /\ Shape(u) /\ u.type = t.type
         /\ Same(t, u, {"Content-Encoding", "Transfer-Encoding", "Set-Cookie"})
         /\ \A flag \in {"Modified", "Chunked", "Deflated", "ClientKeepAlive", "Tainted"} :
              flag \in u.flags <=> flag \in t.flags
         /\ Has(t, "Content-Length") => Has(u, "Content-Length")
         /\ Has(u, "Content-Length") => u.head["Content-Length"] = len \/
              (Has(t, "Content-Length") /\ u.head["Content-Length"] = t.head["Content-Length"])
         /\ "Modified" \notin t.flags => (Has(u, "Content-Length") =>
              Has(t, "Content-Length") /\ u.head["Content-Length"] = t.head["Content-Length"])
         /\ "ServerLength" \in u.flags => "ServerLength" \in t.flags \/ Has(u, "Content-Length")
         /\ {"Modified", "ClientKeepAlive"} \subseteq t.flags /\
              "ServerLength" \notin t.flags => Has(u, "Content-Length")
<1> DEFINE v == Says(t, "Content-Length", len)
           w == Raised(v, "ServerLength")
           u == length_adder(t, len)
           c == {"Modified", "ClientKeepAlive"} \subseteq t.flags /\ "ServerLength" \notin t.flags
           Goal ==
             /\ Shape(u) /\ u.type = t.type
             /\ Same(t, u, {"Content-Encoding", "Transfer-Encoding", "Set-Cookie"})
             /\ \A flag \in {"Modified", "Chunked", "Deflated", "ClientKeepAlive", "Tainted"} :
                  flag \in u.flags <=> flag \in t.flags
             /\ Has(t, "Content-Length") => Has(u, "Content-Length")
             /\ Has(u, "Content-Length") =>
                  u.head["Content-Length"] = len \/ (Has(t, "Content-Length") /\
                    u.head["Content-Length"] = t.head["Content-Length"])
             /\ "Modified" \notin t.flags => (Has(u, "Content-Length") =>
                  Has(t, "Content-Length") /\ u.head["Content-Length"] = t.head["Content-Length"])
             /\ "ServerLength" \in u.flags => "ServerLength" \in t.flags \/ Has(u, "Content-Length")
             /\ {"Modified", "ClientKeepAlive"} \subseteq t.flags /\
                  "ServerLength" \notin t.flags => Has(u, "Content-Length")
<1>1. u = IF c THEN w ELSE t
  BY DEF length_adder, When
<1>2. /\ Shape(v) /\ v.flags = t.flags /\ v.type = t.type /\ v.status = t.status
      /\ DOMAIN v.head = DOMAIN t.head \cup {"Content-Length"}
      /\ v.head["Content-Length"] = len
      /\ \A n \in DOMAIN t.head \ {"Content-Length"} : v.head[n] = t.head[n]
  BY SaysHead
<1> HIDE DEF v
<1>3. Shape(w) /\ w.flags = v.flags \cup {"ServerLength"} /\ w.type = v.type /\ w.head = v.head
  BY <1>2, RaisedHead
<1> HIDE DEF u, w
<1>4. Goal
  <2>1. CASE c
    BY <1>1, <1>2, <1>3, <2>1 DEF Same, Has
  <2>2. CASE ~c
    BY <1>1, <2>2 DEF Same, Has
  <2> QED
    BY <2>1, <2>2
<1> QED
  BY <1>4 DEF u

\* What the three handlers of update_server_headers() make of a head.
LEMMA AdjustedHead ==
  ASSUME NEW t, Shape(t), NEW len
  PROVE  LET u == server_adjust_content_encoding(
                    server_transfer_coding(server_adjust_content_length(t, len))) IN
         /\ Shape(u)
         /\ Same(t, u, {"Set-Cookie"})
         /\ \A flag \in {"Modified", "Deflated", "ClientKeepAlive", "ServerLength", "Tainted"} :
              flag \in u.flags <=> flag \in t.flags
         /\ "Chunked" \in u.flags => "Chunked" \in t.flags \/
              "chunked" \in ToSet(ToldIn(t, "Transfer-Encoding"))
         /\ Has(t, "Content-Length") <=> Has(u, "Content-Length")
         /\ Has(t, "Content-Length") =>
              u.head["Content-Length"] = IF "Modified" \in t.flags THEN len
                ELSE t.head["Content-Length"]
         /\ ToldIn(u, "Transfer-Encoding") = LaterTE(t)
         /\ "gzip" \notin ToSet(ToldIn(t, "Transfer-Encoding")) =>
              /\ ToldIn(u, "Content-Encoding") = LaterCE(t)
              /\ Has(u, "Content-Encoding") =>
                   Has(t, "Content-Encoding") /\
                     u.head["Content-Encoding"] = t.head["Content-Encoding"]
<1> DEFINE t1 == server_adjust_content_length(t, len)
           t2 == server_transfer_coding(t1)
           t3 == server_adjust_content_encoding(t2)
           m == "Modified" \in t.flags
           te == ToldIn(t, "Transfer-Encoding")
<1>1. /\ Shape(t1) /\ t1.flags = t.flags /\ t1.type = t.type
      /\ Same(t, t1, {"Content-Encoding", "Transfer-Encoding", "Set-Cookie"})
      /\ Has(t, "Content-Length") <=> Has(t1, "Content-Length")
      /\ Has(t, "Content-Length") => t1.head["Content-Length"] = IF m THEN len
           ELSE t.head["Content-Length"]
  <2>1. CASE m /\ Has(t, "Content-Length")
    <3>1. t1 = Says(t, "Content-Length", len)
      BY <2>1 DEF server_adjust_content_length, When
    <3> HIDE DEF t1
    <3>2. /\ Shape(t1) /\ t1.flags = t.flags /\ t1.type = t.type /\ t1.status = t.status
          /\ DOMAIN t1.head = DOMAIN t.head \cup {"Content-Length"}
          /\ t1.head["Content-Length"] = len
          /\ \A n \in DOMAIN t.head \ {"Content-Length"} : t1.head[n] = t.head[n]
      BY <3>1, SaysHead
    <3> QED
      BY <2>1, <3>2 DEF Same, Has
  <2>2. CASE ~(m /\ Has(t, "Content-Length"))
    <3>1. t1 = t
      BY <2>2 DEF server_adjust_content_length, When
    <3> HIDE DEF t1
    <3> QED
      BY <2>2, <3>1 DEF Same, Has
  <2> QED
    BY <2>1, <2>2
<1> HIDE DEF t1
<1>2. /\ ToldIn(t1, "Transfer-Encoding") = te /\ (Has(t1, "Transfer-Encoding") <=>
           Has(t, "Transfer-Encoding"))
      /\ Has(t1, "Transfer-Encoding") => t1.head["Transfer-Encoding"] = te
      /\ ~Has(t1, "Transfer-Encoding") => te = <<>>
      /\ "chunked" \notin ToSet(<<>>)
  <2>1. "chunked" \notin ToSet(<<>>)
    BY DEF ToSet
  <2> QED
    BY <1>1, <2>1 DEF ToldIn, Same
<1>3. /\ Shape(t2)
      /\ Same(t1, t2, {"Content-Encoding", "Content-Length", "Set-Cookie"})
      /\ \A flag \in {"Modified", "Deflated", "ClientKeepAlive", "ServerLength", "Tainted"} :
           flag \in t2.flags <=> flag \in t1.flags
      /\ "Chunked" \in t2.flags => "Chunked" \in t.flags \/ "chunked" \in ToSet(te)
      /\ "gzip" \notin ToSet(te) => t2.type = t1.type
      /\ ToldIn(t2, "Transfer-Encoding") = LaterTE(t)
  <2> DEFINE typed == When("gzip" \in ToSet(te), [t1 EXCEPT !.type = {"TABOO"}], t1)
             raised == Raised(typed, "Chunked")
             dropped == Crunched(raised, "Transfer-Encoding")
  <2>1. Shape(typed) /\ typed.head = t1.head /\ typed.flags = t1.flags /\
          ("gzip" \notin ToSet(te) => typed.type = t1.type)
    BY <1>1 DEF When, Shape
  <2>2. t2 = IF ~Has(t1, "Transfer-Encoding") THEN t1
             ELSE IF "chunked" \notin ToSet(te) THEN typed
             ELSE IF m THEN dropped ELSE raised
    BY <1>1, <1>2 DEF server_transfer_coding, When
  <2> HIDE DEF typed, t2
  <2>3. /\ Shape(raised) /\ raised.head = typed.head /\ raised.type = typed.type
        /\ raised.flags = typed.flags \cup {"Chunked"}
    BY <2>1, RaisedHead
  <2> HIDE DEF raised
  <2>4. /\ Shape(dropped) /\ dropped.flags = raised.flags /\ dropped.type = raised.type
        /\ DOMAIN dropped.head = DOMAIN raised.head \ {"Transfer-Encoding"}
        /\ \A n \in DOMAIN raised.head \ {"Transfer-Encoding"} : dropped.head[n] = raised.head[n]
    BY <2>3, CrunchedHead
  <2> HIDE DEF dropped, te, m
  <2>5. LaterTE(t) = IF m /\ "chunked" \in ToSet(te) THEN <<>> ELSE te
    BY DEF LaterTE, m, te
  <2>6. CASE ~Has(t1, "Transfer-Encoding")
    BY <1>1, <1>2, <2>2, <2>5, <2>6 DEF Same, ToldIn
  <2>7. CASE Has(t1, "Transfer-Encoding") /\ "chunked" \notin ToSet(te)
    BY <1>1, <1>2, <2>1, <2>2, <2>5, <2>7 DEF Same, ToldIn, Has
  <2>8. CASE Has(t1, "Transfer-Encoding") /\ "chunked" \in ToSet(te) /\ m
    BY <1>1, <1>2, <2>1, <2>2, <2>3, <2>4, <2>5, <2>8 DEF Same, ToldIn, Has
  <2>9. CASE Has(t1, "Transfer-Encoding") /\ "chunked" \in ToSet(te) /\ ~m
    BY <1>1, <1>2, <2>1, <2>2, <2>3, <2>5, <2>9 DEF Same, ToldIn, Has
  <2> QED
    BY <2>6, <2>7, <2>8, <2>9
<1> HIDE DEF t2
<1>4. /\ Shape(t3) /\ t3.flags = t2.flags
      /\ Same(t2, t3, {"Transfer-Encoding", "Content-Length", "Set-Cookie"})
      /\ ToldIn(t3, "Content-Encoding") = IF "Modified" \in t2.flags /\
           t2.type \cap Compressed # {} THEN <<>> ELSE ToldIn(t2, "Content-Encoding")
      /\ Has(t3, "Content-Encoding") => Has(t2, "Content-Encoding") /\
           t3.head["Content-Encoding"] = t2.head["Content-Encoding"]
  <2> DEFINE c == "Modified" \in t2.flags /\ t2.type \cap Compressed # {}
  <2>1. t3 = IF c THEN Crunched(t2, "Content-Encoding") ELSE t2
    BY DEF server_adjust_content_encoding, When
  <2> HIDE DEF t3, c
  <2>2. CASE c
    <3>1. /\ Shape(t3) /\ t3.flags = t2.flags /\ t3.type = t2.type
        /\ DOMAIN t3.head = DOMAIN t2.head \ {"Content-Encoding"}
        /\ \A n \in DOMAIN t2.head \ {"Content-Encoding"} : t3.head[n] = t2.head[n]
      BY <1>3, <2>1, <2>2, CrunchedHead
    <3> QED
      BY <2>2, <3>1 DEF Same, ToldIn, Has, c
  <2>3. CASE ~c
    BY <1>3, <2>1, <2>3 DEF Same, ToldIn, Has, c
  <2> QED
    BY <2>2, <2>3
<1> HIDE DEF t3
<1>5. ToldIn(t3, "Transfer-Encoding") = ToldIn(t2, "Transfer-Encoding")
  BY <1>4 DEF Same, ToldIn
<1>6. ToldIn(t2, "Content-Encoding") = ToldIn(t, "Content-Encoding") /\
        (Has(t2, "Content-Encoding") <=> Has(t, "Content-Encoding"))
      /\ (Has(t, "Content-Encoding") => t2.head["Content-Encoding"] = t.head["Content-Encoding"])
  BY <1>1, <1>3 DEF Same, ToldIn
<1>7. "gzip" \notin ToSet(te) => ToldIn(t3, "Content-Encoding") = LaterCE(t)
  BY <1>1, <1>3, <1>4, <1>6 DEF LaterCE
<1> DEFINE Goal ==
             /\ Shape(t3)
             /\ Same(t, t3, {"Set-Cookie"})
             /\ \A flag \in {"Modified", "Deflated", "ClientKeepAlive", "ServerLength", "Tainted"} :
                  flag \in t3.flags <=> flag \in t.flags
             /\ "Chunked" \in t3.flags => "Chunked" \in t.flags \/ "chunked" \in ToSet(te)
             /\ Has(t, "Content-Length") <=> Has(t3, "Content-Length")
             /\ Has(t, "Content-Length") =>
                  t3.head["Content-Length"] = IF "Modified" \in t.flags THEN len
                    ELSE t.head["Content-Length"]
             /\ ToldIn(t3, "Transfer-Encoding") = LaterTE(t)
             /\ "gzip" \notin ToSet(te) =>
                  /\ ToldIn(t3, "Content-Encoding") = LaterCE(t)
                  /\ Has(t3, "Content-Encoding") =>
                       Has(t, "Content-Encoding") /\
                         t3.head["Content-Encoding"] = t.head["Content-Encoding"]
<1>8. Goal
  <2>1. Same(t, t3, {"Set-Cookie"})
    BY <1>1, <1>3, <1>4 DEF Same
  <2>2. /\ Has(t, "Content-Length") <=> Has(t3, "Content-Length")
        /\ Has(t, "Content-Length") =>
             t3.head["Content-Length"] = IF "Modified" \in t.flags THEN len
               ELSE t.head["Content-Length"]
    BY <1>1, <1>3, <1>4 DEF Same
  <2>3. \A flag \in {"Modified", "Deflated", "ClientKeepAlive", "ServerLength",
  "Tainted"} : flag \in t3.flags <=> flag \in t.flags
    BY <1>1, <1>3, <1>4
  <2> QED
    BY <1>3, <1>4, <1>5, <1>6, <1>7, <2>1, <2>2, <2>3
<1> QED
  BY <1>8 DEF t3, t2, t1

\* What update_server_headers() makes of a head.
LEMMA UpdatedHead ==
  ASSUME NEW t, Shape(t), NEW m, NEW len
  PROVE  LET u == update_server_headers(t, m, len)
             modified == "Modified" \in t.flags
         IN
         /\ Same(t, u, {"Set-Cookie"})
         /\ m # "HEAD" =>
              /\ "ClientKeepAlive" \in u.flags <=> "ClientKeepAlive" \in t.flags
              /\ "Chunked" \in u.flags =>
                   "Chunked" \in t.flags \/ "chunked" \in ToSet(ToldIn(t, "Transfer-Encoding"))
              /\ "ServerLength" \in u.flags =>
                   "ServerLength" \in t.flags \/ Has(u, "Content-Length")
              /\ Has(t, "Content-Length") => Has(u, "Content-Length")
              /\ modified /\ "ClientKeepAlive" \in t.flags /\ "ServerLength" \notin t.flags =>
                   Has(u, "Content-Length")
              /\ Has(u, "Content-Length") /\ modified => u.head["Content-Length"] = len
              /\ Has(u, "Content-Length") /\ ~modified =>
                   Has(t, "Content-Length") /\ u.head["Content-Length"] = t.head["Content-Length"]
              /\ ToldIn(u, "Transfer-Encoding") = LaterTE(t)
              /\ "gzip" \notin ToSet(ToldIn(t, "Transfer-Encoding")) =>
                   \/ /\ ToldIn(u, "Content-Encoding") = LaterCE(t)
                      /\ "Deflated" \in t.flags =>
                           Has(t, "Content-Encoding") /\ LaterCE(t) = t.head["Content-Encoding"]
                   \/ /\ "Deflated" \in t.flags /\ LaterCE(t) = <<>>
                      /\ ToldIn(u, "Content-Encoding") = <<"deflate">>
<1> DEFINE a == IF m = "HEAD" THEN t
                ELSE server_adjust_content_encoding(
                       server_transfer_coding(server_adjust_content_length(t, len)))
           z == length_adder(a, len)
           u == update_server_headers(t, m, len)
           modified == "Modified" \in t.flags
           c == "Deflated" \in t.flags /\ ~Has(z, "Content-Encoding")
<1>1. u = IF c THEN Says(z, "Content-Encoding", <<"deflate">>) ELSE z
  BY DEF update_server_headers, When
<1>2. /\ Shape(a) /\ Same(t, a, {"Set-Cookie"})
      /\ m # "HEAD" =>
         /\ \A flag \in {"Modified", "Deflated", "ClientKeepAlive", "ServerLength", "Tainted"} :
              flag \in a.flags <=> flag \in t.flags
         /\ "Chunked" \in a.flags => "Chunked" \in t.flags \/
              "chunked" \in ToSet(ToldIn(t, "Transfer-Encoding"))
         /\ Has(t, "Content-Length") <=> Has(a, "Content-Length")
         /\ Has(t, "Content-Length") =>
              a.head["Content-Length"] = IF "Modified" \in t.flags THEN len
                ELSE t.head["Content-Length"]
         /\ ToldIn(a, "Transfer-Encoding") = LaterTE(t)
         /\ "gzip" \notin ToSet(ToldIn(t, "Transfer-Encoding")) =>
              /\ ToldIn(a, "Content-Encoding") = LaterCE(t)
              /\ Has(a, "Content-Encoding") =>
                   Has(t, "Content-Encoding") /\
                     a.head["Content-Encoding"] = t.head["Content-Encoding"]
  <2>1. CASE m = "HEAD"
    BY <2>1 DEF Same
  <2>2. CASE m # "HEAD"
    BY <2>2, AdjustedHead
  <2> QED
    BY <2>1, <2>2
<1> HIDE DEF a
<1>3. /\ Shape(z)
      /\ Same(a, z, {"Content-Encoding", "Transfer-Encoding", "Set-Cookie"})
      /\ \A flag \in {"Modified", "Chunked", "Deflated", "ClientKeepAlive", "Tainted"} :
           flag \in z.flags <=> flag \in a.flags
      /\ Has(a, "Content-Length") => Has(z, "Content-Length")
      /\ Has(z, "Content-Length") => z.head["Content-Length"] = len \/
           (Has(a, "Content-Length") /\ z.head["Content-Length"] = a.head["Content-Length"])
      /\ "Modified" \notin a.flags => (Has(z, "Content-Length") =>
           Has(a, "Content-Length") /\ z.head["Content-Length"] = a.head["Content-Length"])
      /\ "ServerLength" \in z.flags => "ServerLength" \in a.flags \/ Has(z, "Content-Length")
      /\ {"Modified", "ClientKeepAlive"} \subseteq a.flags /\ "ServerLength" \notin a.flags =>
           Has(z, "Content-Length")
  BY <1>2, LengthAdderHead
<1> HIDE DEF z, u
<1>4. /\ Same(z, u, {"Set-Cookie", "Content-Length", "Transfer-Encoding"})
      /\ u.flags = z.flags
      /\ c => ToldIn(u, "Content-Encoding") = <<"deflate">>
      /\ ~c => ToldIn(u, "Content-Encoding") = ToldIn(z, "Content-Encoding")
  <2>1. CASE c
    <3>1. u = Says(z, "Content-Encoding", <<"deflate">>)
      BY <1>1, <2>1
    <3>2. /\ Shape(u) /\ u.flags = z.flags /\ u.type = z.type /\ u.status = z.status
          /\ DOMAIN u.head = DOMAIN z.head \cup {"Content-Encoding"}
          /\ u.head["Content-Encoding"] = <<"deflate">>
          /\ \A n \in DOMAIN z.head \ {"Content-Encoding"} : u.head[n] = z.head[n]
      BY <1>3, <3>1, SaysHead
    <3> QED
      BY <2>1, <3>2 DEF Same, ToldIn, Has
  <2>2. CASE ~c
    BY <1>1, <2>2 DEF Same
  <2> QED
    BY <2>1, <2>2
<1> DEFINE Goal ==
             /\ "ClientKeepAlive" \in u.flags <=> "ClientKeepAlive" \in t.flags
             /\ "Chunked" \in u.flags =>
                  "Chunked" \in t.flags \/ "chunked" \in ToSet(ToldIn(t, "Transfer-Encoding"))
             /\ "ServerLength" \in u.flags => "ServerLength" \in t.flags \/ Has(u, "Content-Length")
             /\ Has(t, "Content-Length") => Has(u, "Content-Length")
             /\ modified /\ "ClientKeepAlive" \in t.flags /\ "ServerLength" \notin t.flags =>
                  Has(u, "Content-Length")
             /\ Has(u, "Content-Length") /\ modified => u.head["Content-Length"] = len
             /\ Has(u, "Content-Length") /\ ~modified =>
                  Has(t, "Content-Length") /\ u.head["Content-Length"] = t.head["Content-Length"]
             /\ ToldIn(u, "Transfer-Encoding") = LaterTE(t)
             /\ "gzip" \notin ToSet(ToldIn(t, "Transfer-Encoding")) =>
                  \/ /\ ToldIn(u, "Content-Encoding") = LaterCE(t)
                     /\ "Deflated" \in t.flags =>
                          Has(t, "Content-Encoding") /\ LaterCE(t) = t.head["Content-Encoding"]
                  \/ /\ "Deflated" \in t.flags /\ LaterCE(t) = <<>>
                     /\ ToldIn(u, "Content-Encoding") = <<"deflate">>
<1>5. Same(t, u, {"Set-Cookie"})
  BY <1>2, <1>3, <1>4 DEF Same
<1>6. ASSUME m # "HEAD" PROVE Goal
  <2>1. Has(u, "Content-Length") <=> Has(z, "Content-Length")
    BY <1>4 DEF Same
  <2>2. Has(z, "Content-Length") => u.head["Content-Length"] = z.head["Content-Length"]
    BY <1>4 DEF Same
  <2>3. ToldIn(u, "Transfer-Encoding") = ToldIn(a, "Transfer-Encoding")
    BY <1>3, <1>4 DEF Same, ToldIn
  <2>4. ToldIn(z, "Content-Encoding") = ToldIn(a, "Content-Encoding") /\ (Has(z,
  "Content-Encoding") <=> Has(a, "Content-Encoding"))
        /\ (~Has(a, "Content-Encoding") => ToldIn(a, "Content-Encoding") = <<>>)
        /\ (Has(a, "Content-Encoding") =>
             ToldIn(a, "Content-Encoding") = a.head["Content-Encoding"])
    BY <1>3 DEF Same, ToldIn
  <2>5. "gzip" \notin ToSet(ToldIn(t, "Transfer-Encoding")) =>
           \/ /\ ToldIn(u, "Content-Encoding") = LaterCE(t)
              /\ "Deflated" \in t.flags =>
                   Has(t, "Content-Encoding") /\ LaterCE(t) = t.head["Content-Encoding"]
           \/ /\ "Deflated" \in t.flags /\ LaterCE(t) = <<>>
              /\ ToldIn(u, "Content-Encoding") = <<"deflate">>
    BY <1>2, <1>4, <1>6, <2>4
  <2>6. /\ "ClientKeepAlive" \in u.flags <=> "ClientKeepAlive" \in t.flags
        /\ "Chunked" \in u.flags => "Chunked" \in t.flags \/
             "chunked" \in ToSet(ToldIn(t, "Transfer-Encoding"))
        /\ "ServerLength" \in u.flags => "ServerLength" \in t.flags \/ Has(u, "Content-Length")
    BY <1>2, <1>3, <1>4, <1>6, <2>1
  <2>7. /\ Has(t, "Content-Length") => Has(u, "Content-Length")
        /\ modified /\ "ClientKeepAlive" \in t.flags /\ "ServerLength" \notin t.flags =>
             Has(u, "Content-Length")
    BY <1>2, <1>3, <1>6, <2>1
  <2>8. /\ Has(u, "Content-Length") /\ modified => u.head["Content-Length"] = len
        /\ Has(u, "Content-Length") /\ ~modified =>
             Has(t, "Content-Length") /\ u.head["Content-Length"] = t.head["Content-Length"]
    BY <1>2, <1>3, <1>6, <2>1, <2>2
  <2> QED
    BY <1>2, <1>6, <2>3, <2>5, <2>6, <2>7, <2>8
<1> QED
  BY <1>5, <1>6 DEF u

-----------------------------------------------------------------------------
(* Bodies and buffers.                                                     *)

\* There is a free name.
LEMMA FreshName ==
  ASSUME DOMAIN heap \subseteq {old, content}
  PROVE  Fresh \in Names /\ Fresh \notin DOMAIN heap
<1>1. \E n \in 1..4 : n \notin DOMAIN heap
  <2>1. {1, 2, 3} \subseteq 1..4
    OBVIOUS
  <2> QED
    BY <2>1
<1> QED
  BY <1>1 DEF Fresh, Names

\* Allocating and freeing.
LEMMA WithFacts ==
  ASSUME NEW h, NEW p, NEW b
  PROVE  /\ DOMAIN With(h, p, b) = DOMAIN h \cup {p}
         /\ With(h, p, b)[p] = b
         /\ \A x \in DOMAIN h \ {p} : With(h, p, b)[x] = h[x]
BY DEF With

\* So for freeing.
LEMMA FreedFacts ==
  ASSUME NEW h, NEW P
  PROVE  /\ DOMAIN Freed(h, P) = DOMAIN h \ P
         /\ \A x \in DOMAIN h \ P : Freed(h, P)[x] = h[x]
BY DEF Freed, Restrict

\* A name is freed once a new one is taken.
LEMMA Replaced ==
  ASSUME NEW h, NEW p, NEW b, NEW P, p \notin P
  PROVE  LET g == Freed(With(h, p, b), P)
         IN  DOMAIN g = (DOMAIN h \ P) \cup {p} /\ g[p] = b
BY DEF With, Freed, Restrict

\* 0 is the name of no buffer.
LEMMA NoName == {0} \ {0} = {} /\ {0} \ {0, IOB} = {}
OBVIOUS

\* The parts of a body.
LEMMA BodyFacts ==
   /\ Nothing \in Body
   /\ \A b \in Unread : b \in Body /\ b.edits = <<>>
   /\ \A b \in Body : b.edits \in Seq(Edit)
<1>1. Nothing \in Body
  BY DEF Body, Nothing, Sizes
<1>2. Transfers \subseteq Seq(Coding)
  <2>1. {"gzip", "chunked"} \subseteq Coding
    BY DEF Coding
  <2> QED
    BY <2>1 DEF Transfers
<1>3. Codings \subseteq Seq(Coding)
  <2>1. DOMAIN CodingBits \subseteq Coding
    BY DEF CodingBits, Coding
  <2>2. \A c \in Coding : <<c>> \in Seq(Coding)
    OBVIOUS
  <2>3. <<>> \in Seq(Coding)
    OBVIOUS
  <2> QED
    BY <2>1, <2>2, <2>3 DEF Codings
<1>4. <<>> \in Seq(Nat \X Nat)
  OBVIOUS
<1> QED
  BY <1>1, <1>2, <1>3, <1>4 DEF Body, Unread, Edit

\* What prepare_for_filtering() leaves of a body.
LEMMA PreparedBody ==
  ASSUME TypeInv, EditsInv, iob.te \in Transfers
  PROVE  /\ Dechunked \in Body /\ Dechunked.edits = <<>>
         /\ \A b \in Body : Decompressed(b) \in Body /\ Decompressed(b).edits = b.edits
         /\ \A b \in Body, nul \in BOOLEAN :
              [b EXCEPT !.nul = nul] \in Body /\ [b EXCEPT !.nul = nul].edits = b.edits
<1>1. iob \in Body /\ iob.edits = <<>>
  BY DEF TypeInv, EditsInv
<1>2. Dechunked \in Body /\ Dechunked.edits = <<>>
  BY <1>1, FrontTypes DEF Dechunked, Body
<1>3. <<>> \in Seq(Coding)
  OBVIOUS
<1> QED
  BY <1>1, <1>2, <1>3 DEF Decompressed, Body

\* What de-chunking and decompression do to the codings.
LEMMA Unwrapped ==
  ASSUME NEW b \in Unread
  PROVE  LET plain == [b EXCEPT !.te = Front(b.te)] IN
         /\ plain.ce = b.ce /\ plain.nul = b.nul
         /\ b.te = <<"chunked">> => plain.te = <<>>
         /\ \A c \in {b, plain} :
              /\ Decompressed(c).te = c.te /\ Decompressed(c).ce = <<>>
              /\ Decompressed(c).nul = c.nul
              /\ \A n : /\ [c EXCEPT !.nul = n].te = c.te /\ [c EXCEPT !.nul = n].ce = c.ce
                        /\ [c EXCEPT !.nul = n].nul = n
         /\ [b EXCEPT !.nul = FALSE] = b
<1> DEFINE plain == [b EXCEPT !.te = Front(b.te)]
<1>1. b = [te |-> b.te, ce |-> b.ce, edits |-> b.edits, size |-> b.size, nul |-> b.nul] /\
        b.nul = FALSE
  BY DEF Unread
<1>2. plain = [te |-> Front(b.te), ce |-> b.ce, edits |-> b.edits, size |-> b.size, nul |-> b.nul]
  BY <1>1
<1>3. Front(<<"chunked">>) = <<>>
  BY DEF Front
<1>4. plain.ce = b.ce /\ plain.nul = b.nul /\ (b.te = <<"chunked">> => plain.te = <<>>)
  BY <1>2, <1>3
<1>5. \A c \in {b, plain} :
              /\ Decompressed(c).te = c.te /\ Decompressed(c).ce = <<>>
              /\ Decompressed(c).nul = c.nul
              /\ \A n : /\ [c EXCEPT !.nul = n].te = c.te /\ [c EXCEPT !.nul = n].ce = c.ce
                        /\ [c EXCEPT !.nul = n].nul = n
  <2>1. \A c : c = [te |-> c.te, ce |-> c.ce, edits |-> c.edits, size |-> c.size, nul |-> c.nul] =>
              /\ Decompressed(c).te = c.te /\ Decompressed(c).ce = <<>>
              /\ Decompressed(c).nul = c.nul
              /\ \A n : /\ [c EXCEPT !.nul = n].te = c.te /\ [c EXCEPT !.nul = n].ce = c.ce
                        /\ [c EXCEPT !.nul = n].nul = n
    BY DEF Decompressed
  <2> QED
    BY <1>1, <1>2, <2>1
<1>6. [b EXCEPT !.nul = FALSE] = b
  BY <1>1
<1> QED
  BY <1>4, <1>5, <1>6

-----------------------------------------------------------------------------
(* The buffers, step by step.                                              *)

\* At first there are no buffers.
LEMMA InitBuffers ==
  ASSUME Init
  PROVE  TypeInv /\ HeapInv /\ BalanceInv /\ EditsInv
<1>1. iob \in Unread /\ acts \in ActionSets
  BY FilteringAssumption DEF Init
<1>2. DOMAIN heap = {} /\ edits \in Seq(Edit)
  BY DEF Init
<1>3. TypeInv
  BY <1>1, <1>2, BodyFacts DEF Init, TypeInv, Places, Early, Edit
<1>4. HeapInv /\ BalanceInv /\ EditsInv
  BY <1>1, <1>2, BodyFacts DEF Init, HeapInv, BalanceInv, EditsInv, Early, IOB, LastOK
<1> QED
  BY <1>3, <1>4

\* sed() touches none.
LEMMA EditHeadBuffers ==
  ASSUME BuffersInv, EditHead
  PROVE  BuffersInv'
<1> USE DEF BuffersInv, pcrsVars
<1>1. TypeInv'
  BY BodyFacts DEF EditHead, TypeInv, Places, Early
<1>2. HeapInv'
  BY DEF EditHead, HeapInv, Early, LastOK, At
<1>3. BalanceInv'
  BY DEF EditHead, BalanceInv, HeapInv, Early, LastOK
<1>4. EditsInv'
  BY DEF EditHead, EditsInv, HeapInv, Early, LastOK, At, Nothing
<1> QED
  BY <1>1, <1>2, <1>3, <1>4

\* Neither do de-chunking and decompression, which work in place.
LEMMA PrepareBuffers ==
  ASSUME BuffersInv, iob.te \in Transfers, Prepared \/ ChunksBroken \/ DecompressionFails
  PROVE  BuffersInv'
<1> DEFINE plain == IF "Chunked" \in s.flags THEN Dechunked ELSE iob
<1> USE DEF BuffersInv, pcrsVars
<1>1. plain \in Body /\ plain.edits = <<>>
  BY PreparedBody DEF TypeInv, EditsInv
<1>2. iob' \in Body /\ iob'.edits = <<>>
  <2>1. CASE Prepared
    BY <2>1, <1>1, PreparedBody DEF Prepared, TypeInv, EditsInv
  <2>2. CASE ChunksBroken
    BY <2>2 DEF ChunksBroken, TypeInv, EditsInv
  <2>3. CASE DecompressionFails
    <3>1. PICK nul \in BOOLEAN : iob' = [plain EXCEPT !.nul = nul]
      BY <2>3 DEF DecompressionFails
    <3> QED
      BY <3>1, <1>1 DEF Body
  <2> QED
    BY <2>1, <2>2, <2>3
<1>3. /\ at = "prepare" /\ at' \in {"send", "choose"}
      /\ content' = 0 /\ content = 0
      /\ UNCHANGED <<acts, heap, length, sent, pcrsVars, strayed>>
      /\ LastOK
      /\ "last job" \notin failed' /\ (at' = "choose" => failed' = failed)
  BY DEF Prepared, ChunksBroken, DecompressionFails, GiveUp, HeapInv, Early, LastOK
<1> HIDE DEF plain
<1>4. LastOK'
  BY <1>3 DEF LastOK
<1>5. TypeInv'
  BY <1>2, <1>3 DEF TypeInv, Places, Early
<1>6. HeapInv'
  BY <1>3, <1>4 DEF HeapInv, Early
<1>7. BalanceInv'
  <2>1. at' \in {"choose", "send"} /\ content' = 0 /\ strayed' = {} /\ DOMAIN heap' = {}
    BY <1>3 DEF HeapInv, Early
  <2> QED
    BY <2>1, NoName DEF BalanceInv, IOB
<1>8. EditsInv'
  BY <1>2, <1>3, <1>4 DEF EditsInv, HeapInv, Early
<1> QED
  BY <1>5, <1>6, <1>7, <1>8

\* Choosing the filters allocates nothing.
LEMMA ChooseBuffers ==
  ASSUME BuffersInv, Choose
  PROVE  BuffersInv'
<1> USE DEF BuffersInv, pcrsVars, Choose
<1> USE NoName
<1>1. TypeInv'
  BY DEF TypeInv, Places, Early
<1>2. HeapInv'
  BY DEF HeapInv, Early, IOB, Names, LastOK
<1>3. BalanceInv'
  <2>1. at' \in {"job", "gif", "external"} /\ content' = 0 /\ strayed' = {} /\ DOMAIN heap' = {}
    BY DEF HeapInv, Early
  <2> QED
    BY <2>1 DEF BalanceInv, IOB
<1>4. EditsInv'
  BY DEF EditsInv, HeapInv, Early, LastOK, At
<1> QED
  BY <1>1, <1>2, <1>3, <1>4

\* The copy a job made replaces the one it worked on.
LEMMA RunJobBuffers ==
  ASSUME BuffersInv, RunJob
  PROVE  BuffersInv'
<1> USE DEF BuffersInv
<1> DEFINE before == At(old)
<1>1. PICK hit \in BOOLEAN, n \in Sizes :
        LET after  == IF hit THEN [before EXCEPT !.edits = Append(@, <<f, j>>), !.size = n] ELSE before
        IN  /\ new' = Fresh
            /\ size' = after
            /\ hits' = IF hit THEN hits + 1 ELSE hits
            /\ edits' = IF hit THEN Append(edits, <<f, j>>) ELSE edits
            /\ Free(With(heap, Fresh, after), OldFreed)
            /\ old' = Fresh
  BY DEF RunJob
<1> DEFINE after  == IF hit THEN [before EXCEPT !.edits = Append(@, <<f, j>>), !.size = n] ELSE before
<1>2. /\ at = "job" /\ data = IOB /\ content = 0 /\ j' = j + 1
      /\ UNCHANGED <<at, acts, iob, content, length, sent, f, data>>
      /\ failed' = failed \ {"last job"}
  BY DEF RunJob, HeapInv, Early
<1>3. Fresh \in Names /\ Fresh \notin DOMAIN heap /\ Fresh # IOB /\ Fresh # 0
  BY FreshName DEF HeapInv, Names, IOB
<1>4. before = size /\ before \in Body /\ before.edits = edits
  BY <1>2 DEF EditsInv, TypeInv
<1>5. <<f, j>> \in Edit
  BY DEF TypeInv, Edit
<1>6. after \in Body /\ after.edits = edits' /\ edits' \in Seq(Edit) /\ (hits' = 0 =>
        edits' = <<>>) /\ hits' \in Nat
  <2>1. edits \in Seq(Edit) /\ hits \in Nat /\ (hits = 0 => edits = <<>>)
    BY <1>2 DEF TypeInv, HeapInv, Edit
  <2>2. CASE ~hit
    BY <1>1, <2>1, <2>2, <1>4
  <2>3. CASE hit
    <3>1. Append(edits, <<f, j>>) \in Seq(Edit)
      BY <2>1, <1>5, Appended
    <3>2. after = [before EXCEPT !.edits = Append(edits, <<f, j>>), !.size = n]
      BY <2>3, <1>4
    <3>3. after \in Body /\ after.edits = Append(edits, <<f, j>>)
      BY <3>1, <3>2, <1>4 DEF Body, Edit
    <3>4. edits' = Append(edits, <<f, j>>) /\ hits' = hits + 1
      BY <1>1, <2>3
    <3> QED
      BY <3>1, <3>3, <3>4, <2>1
  <2> QED
    BY <2>2, <2>3
<1> HIDE DEF before, after
<1>7. DOMAIN heap' = {Fresh} /\ heap'[Fresh] = after /\ strayed' = {}
  <2>1. DOMAIN heap = {old} \ {IOB} /\ OldFreed = {old} \ {IOB} /\ strayed = {}
    BY <1>2 DEF HeapInv, OldFreed
  <2>2. /\ heap' = Freed(With(heap, Fresh, after), OldFreed)
        /\ strayed' = strayed \cup (OldFreed \ (DOMAIN With(heap, Fresh, after) \cup {0}))
    BY <1>1 DEF Free, after, before
  <2>3. Fresh \notin OldFreed /\ OldFreed = DOMAIN heap
    BY <2>1, <1>3
  <2>4. DOMAIN heap' = {Fresh} /\ heap'[Fresh] = after
    BY <2>2, <2>3, Replaced
  <2>5. strayed' = {}
    BY <2>1, <2>2, <2>3 DEF With
  <2> QED
    BY <2>4, <2>5
<1>8. new' = Fresh /\ old' = Fresh /\ size' = after
  BY <1>1 DEF after, before
<1> USE DEF Edit
<1>9. TypeInv'
  <2>1. f' \in Nat /\ j' \in Nat
    <3>1. f \in Nat /\ j \in Nat
      BY DEF TypeInv
    <3>2. f' = f /\ j' = j + 1
      BY <1>2
    <3> QED
      BY <3>1, <3>2
  <2>2. {iob', size', length', sent'} \subseteq Body /\ \A p \in DOMAIN heap' : heap'[p] \in Body
    BY <1>2, <1>6, <1>7, <1>8 DEF TypeInv
  <2> QED
    BY <1>2, <1>6, <2>1, <2>2 DEF TypeInv
<1>10. HeapInv'
  BY <1>2, <1>3, <1>6, <1>7, <1>8 DEF HeapInv, Early
<1>11. BalanceInv'
  BY <1>2 DEF BalanceInv, HeapInv, Early
<1>12. EditsInv'
  BY <1>2, <1>3, <1>6, <1>7, <1>8 DEF EditsInv, Early, At
<1> QED
  BY <1>9, <1>10, <1>11, <1>12

\* A job that fails leaves the copy of the one before.
LEMMA JobBuffers ==
  ASSUME BuffersInv, JobFails \/ NextFilter
  PROVE  BuffersInv'
<1> USE DEF BuffersInv
<1>1. /\ at = "job" /\ f' = f + 1 /\ j' = 1
      /\ UNCHANGED <<at, acts, iob, heap, content, length, sent, data, old, hits, size, edits, strayed>>
  BY DEF JobFails, NextFilter
<1>2. \/ new' = 0 /\ "last job" \in failed'
      \/ UNCHANGED <<new, failed>>
  BY DEF JobFails, NextFilter
<1>3. TypeInv'
  <2>1. f' \in Nat /\ j' \in Nat
    BY <1>1 DEF TypeInv
  <2> QED
    BY <1>1, <2>1 DEF TypeInv, Places
<1>4. HeapInv'
  BY <1>1, <1>2 DEF HeapInv, Early, LastOK
<1>5. BalanceInv'
  BY <1>1 DEF BalanceInv
<1>6. EditsInv'
  BY <1>1 DEF EditsInv, Early, At
<1> QED
  BY <1>3, <1>4, <1>5, <1>6

\* The result is the last copy, or there is none and the copy is freed.
LEMMA EndFiltersBuffers ==
  ASSUME BuffersInv, EndFilters
  PROVE  BuffersInv'
<1> USE DEF BuffersInv
<1>1. /\ at = "job" /\ at' = "external" /\ data = IOB /\ content = 0 /\ f' = 1
      /\ UNCHANGED <<acts, sent, j, data, old, new, hits, size, edits, failed>>
      /\ strayed = {} /\ DOMAIN heap = {old} \ {IOB}
      /\ new \in {0} \cup ({old} \ {IOB}) /\ old \in Names \cup {IOB}
      /\ (LastOK' <=> LastOK)
      /\ At(old) = size /\ size.edits = edits /\ length = Nothing
  BY DEF EndFilters, HeapInv, Early, EditsInv, LastOK
<1>2. Nothing \in Body /\ Nothing.edits = <<>>
  BY BodyFacts DEF Nothing
<1>3. CASE AnyHits /\ new # 0
  <2>1. /\ content' = new /\ new = old /\ old \in Names /\ length' = size /\ iob' = Nothing
        /\ UNCHANGED <<heap, strayed>>
    BY <1>1, <1>3 DEF EndFilters
  <2>2. old # IOB /\ old # 0 /\ heap[old] = size /\ DOMAIN heap = {old}
    BY <2>1, <1>1 DEF Names, IOB, At
  <2>3. TypeInv'
    BY <1>1, <1>2, <2>1 DEF TypeInv, Places, Early
  <2>4. HeapInv'
    BY <1>1, <2>1, <2>2 DEF HeapInv, Early
  <2>5. BalanceInv'
    BY <1>1, <2>1, <2>2 DEF BalanceInv
  <2>6. EditsInv'
    BY <1>1, <1>2, <2>1, <2>2 DEF EditsInv, Early, At
  <2> QED
    BY <2>3, <2>4, <2>5, <2>6
<1>4. CASE AnyHits /\ new = 0
  <2>1. content' = 0 /\ UNCHANGED <<length, iob, heap, strayed>> /\ ~LastOK
    BY <1>1, <1>4 DEF EndFilters, AnyHits, HeapInv
  <2>2. DOMAIN heap \subseteq {old} \cap Names
    BY <1>1
  <2>3. TypeInv'
    BY <1>1, <2>1 DEF TypeInv, Places, Early
  <2>4. HeapInv'
    BY <1>1, <2>1, <2>2 DEF HeapInv, Early
  <2>5. BalanceInv'
    BY <1>1, <2>1, <2>2 DEF BalanceInv, IOB
  <2>6. EditsInv'
    BY <1>1, <2>1, <2>2 DEF EditsInv, Early
  <2> QED
    BY <2>3, <2>4, <2>5, <2>6
<1>5. CASE ~AnyHits
  <2>1. /\ content' = 0 /\ UNCHANGED <<length, iob>>
        /\ heap' = Freed(heap, ({old} \ {data}) \cup {new})
        /\ strayed' = strayed \cup ((({old} \ {data}) \cup {new}) \ (DOMAIN heap \cup {0}))
    BY <1>5 DEF EndFilters, Free
  <2>2. DOMAIN heap' = {} /\ strayed' = {}
    <3>1. DOMAIN heap' = DOMAIN heap \ (({old} \ {data}) \cup {new})
      BY <2>1, WithFacts, FreedFacts
    <3> QED
      BY <1>1, <2>1, <3>1
  <2>3. edits = <<>>
    BY <1>1, <1>5 DEF AnyHits, HeapInv, TypeInv
  <2>4. TypeInv'
    BY <1>1, <2>1, <2>2 DEF TypeInv, Places, Early
  <2>5. HeapInv'
    BY <1>1, <2>1, <2>2 DEF HeapInv, Early
  <2>6. BalanceInv'
    BY <1>1, <2>1, <2>2 DEF BalanceInv, IOB
  <2>7. EditsInv'
    BY <1>1, <2>1, <2>2, <2>3 DEF EditsInv, Early
  <2> QED
    BY <2>4, <2>5, <2>6, <2>7
<1> QED
  BY <1>3, <1>4, <1>5

\* The image filter works on the result of the filters or on the buffer.
LEMMA DeanimateBuffers ==
  ASSUME BuffersInv, Deanimate
  PROVE  BuffersInv'
<1> USE DEF BuffersInv
<1> DEFINE still == [iob EXCEPT !.edits = Append(@, Frame), !.size = 1]
<1>1. /\ at = "gif" /\ at' = "external" /\ content = 0 /\ DOMAIN heap = {} /\ strayed = {}
      /\ failed = {} /\ edits = <<>> /\ iob \in Body /\ iob.edits = <<>> /\ length = Nothing
      /\ UNCHANGED <<acts, iob, sent, f, j, data, old, new, hits, size, failed, strayed>>
  BY DEF Deanimate, HeapInv, Early, EditsInv, TypeInv
<1>2. CASE UNCHANGED <<content, heap, length, s, edits>>
  <2>1. TypeInv'
    BY <1>1, <1>2 DEF TypeInv, Places
  <2>2. HeapInv'
    BY <1>1, <1>2 DEF HeapInv, Early
  <2>3. BalanceInv'
    BY <1>1, <1>2, NoName DEF BalanceInv, IOB
  <2>4. EditsInv'
    BY <1>1, <1>2 DEF EditsInv, Early
  <2> QED
    BY <2>1, <2>2, <2>3, <2>4
<1>3. CASE /\ content' = Fresh /\ heap' = With(heap, Fresh, still)
           /\ length' = still /\ edits' = Append(edits, Frame)
  <2>1. Fresh \in Names /\ Fresh # 0 /\ Fresh # IOB
    BY <1>1, FreshName DEF Names, IOB
  <2>2. DOMAIN heap' = {Fresh} /\ heap'[Fresh] = still
    BY <1>1, <1>3 DEF With
  <2>3. Frame \in Edit
    BY DEF Frame, Edit
  <2>4. still \in Body /\ still.edits = edits' /\ edits' \in Seq(Edit)
    <3>1. Append(edits, Frame) \in Seq(Edit)
      BY <1>1, <2>3, Appended, BodyFacts
    <3>2. still = [iob EXCEPT !.edits = Append(edits, Frame), !.size = 1]
      BY <1>1
    <3> QED
      <4>1. 1 \in Sizes
        BY DEF Sizes
      <4>2. still \in Body /\ still.edits = Append(edits, Frame)
        BY <1>1, <3>1, <3>2, <4>1 DEF Body, Edit
      <4> QED
        BY <1>3, <3>1, <4>2
  <2> HIDE DEF still
  <2>5. TypeInv'
    BY <1>1, <1>3, <2>2, <2>4 DEF TypeInv, Places, Edit
  <2>6. HeapInv'
    BY <1>1, <1>3, <2>1, <2>2 DEF HeapInv, Early
  <2>7. BalanceInv'
    BY <1>1, <1>3, <2>1, <2>2 DEF BalanceInv
  <2>8. EditsInv'
    BY <1>1, <1>3, <2>1, <2>2, <2>4 DEF EditsInv, Early, At
  <2> QED
    BY <2>5, <2>6, <2>7, <2>8
<1> QED
  BY <1>2, <1>3 DEF Deanimate

\* The external filters work on a copy of the buffer, or on the result of the filters.
LEMMA StartExternalBuffers ==
  ASSUME BuffersInv, StartExternal
  PROVE  BuffersInv'
<1> USE DEF BuffersInv
<1>1. /\ 0 # IOB /\ IOB \notin Names /\ at = "external"
      /\ UNCHANGED <<acts, iob, heap, length, sent, j, data, old, new, hits, edits, failed, strayed>>
      /\ content # IOB
      /\ LastOK => strayed = {} /\ DOMAIN heap = {content} \ {0, IOB}
      /\ LastOK' = LastOK
      /\ content \in DOMAIN heap \cup {0} /\ DOMAIN heap \subseteq {old, content} \cap Names
      /\ iob.edits = <<>> /\ iob \in Body /\ length \in Body
      /\ content = 0 => (edits = <<>> \/ ~LastOK) /\ length = Nothing
      /\ content # 0 => At(content) = length
      /\ content # 0 /\ LastOK => At(content).edits = edits
  <2>1. /\ 0 # IOB /\ IOB \notin Names /\ at = "external"
        /\ UNCHANGED <<acts, iob, heap, length, sent, j, data, old, new, hits, edits, failed, strayed>>
    BY DEF StartExternal, IOB, Names
  <2>2. /\ content # IOB
        /\ LastOK => strayed = {} /\ DOMAIN heap = {content} \ {0, IOB}
        /\ LastOK' = LastOK
    BY <2>1 DEF BalanceInv, LastOK
  <2>3. content \in DOMAIN heap \cup {0} /\ DOMAIN heap \subseteq {old, content} \cap Names
    BY <2>2 DEF HeapInv
  <2>4. /\ iob.edits = <<>> /\ iob \in Body /\ length \in Body
        /\ content = 0 => (edits = <<>> \/ ~LastOK) /\ length = Nothing
        /\ content # 0 => At(content) = length
        /\ content # 0 /\ LastOK => At(content).edits = edits
    BY <2>1 DEF EditsInv, TypeInv
  <2> QED
    BY <2>1, <2>2, <2>3, <2>4
<1>2. CASE HasExternal
  <2>1. /\ content' = (IF content = 0 THEN IOB ELSE content)
        /\ size' = (IF content = 0 THEN iob ELSE length)
        /\ f' = 1 /\ at' = "run"
    BY <1>2 DEF StartExternal
  <2>2. acts'.external # <<>>
    BY <1>1, <1>2 DEF HasExternal
  <2>3. TypeInv'
    BY <1>1, <2>1 DEF TypeInv, Places
  <2>4. HeapInv'
    BY <1>1, <2>1 DEF HeapInv, Early
  <2>5. BalanceInv'
    BY <1>1, <2>1, <2>2, NoName DEF BalanceInv
  <2>6. EditsInv'
    BY <1>1, <2>1 DEF EditsInv, Early, At
  <2> QED
    BY <2>3, <2>4, <2>5, <2>6
<1>3. CASE ~HasExternal
  <2>1. at' = "compress" /\ UNCHANGED <<content, size, f>>
    BY <1>3 DEF StartExternal
  <2>2. TypeInv'
    BY <1>1, <2>1 DEF TypeInv, Places
  <2>3. HeapInv'
    BY <1>1, <2>1 DEF HeapInv, Early
  <2>4. BalanceInv'
    BY <1>1, <2>1 DEF BalanceInv
  <2>5. EditsInv'
    BY <1>1, <2>1 DEF EditsInv, Early, At
  <2> QED
    BY <2>2, <2>3, <2>4, <2>5
<1> QED
  BY <1>2, <1>3

\* A program's output replaces its input, which is not freed if it is the buffer's.
LEMMA RunExternalBuffers ==
  ASSUME BuffersInv, RunExternal
  PROVE  BuffersInv'
<1> USE DEF BuffersInv
<1>1. /\ 0 # IOB /\ IOB \notin Names /\ at = "run" /\ at' = "run" /\ f' = f + 1
      /\ UNCHANGED <<acts, iob, length, sent, j, data, old, new, hits>>
      /\ content # 0 /\ acts.external # <<>>
      /\ LastOK => strayed = {} /\ DOMAIN heap = {content} \ {0, IOB}
      /\ content \in DOMAIN heap \cup {IOB} /\ DOMAIN heap \subseteq {old, content} \cap Names
      /\ At(content) = size /\ iob.edits = <<>>
      /\ LastOK => size.edits = edits
      /\ content = IOB => edits = <<>> \/ ~LastOK
      /\ size \in Body /\ iob \in Body /\ edits \in Seq(Edit) /\ f \in Nat
  <2>1. 0 # IOB /\ IOB \notin Names /\ at = "run" /\ at' = "run" /\ f' = f + 1
        /\ UNCHANGED <<acts, iob, length, sent, j, data, old, new, hits>>
    <3>1. 0 # IOB /\ IOB \notin Names
      BY DEF IOB, Names
    <3>2. at = "run" /\ at' = "run" /\ f' = f + 1
      BY DEF RunExternal
    <3>3. UNCHANGED <<acts, iob, length, sent, j, data, old, new, hits>>
      BY DEF RunExternal
    <3> QED
      BY <3>1, <3>2, <3>3
  <2>2. /\ content # 0 /\ acts.external # <<>>
        /\ LastOK => strayed = {} /\ DOMAIN heap = {content} \ {0, IOB}
    BY <2>1 DEF BalanceInv
  <2>3. content \in DOMAIN heap \cup {IOB} /\ DOMAIN heap \subseteq {old, content} \cap Names
    BY <2>2 DEF HeapInv
  <2>4. /\ At(content) = size /\ iob.edits = <<>>
        /\ LastOK => size.edits = edits
        /\ content = IOB => edits = <<>> \/ ~LastOK
    BY <2>1, <2>2 DEF EditsInv
  <2>5. size \in Body /\ iob \in Body /\ edits \in Seq(Edit) /\ f \in Nat
    BY DEF TypeInv, Edit
  <2> QED
    BY <2>1, <2>2, <2>3, <2>4, <2>5
<1>2. CASE failed' = failed \cup {"external"} /\ UNCHANGED <<heap, strayed, content, size, edits>>
  <2>1. LastOK' = LastOK
    BY <1>2 DEF LastOK
  <2>2. TypeInv'
    <3>1. f' \in Nat
      BY <1>1
    <3> QED
      BY <1>1, <1>2, <3>1 DEF TypeInv
  <2>3. HeapInv'
    BY <1>1, <1>2 DEF HeapInv, Early
  <2>4. BalanceInv'
    BY <1>1, <1>2, <2>1 DEF BalanceInv
  <2>5. EditsInv'
    BY <1>1, <1>2, <2>1 DEF EditsInv, Early, At
  <2> QED
    BY <2>2, <2>3, <2>4, <2>5
<1>3. ASSUME NEW n \in Sizes, UNCHANGED failed,
             LET out == [At(content) EXCEPT !.edits = Append(@, External(f)), !.size = n] IN
             /\ Free(With(heap, Fresh, out), {content} \ {IOB})
             /\ content' = Fresh
             /\ size' = out
             /\ edits' = Append(edits, External(f))
      PROVE  BuffersInv'
  <2> DEFINE out == [At(content) EXCEPT !.edits = Append(@, External(f)), !.size = n]
  <2>1. Fresh \in Names /\ Fresh \notin DOMAIN heap /\ Fresh # 0 /\ Fresh # IOB
    BY <1>1, FreshName DEF Names, IOB
  <2>2. External(f) \in Edit
    BY <1>1 DEF External, Edit
  <2>3. /\ out \in Body /\ edits' \in Seq(Edit) /\ edits' # <<>>
        /\ LastOK => out.edits = edits'
    <3> DEFINE es == Append(size.edits, External(f))
    <3>1. es \in Seq(Edit) /\ edits' \in Seq(Edit) /\ edits' # <<>>
      BY <1>1, <1>3, <2>2, Appended, BodyFacts
    <3>2. out = [size EXCEPT !.edits = es, !.size = n]
      BY <1>1
    <3>3. out \in Body /\ out.edits = es
      <4> HIDE DEF es, out
      <4> QED
        BY <1>1, <3>1, <3>2 DEF Body, Edit
    <3> QED
      BY <1>1, <1>3, <3>1, <3>3
  <2>4. /\ content' = Fresh /\ size' = out
        /\ heap' = Freed(With(heap, Fresh, out), {content} \ {IOB})
        /\ strayed' = strayed \cup (({content} \ {IOB}) \ (DOMAIN With(heap, Fresh, out) \cup {0}))
    BY <1>3 DEF Free
  <2> HIDE DEF out
  <2>5. DOMAIN heap' = (DOMAIN heap \ ({content} \ {IOB})) \cup {Fresh} /\ heap'[Fresh] = out
    <3> DEFINE P == {content} \ {IOB}
    <3>1. Fresh \notin P /\ heap' = Freed(With(heap, Fresh, out), P)
      BY <1>1, <2>1, <2>4
    <3> HIDE DEF P
    <3>2. DOMAIN heap' = (DOMAIN heap \ P) \cup {Fresh} /\ heap'[Fresh] = out
      BY <3>1 DEF With, Freed, Restrict
    <3> QED
      BY <3>2 DEF P
  <2>6. /\ \A p \in DOMAIN heap' : heap'[p] \in Body
        /\ LastOK => DOMAIN heap' = {Fresh} /\ strayed' = {}
    <3>1. \A p \in DOMAIN heap' : heap'[p] \in Body
      BY <2>1, <2>3, <2>4, <2>5 DEF TypeInv, With, Freed, Restrict
    <3>2. ASSUME LastOK PROVE DOMAIN heap' = {Fresh}
      BY <1>1, <2>5, <3>2
    <3>3. ASSUME LastOK PROVE strayed' = {}
      BY <1>1, <2>4, <3>3 DEF With
    <3> QED
      BY <3>1, <3>2, <3>3
  <2>7. LastOK' = LastOK
    BY <1>3 DEF LastOK
  <2>8. TypeInv'
    <3>1. f' \in Nat
      BY <1>1
    <3> QED
      BY <1>1, <2>3, <2>4, <2>6, <3>1 DEF TypeInv, Edit
  <2>9. HeapInv'
    BY <1>1, <2>1, <2>4, <2>5 DEF HeapInv, Early
  <2>10. BalanceInv'
    BY <1>1, <2>1, <2>4, <2>6, <2>7 DEF BalanceInv
  <2>11. EditsInv'
    BY <1>1, <2>1, <2>3, <2>4, <2>5, <2>7 DEF EditsInv, Early, At
  <2> QED
    BY <2>8, <2>9, <2>10, <2>11
<1> QED
  BY <1>2, <1>3 DEF RunExternal

\* There was an external filter, so that the buffer itself is the result only if it failed.
LEMMA EndExternalBuffers ==
  ASSUME BuffersInv, EndExternal
  PROVE  BuffersInv'
<1> USE DEF BuffersInv
<1>1. /\ at = "run" /\ at' = "compress" /\ length' = size /\ f > Len(acts.external)
      /\ UNCHANGED <<acts, iob, heap, content, sent, pcrsVars, failed, strayed>>
  BY DEF EndExternal
<1>2. content # 0 /\ (content = IOB => "external" \in failed)
  <2>1. acts.external # <<>> /\ acts.external \in Seq(STRING) /\ f \in Nat
    BY <1>1, FilteringAssumption DEF BalanceInv, TypeInv
  <2>2. f # 1
    <3> DEFINE e == acts.external
    <3>1. e \in Seq(STRING) /\ e # <<>> /\ f > Len(e)
      BY <1>1, <2>1
    <3> HIDE DEF e
    <3>2. Len(e) \in Nat /\ Len(e) # 0
      BY <3>1
    <3> QED
      BY <3>1, <3>2, <2>1
  <2> QED
    BY <1>1, <2>2 DEF BalanceInv
<1>3. TypeInv'
  BY <1>1 DEF TypeInv, pcrsVars, Places
<1>4. HeapInv'
  BY <1>1 DEF HeapInv, pcrsVars, Early
<1>5. BalanceInv'
  <2>1. ASSUME LastOK, "external" \in failed => edits # <<>>
        PROVE  strayed = {} /\ content # IOB /\ DOMAIN heap = {content} \ {0}
    <3>1. content # IOB
      BY <1>1, <1>2, <2>1 DEF EditsInv
    <3>2. strayed = {} /\ DOMAIN heap = {content} \ {0, IOB}
      BY <1>1, <2>1 DEF BalanceInv
    <3> QED
      BY <3>1, <3>2
  <2>2. LastOK' = LastOK
    BY <1>1 DEF LastOK
  <2> QED
    BY <1>1, <2>1, <2>2 DEF BalanceInv, pcrsVars
<1>6. EditsInv'
  BY <1>1 DEF EditsInv, pcrsVars, At, Early, LastOK, BalanceInv
<1> QED
  BY <1>3, <1>4, <1>5, <1>6

\* The compressed result replaces the result; a buffer is left alone.
LEMMA CompressBuffers ==
  ASSUME BuffersInv, Compress
  PROVE  BuffersInv'
<1> USE DEF BuffersInv
<1>1. 0 # IOB /\ IOB \notin Names
  BY DEF IOB, Names
<1>2. /\ at = "compress" /\ at' = "send"
      /\ UNCHANGED <<acts, iob, sent, f, j, data, old, new, hits, size, edits, failed>>
  BY DEF Compress, pcrsVars
<1>3. LastOK /\ ("external" \in failed => edits # <<>>)
       => strayed = {} /\ content # IOB /\ DOMAIN heap = {content} \ {0}
  BY <1>2 DEF BalanceInv
<1>4. content \in DOMAIN heap \cup {0, IOB} /\ DOMAIN heap \subseteq {old, content} \cap Names
  BY DEF HeapInv
<1>5. /\ iob.edits = <<>>
      /\ content \in {0, IOB} => edits = <<>> \/ ~LastOK
      /\ content # 0 => At(content) = length
      /\ content # 0 /\ LastOK => length.edits = edits
  BY <1>2 DEF EditsInv
<1>6. length \in Body /\ iob \in Body
  BY DEF TypeInv
<1>7. LastOK' = LastOK
  BY <1>2 DEF LastOK
<1>8. CASE UNCHANGED <<heap, strayed, content, length, s>>
  <2>1. TypeInv'
    BY <1>2, <1>8 DEF TypeInv, Places
  <2>2. HeapInv'
    BY <1>2, <1>4, <1>8 DEF HeapInv, Early
  <2>3. BalanceInv'
    BY <1>2, <1>3, <1>7, <1>8 DEF BalanceInv
  <2>4. EditsInv'
    BY <1>2, <1>5, <1>7, <1>8 DEF EditsInv, Early, At
  <2> QED
    BY <2>1, <2>2, <2>3, <2>4
<1>9. CASE /\ content # 0
           /\ LET deflated == [At(content) EXCEPT !.ce = Append(@, "deflate"), !.size = 1] IN
              /\ Free(With(heap, Fresh, deflated), {content})
              /\ content' = Fresh
              /\ length' = deflated
  <2> DEFINE deflated == [At(content) EXCEPT !.ce = Append(@, "deflate"), !.size = 1]
  <2>1. Fresh \in Names /\ Fresh \notin DOMAIN heap /\ Fresh # 0 /\ Fresh # IOB /\ Fresh # content
    BY <1>4, <1>9, FreshName DEF Names, IOB
  <2>2. deflated \in Body /\ deflated.edits = length.edits
    <3>1. Append(length.ce, "deflate") \in Seq(Coding)
      <4>1. "deflate" \in Coding
        BY DEF Coding
      <4>2. length.ce \in Seq(Coding)
        BY <1>6 DEF Body
      <4> QED
        BY <4>1, <4>2
    <3>2. deflated = [length EXCEPT !.ce = Append(length.ce, "deflate"), !.size = 1]
      BY <1>5, <1>9
    <3>3. 1 \in Sizes
      BY DEF Sizes
    <3> QED
      BY <1>6, <3>1, <3>2, <3>3 DEF Body
  <2>3. /\ content' = Fresh /\ length' = deflated
        /\ heap' = Freed(With(heap, Fresh, deflated), {content})
        /\ strayed' = strayed \cup ({content} \ (DOMAIN With(heap, Fresh, deflated) \cup {0}))
    BY <1>9 DEF Free
  <2> HIDE DEF deflated
  <2>4. DOMAIN heap' = (DOMAIN heap \ {content}) \cup {Fresh} /\ heap'[Fresh] = deflated
    <3> DEFINE P == {content}
    <3>1. Fresh \notin P /\ heap' = Freed(With(heap, Fresh, deflated), P)
      BY <2>1, <2>3
    <3> HIDE DEF P
    <3>2. DOMAIN heap' = (DOMAIN heap \ P) \cup {Fresh} /\ heap'[Fresh] = deflated
      BY <3>1 DEF With, Freed, Restrict
    <3> QED
      BY <3>2 DEF P
  <2>5. \A p \in DOMAIN heap' : heap'[p] \in Body
    BY <2>1, <2>2, <2>3, <2>4 DEF TypeInv, With, Freed, Restrict
  <2>6. ASSUME LastOK, "external" \in failed => edits # <<>>
        PROVE  DOMAIN heap' = {Fresh} /\ strayed' = {}
    <3>1. strayed = {} /\ DOMAIN heap = {content}
      BY <1>3, <1>9, <2>6
    <3>2. DOMAIN heap' = {Fresh}
      BY <2>4, <3>1
    <3>3. strayed' = {}
      BY <2>3, <3>1 DEF With
    <3> QED
      BY <3>2, <3>3
  <2>7. TypeInv'
    BY <1>2, <2>2, <2>3, <2>5 DEF TypeInv, Places
  <2>8. HeapInv'
    BY <1>2, <1>4, <2>1, <2>3, <2>4 DEF HeapInv, Early
  <2>9. BalanceInv'
    BY <1>2, <1>7, <2>1, <2>3, <2>6 DEF BalanceInv
  <2>10. EditsInv'
    BY <1>1, <1>9, <1>2, <1>5, <1>7, <2>1, <2>2, <2>3, <2>4 DEF EditsInv, Early, At
  <2> QED
    BY <2>7, <2>8, <2>9, <2>10
<1> QED
  BY <1>8, <1>9 DEF Compress

\* In the end the result is freed.
LEMMA SendBuffers ==
  ASSUME BuffersInv, Send
  PROVE  BuffersInv' /\ MemoryBalanced'
<1> USE DEF BuffersInv
<1> DEFINE len == BodyLength
           p   == IF content = 0 THEN IOB ELSE content
<1>1. /\ at = "send" /\ at' = "done" /\ content' = 0 /\ length' = len /\ sent' = At(p)
      /\ heap' = Freed(heap, {content})
      /\ strayed' = strayed \cup ({content} \ (DOMAIN heap \cup {0}))
      /\ UNCHANGED <<acts, iob, f, j, data, old, new, hits, size, edits, failed>>
  BY DEF Send, UpdateHead, pcrsVars, Free
<1>2. LastOK /\ ("external" \in failed => edits # <<>>)
       => strayed = {} /\ content # IOB /\ DOMAIN heap = {content} \ {0}
  BY <1>1 DEF BalanceInv
<1>3. content \in DOMAIN heap \cup {0, IOB} /\ DOMAIN heap \subseteq {old, content} \cap Names
  BY DEF HeapInv
<1>4. /\ iob.edits = <<>>
      /\ content = 0 => edits = <<>> \/ ~LastOK
      /\ content # 0 => At(content) = length
      /\ content # 0 /\ LastOK => length.edits = edits
  BY <1>1 DEF EditsInv
<1>5. length \in Body /\ iob \in Body
  BY DEF TypeInv
<1>6. LastOK' = LastOK
  BY <1>1 DEF LastOK
<1>7. At(p) = len /\ len \in Body /\ (LastOK => len.edits = edits)
  BY <1>4, <1>5 DEF At, BodyLength
<1>8. DOMAIN heap' = DOMAIN heap \ {content} /\ \A x \in DOMAIN heap' : heap'[x] \in Body
  BY <1>1 DEF TypeInv, Freed, Restrict
<1> HIDE DEF len, p
<1>9. TypeInv'
  BY <1>1, <1>7, <1>8 DEF TypeInv, Places
<1>10. HeapInv'
  BY <1>1, <1>3, <1>8 DEF HeapInv, Early
<1>11. BalanceInv'
  BY <1>1 DEF BalanceInv
<1>12. EditsInv'
  BY <1>1, <1>4, <1>6, <1>7 DEF EditsInv, Early
<1>13. MemoryBalanced'
  <2>1. ASSUME LastOK, "external" \in failed => edits # <<>>
        PROVE  DOMAIN heap' = {} /\ strayed' = {}
    <3>1. strayed = {} /\ DOMAIN heap = {content} \ {0}
      BY <1>2, <2>1
    <3>2. DOMAIN heap' = {}
      BY <3>1, <1>8
    <3> QED
      BY <1>1, <3>1, <3>2
  <2> QED
    BY <1>1, <1>6, <2>1 DEF MemoryBalanced, Leaked, LastOK
<1> QED
  BY <1>9, <1>10, <1>11, <1>12, <1>13

\* A client that is gone before the head costs the result, and nothing but that.
LEMMA SendFailsBuffers ==
  ASSUME BuffersInv, SendFails
  PROVE  BuffersInv' /\ MemoryBalanced'
<1> USE DEF BuffersInv
<1>1. /\ at = "send" /\ at' = "gone" /\ length' = BodyLength
      /\ UNCHANGED <<method, acts, iob, heap, content, sent, strayed, f, j, data, old, new, hits,
                    size, edits, failed>>
  BY DEF SendFails, UpdateHead, pcrsVars
<1>2. LastOK /\ ("external" \in failed => edits # <<>>)
       => strayed = {} /\ DOMAIN heap = {content} \ {0}
  BY <1>1 DEF BalanceInv
<1>3. BodyLength \in Body
  BY DEF TypeInv, BodyLength
<1>4. TypeInv' /\ HeapInv' /\ BalanceInv' /\ EditsInv'
  BY <1>1, <1>3 DEF TypeInv, HeapInv, BalanceInv, EditsInv, Places, Early
<1>5. MemoryBalanced'
  BY <1>1, <1>2 DEF MemoryBalanced, Leaked, LastOK
<1> QED
  BY <1>4, <1>5

-----------------------------------------------------------------------------
(* What is told, step by step.                                             *)

\* What the server sends describes itself.
LEMMA InitTold ==
  ASSUME Init
  PROVE  UnreadInv /\ HeadInv /\ CookieInv /\ MemoryBalanced
<1>1. PICK r \in Responses, flags \in ClientFlags :
        /\ s = [head |-> r.head, status |-> r.status, type |-> {}, flags |-> flags]
        /\ method = r.method /\ iob = r.body
  BY DEF Init
<1>2. at = "head"
  BY DEF Init
<1>3. /\ r.body \in Unread
      /\ r.method # "HEAD" => Describes(r.head, r.body)
      /\ "Set-Cookie" \in DOMAIN r.head =>
           r.head["Set-Cookie"] \in Seq({"over", "soon", "late", "unreadable"})
      /\ flags \subseteq {"ClientKeepAlive", "ClientDeflate", "Tainted"}
  BY FilteringAssumption
<1>4. Shape(s) /\ s.head = r.head /\ s.type = {} /\ s.flags = flags
  BY <1>1 DEF Shape
<1>5. {"Modified", "Deflated", "Chunked", "ServerLength"} \cap flags = {}
  BY <1>3
<1>6. StartInv
  BY <1>1, <1>3, <1>4, <1>5 DEF StartInv, Has
<1>7. ToldInv /\ LengthInv /\ PreparedInv /\ WorkInv /\ CodedInv /\ SendInv /\ DoneInv
  BY <1>2 DEF ToldInv, LengthInv, PreparedInv, WorkInv, CodedInv, SendInv, DoneInv
<1>8. UnreadInv /\ CookieInv /\ MemoryBalanced
  BY <1>1, <1>2, <1>3 DEF UnreadInv, CookieInv, MemoryBalanced, Ended
<1> QED
  BY <1>6, <1>7, <1>8 DEF HeadInv

\* sed() and the decision whether to buffer the body.
LEMMA EditHeadTold ==
  ASSUME TypeInv, HeapInv, EditsInv, UnreadInv, StartInv, EditHead
  PROVE  HeadInv' /\ CookieInv' /\ UnreadInv'
<1> DEFINE u == sed(s, acts)
           v == ForcedType(u, acts)
           buffer == content_requires_filtering(u, acts)
<1>1. /\ at = "head" /\ s' = v
      /\ at' = IF buffer THEN "prepare" ELSE "done"
      /\ ~buffer => sent' = iob
      /\ acts' = acts /\ method' = method /\ iob' = iob /\ content' = content /\ length' = length
      /\ edits' = edits /\ failed' = failed
  BY DEF EditHead, pcrsVars
<1>2. /\ Shape(s) /\ s.type = {}
      /\ {"Modified", "Deflated", "Chunked", "ServerLength"} \cap s.flags = {}
      /\ method # "HEAD" => Describes(s.head, iob)
      /\ Has(s, "Set-Cookie") =>
           s.head["Set-Cookie"] \in Seq({"over", "soon", "late", "unreadable"})
  BY <1>1 DEF StartInv
<1>3. acts \in ActionSets /\ iob \in Unread
  BY <1>1 DEF TypeInv, UnreadInv
<1>4. /\ Shape(u)
      /\ {"Modified", "Deflated"} \cap u.flags = {}
      /\ "Chunked" \in u.flags <=> HasChunks(s)
      /\ Same(s, u, {"Content-Encoding", "Transfer-Encoding"} \ {acts.crunch})
      /\ Has(u, "Content-Length") => /\ Has(s, "Content-Length")
                                     /\ Readable(s.head["Content-Length"])
                                     /\ u.head["Content-Length"] = s.head["Content-Length"]
      /\ "ServerLength" \in u.flags /\ acts.crunch # "Content-Length" => Has(u, "Content-Length")
      /\ "TABOO" \notin u.type =>
           /\ ~HasGzipped(s)
           /\ \A b \in Compressed \cup {"TABOO"} : b \in u.type <=> b \in Bits(s)
      /\ Has(u, "Set-Cookie") =>
              /\ Has(s, "Set-Cookie")
              /\ acts.sessionCookies \/ acts.limitCookies =>
                   u.head["Set-Cookie"] = server_set_cookie_dates(s.head["Set-Cookie"], acts)
  BY <1>2, <1>3, SedFacts
<1>5. buffer => "TABOO" \notin u.type \/ acts.forceText
  BY DEF content_requires_filtering
<1> HIDE DEF u, buffer
<1>6. /\ Shape(v) /\ v.head = u.head /\ v.flags = u.flags
      /\ \A b \in Compressed \cup {"TABOO"} : b \in v.type <=> b \in u.type
  BY <1>4, ForcedFacts
<1> HIDE DEF v
<1>7. CookieInv'
  <2>1. SUFFICES ASSUME Has(v, "Set-Cookie"), acts.limitCookies \/ acts.sessionCookies
                 PROVE  /\ ToSet(v.head["Set-Cookie"]) \cap {"late", "unreadable"} = {}
                        /\ acts.limitCookies => v.head["Set-Cookie"] # <<>>
    BY <1>1 DEF CookieInv
  <2>2. v.head["Set-Cookie"] = server_set_cookie_dates(s.head["Set-Cookie"], acts)
    BY <1>4, <1>6, <2>1 DEF Has
  <2>3. s.head["Set-Cookie"] \in Seq({"over", "soon", "late", "unreadable"})
    BY <1>2, <1>4, <1>6, <2>1 DEF Has
  <2> DEFINE dates == s.head["Set-Cookie"]
             r == server_set_cookie_dates(dates, acts)
  <2> HIDE DEF dates
  <2>4. ToSet(r) \cap Unlimited = {} /\ (acts.limitCookies => r # <<>>)
    BY <2>3, DatesLimited DEF dates
  <2> QED
    BY <2>2, <2>4 DEF dates, Unlimited
<1>8. method # "HEAD" =>
        /\ ToldIn(s, "Transfer-Encoding") = iob.te
        /\ ToldIn(s, "Content-Encoding") = iob.ce
        /\ HasChunks(s) <=> "chunked" \in ToSet(iob.te)
        /\ HasGzipped(s) <=> "gzip" \in ToSet(iob.te)
        /\ Has(s, "Content-Encoding") => iob.ce # <<>> /\ Bits(s) = CodingBits[Last(iob.ce)]
        /\ ~Has(s, "Content-Encoding") => iob.ce = <<>> /\ Bits(s) = {}
        /\ Has(s, "Content-Length") =>
             ~Readable(s.head["Content-Length"]) \/ s.head["Content-Length"] = Bytes(iob)
  <2>1. ToSet(<<>>) = {}
    BY DEF ToSet
  <2> QED
    BY <1>2, <2>1 DEF Describes, ToldIn, HasChunks, HasGzipped, Bits, Has
<1>9. /\ TEKept => ToldIn(v, "Transfer-Encoding") = ToldIn(s, "Transfer-Encoding")
      /\ CEKept => ToldIn(v, "Content-Encoding") = ToldIn(s, "Content-Encoding")
      /\ CEKept => (Has(v, "Content-Encoding") <=> Has(s, "Content-Encoding"))
  BY <1>4, <1>6 DEF ToldIn, Same, Has, TEKept, CEKept
<1>10. /\ iob.te \in Transfers /\ iob.ce \in Codings /\ iob.nul = FALSE
  BY <1>3 DEF Unread
<1>11. content = 0 /\ edits = <<>> /\ length = Nothing /\ iob.edits = <<>>
  BY <1>1 DEF HeapInv, EditsInv, Early
<1>12. StartInv' /\ WorkInv' /\ CodedInv' /\ SendInv'
  BY <1>1 DEF StartInv, WorkInv, CodedInv, SendInv
<1>13. UnreadInv'
  BY <1>1, <1>3 DEF UnreadInv
<1>14. method # "HEAD" /\ Has(v, "Content-Length") => v.head["Content-Length"] = Bytes(iob)
  BY <1>4, <1>6, <1>8 DEF Has
<1>15. LengthInv'
  BY <1>1, <1>10, <1>11, <1>14 DEF LengthInv
<1>16. "Chunked" \in v.flags <=> HasChunks(s)
  BY <1>4, <1>6
<1>17. ASSUME buffer, ~acts.forceText, method # "HEAD"
       PROVE  /\ "gzip" \notin ToSet(iob.te)
              /\ iob.ce # <<>> => /\ "TABOO" \notin CodingBits[Last(iob.ce)]
                                  /\ v.type \cap Compressed # {} <=>
                                       CodingBits[Last(iob.ce)] \cap Compressed # {}
              /\ iob.ce = <<>> => v.type \cap Compressed = {}
  BY <1>4, <1>5, <1>6, <1>8, <1>17
<1>18. ToldInv'
  <2>1. TEKept /\ method # "HEAD" =>
          ("Chunked" \in v.flags <=> "chunked" \in ToSet(ToldIn(v, "Transfer-Encoding")))
    BY <1>8, <1>9, <1>16
  <2>2. TEKept /\ method # "HEAD" /\ buffer /\ ~acts.forceText =>
          "gzip" \notin ToSet(ToldIn(v, "Transfer-Encoding"))
    BY <1>8, <1>9, <1>17
  <2>3. CEKept /\ method # "HEAD" /\ Has(v, "Content-Encoding") => v.head["Content-Encoding"] # <<>>
    BY <1>8, <1>9 DEF ToldIn
  <2>4. "ServerLength" \in v.flags => acts.crunch = "Content-Length" \/ Has(v, "Content-Length")
    BY <1>4, <1>6 DEF Has
  <2>5. "Deflated" \notin v.flags
    BY <1>4, <1>6
  <2> QED
    BY <1>1, <1>6, <2>1, <2>2, <2>3, <2>4, <2>5 DEF ToldInv, TEKept, CEKept
<1>19. PreparedInv'
  <2>1. ASSUME buffer, ~acts.forceText, method # "HEAD"
        PROVE  /\ iob.te \in {<<>>, <<"chunked">>}
               /\ iob.ce \in {<<>>, <<"zstd">>, <<"gzip">>, <<"deflate">>, <<"br">>}
               /\ v.type \cap Compressed # {} <=> iob.ce \in {<<"gzip">>, <<"deflate">>, <<"br">>}
    <3>1. iob.te \in {<<>>, <<"chunked">>}
      BY <1>10, <1>17, <2>1, TransferFacts
    <3>2. CASE iob.ce = <<>>
      <4>1. <<>> \notin {<<"gzip">>, <<"deflate">>, <<"br">>}
        OBVIOUS
      <4> QED
        BY <1>17, <2>1, <3>1, <3>2, <4>1
    <3>3. CASE iob.ce # <<>>
      BY <1>10, <1>17, <2>1, <3>1, <3>3, CodingFacts DEF Known
    <3> QED
      BY <3>2, <3>3
  <2>2. method # "HEAD" => ("Chunked" \in v.flags <=> iob.te # <<>> /\ Last(iob.te) = "chunked")
    BY <1>8, <1>10, <1>16, TransferFacts
  <2>3. "Modified" \notin v.flags
    BY <1>4, <1>6
  <2> QED
    BY <1>1, <1>8, <1>9, <2>1, <2>2, <2>3 DEF PreparedInv, TEKept, CEKept
<1>20. ~buffer => HeadFitsBody' /\ KeptClientFindsEnd'
  <2>1. SUFFICES ASSUME ~buffer PROVE HeadFitsBody' /\ KeptClientFindsEnd'
    OBVIOUS
  <2>2. at' = "done" /\ sent' = iob /\ length' = Nothing
    BY <1>1, <1>11, <2>1
  <2>3. LengthTold'
    BY <1>1, <1>14, <2>2 DEF LengthTold, Has
  <2>4. CodingTold'
    BY <1>1, <1>8, <1>9, <2>2 DEF CodingTold, CodingsTold, Told, ToldIn, TEKept, CEKept, Has
  <2>5. EditsSent'
    BY <1>1, <1>11, <2>2 DEF EditsSent
  <2>6. KeptClientFindsEnd'
    <3>1. ASSUME "ServerLength" \in v.flags, acts.crunch # "Content-Length"
          PROVE  Has(v, "Content-Length")
      BY <1>4, <1>6, <3>1 DEF Has
    <3>2. ASSUME "Chunked" \in v.flags, method # "HEAD", TEKept
          PROVE  "chunked" \in ToSet(ToldIn(v, "Transfer-Encoding")) \cap ToSet(iob.te)
      BY <1>8, <1>9, <1>16, <3>2
    <3> QED
      BY <1>1, <2>2, <3>1, <3>2 DEF KeptClientFindsEnd, Kept, Told, ToldIn, TEKept, Has
  <2> QED
    BY <2>3, <2>4, <2>5, <2>6 DEF HeadFitsBody
<1> QED
  BY <1>1, <1>7, <1>12, <1>13, <1>15, <1>18, <1>19, <1>20 DEF HeadInv, DoneInv

\* execute_content_filters() up to the filters: what was removed from the body will be removed
\* from the head, and what could not be removed stays in both.
LEMMA PrepareTold ==
  ASSUME TypeInv, HeapInv, UnreadInv, HeadInv, CookieInv, Prepared \/ ChunksBroken \/
           DecompressionFails
  PROVE  HeadInv' /\ CookieInv' /\ UnreadInv'
<1> DEFINE chunked == "Chunked" \in s.flags
           plain == IF chunked THEN Dechunked ELSE iob
           packed == NeedsDecompression(plain)
           done == IF packed THEN Decompressed(plain) ELSE plain
<1>1. /\ at = "prepare" /\ at' \in {"send", "choose"}
      /\ acts' = acts /\ method' = method /\ content = 0 /\ content' = 0
  BY DEF Prepared, ChunksBroken, DecompressionFails, GiveUp, HeapInv, Early
<1>2. /\ Shape(s) /\ {"Modified", "Deflated"} \cap s.flags = {}
      /\ method # "HEAD" /\ Has(s, "Content-Length") => s.head["Content-Length"] = Bytes(iob)
      /\ iob \in Unread /\ iob.nul = FALSE
  BY <1>1 DEF HeadInv, ToldInv, PreparedInv, LengthInv, UnreadInv, Unread
<1>3. /\ plain.ce = iob.ce /\ plain.nul = FALSE
      /\ chunked /\ iob.te = <<"chunked">> => plain.te = <<>>
      /\ ~chunked => plain = iob
  BY <1>2, Unwrapped DEF Dechunked
<1>4. /\ packed => done.te = plain.te /\ done.ce = <<>>
      /\ ~packed => done = plain
      /\ done.nul = FALSE
  BY <1>2, <1>3, Unwrapped DEF Dechunked
<1>5. CASE IsEmpty(iob) /\ Prepared
  <2>1. at' = "send" /\ s' = s /\ iob' = iob
    BY <1>5 DEF Prepared
  <2>2. iob.te = <<>>
    BY <1>5 DEF IsEmpty
  <2>3. method # "HEAD" => ~chunked
    BY <1>1, <2>2 DEF HeadInv, PreparedInv
  <2>4. ToldInv' /\ LengthInv' /\ SendInv'
    BY <1>1, <1>2, <2>1, <2>3 DEF HeadInv, ToldInv, LengthInv, SendInv, TEKept, CEKept
  <2>5. CodedInv'
    BY <1>1, <1>2, <2>1 DEF HeadInv, PreparedInv, CodedInv, Coded, LaterTE, LaterCE, TEKept, CEKept
  <2>6. StartInv' /\ PreparedInv' /\ WorkInv' /\ DoneInv' /\ UnreadInv'
    BY <2>1 DEF StartInv, PreparedInv, WorkInv, DoneInv, UnreadInv
  <2>7. CookieInv'
    BY <1>1, <2>1 DEF CookieInv
  <2> QED
    BY <2>4, <2>5, <2>6, <2>7 DEF HeadInv
<1> DEFINE t == s'
           Common ==
             /\ Shape(t) /\ t.head = s.head
             /\ \A flag \in {"Chunked", "ServerLength", "Deflated"} : flag \in t.flags <=>
                  flag \in s.flags
             /\ "Modified" \notin t.flags => iob' = iob \/ iob'.nul
             /\ at' # "send" => ~iob'.nul /\ (t.type \cap Compressed # {} \/ chunked =>
                  "Modified" \in t.flags)
             /\ chunked /\ "ClientKeepAlive" \in t.flags => "Modified" \in t.flags
             /\ method # "HEAD" /\ ~acts.forceText =>
                  /\ TEKept => iob'.te = LaterTE(t)
                  /\ CEKept => iob'.ce = LaterCE(t)
                  /\ at' # "send" => iob'.ce \in {<<>>, <<"zstd">>}
<1>6. SUFFICES ASSUME Common PROVE HeadInv' /\ CookieInv' /\ UnreadInv'
  <2>1. Prepared /\ ~IsEmpty(iob) => Common
    <3>1. SUFFICES ASSUME Prepared, ~IsEmpty(iob) PROVE Common
      OBVIOUS
    <3>2. /\ iob' = done
          /\ t = IF chunked \/ packed THEN NoLongerCoded(s.flags, plain) ELSE s
          /\ at' = IF IsEmpty(done) THEN "send" ELSE "choose"
      BY <3>1 DEF Prepared
    <3> HIDE DEF plain, done, t
    <3> DEFINE type == IF packed THEN s.type \ {"TABOO"} ELSE s.type
    <3>3. /\ Shape(t) /\ t.head = s.head /\ t.type \cap Compressed = s.type \cap Compressed
          /\ t.flags = IF chunked \/ packed THEN s.flags \cup {"Modified"} ELSE s.flags
      <4>1. CASE chunked \/ packed
        <5>1. t = [s EXCEPT !.flags = s.flags \cup {"Modified"}, !.type = type]
          BY <3>2, <4>1 DEF NoLongerCoded
        <5>2. type \cap Compressed = s.type \cap Compressed
          BY DEF Compressed
        <5> HIDE DEF type
        <5> QED
          BY <1>2, <4>1, <5>1, <5>2 DEF Shape
      <4>2. CASE ~(chunked \/ packed)
        BY <1>2, <3>2, <4>2
      <4> QED
        BY <4>1, <4>2
    <3>4. packed <=> s.type \cap Compressed # {} /\ ~IsEmpty(plain)
      BY DEF NeedsDecompression
    <3> HIDE DEF packed
    <3>5. at' # "send" /\ (t.type \cap Compressed # {} \/ chunked) => "Modified" \in t.flags
      BY <1>4, <3>2, <3>3, <3>4
    <3>6. ASSUME method # "HEAD", ~acts.forceText
          PROVE  /\ TEKept => done.te = LaterTE(t)
                 /\ CEKept => done.ce = LaterCE(t)
                 /\ done.ce \in {<<>>, <<"zstd">>}
      <4>1. /\ chunked <=> iob.te # <<>> /\ Last(iob.te) = "chunked"
            /\ TEKept => ToldIn(s, "Transfer-Encoding") = iob.te
            /\ CEKept => ToldIn(s, "Content-Encoding") = iob.ce
            /\ iob.te \in {<<>>, <<"chunked">>}
            /\ iob.ce \in {<<>>, <<"zstd">>, <<"gzip">>, <<"deflate">>, <<"br">>}
            /\ s.type \cap Compressed # {} <=> iob.ce \in {<<"gzip">>, <<"deflate">>, <<"br">>}
        BY <1>1, <3>6 DEF HeadInv, PreparedInv
      <4>2. ToldIn(t, "Transfer-Encoding") = ToldIn(s, "Transfer-Encoding") /\ ToldIn(t,
      "Content-Encoding") = ToldIn(s, "Content-Encoding")
        BY <3>3 DEF ToldIn, Has
      <4>3. "chunked" \in ToSet(<<"chunked">>) /\ "chunked" \notin ToSet(<<>>) /\
              Last(<<"chunked">>) = "chunked"
        BY DEF ToSet, Last
      <4>4. done.te = <<>>
        BY <1>3, <1>4, <4>1, <4>3
      <4>5. TEKept => done.te = LaterTE(t)
        BY <1>3, <3>3, <4>1, <4>2, <4>3, <4>4 DEF LaterTE
      <4>6. CASE packed
        BY <1>4, <3>3, <3>4, <4>5, <4>6 DEF LaterCE
      <4>7. CASE ~packed
        <5>1. s.type \cap Compressed = {}
          <6>1. SUFFICES ASSUME s.type \cap Compressed # {} PROVE FALSE
            OBVIOUS
          <6>2. plain.ce = <<>>
            BY <3>4, <4>7, <6>1 DEF IsEmpty
          <6> QED
            BY <1>3, <4>1, <6>1, <6>2
        <5> QED
          BY <1>3, <1>4, <3>3, <4>1, <4>2, <4>5, <4>7, <5>1 DEF LaterCE
      <4> QED
        BY <4>6, <4>7
    <3>7. "Modified" \notin t.flags => done = iob
      BY <1>3, <1>4, <3>3
    <3>8. chunked => "Modified" \in t.flags
      BY <3>3
    <3>9. \A flag \in {"Chunked", "ServerLength",
    "Deflated"} : flag \in t.flags <=> flag \in s.flags
      BY <3>3
    <3> QED
      BY <1>4, <3>2, <3>3, <3>5, <3>6, <3>7, <3>8, <3>9
  <2>2. ChunksBroken => Common
    <3>1. SUFFICES ASSUME ChunksBroken PROVE Common
      OBVIOUS
    <3>2. iob' = iob /\ at' = "send" /\ t = [s EXCEPT !.type = s.type,
    !.flags = s.flags \ {"ClientKeepAlive"}]
      BY <3>1 DEF ChunksBroken, GiveUp
    <3> HIDE DEF t
    <3>3. Shape(t) /\ t.head = s.head /\ t.type = s.type /\ t.flags = s.flags \ {"ClientKeepAlive"}
      BY <1>2, <3>2 DEF Shape
    <3>4. method # "HEAD" =>
             /\ TEKept => iob.te = LaterTE(t)
             /\ CEKept => iob.ce = LaterCE(t)
      BY <1>1, <1>2, <3>3 DEF HeadInv, PreparedInv, LaterTE, LaterCE, ToldIn, Has
    <3> QED
      BY <3>2, <3>3, <3>4
  <2>3. DecompressionFails => Common
    <3>1. SUFFICES ASSUME DecompressionFails PROVE Common
      OBVIOUS
    <3> DEFINE more == IF chunked THEN {"Modified"} ELSE {}
    <3>2. PICK nul \in BOOLEAN : iob' = [plain EXCEPT !.nul = nul]
      BY <3>1 DEF DecompressionFails
    <3>3. at' = "send" /\ t = [s EXCEPT !.type = s.type \ Compressed,
    !.flags = (s.flags \cup more) \ {"ClientKeepAlive"}]
      BY <3>1 DEF DecompressionFails, GiveUp
    <3>4. iob'.te = plain.te /\ iob'.ce = plain.ce /\ iob'.nul = nul
      BY <1>2, <3>2, Unwrapped DEF Dechunked
    <3>5. ~chunked /\ nul = FALSE => iob' = iob
      BY <1>2, <1>3, <3>2, Unwrapped
    <3>6. nul # FALSE => nul
      OBVIOUS
    <3> HIDE DEF t, plain
    <3>7. Shape(t) /\ t.head = s.head /\ t.type \cap Compressed = {} /\
            t.flags = (s.flags \cup more) \ {"ClientKeepAlive"}
      <4>1. (s.type \ Compressed) \cap Compressed = {}
        OBVIOUS
      <4> QED
        BY <1>2, <3>3, <4>1 DEF Shape
    <3>8. ASSUME method # "HEAD", ~acts.forceText
          PROVE  (TEKept => plain.te = LaterTE(t)) /\ (CEKept => plain.ce = LaterCE(t))
      <4>1. /\ chunked <=> iob.te # <<>> /\ Last(iob.te) = "chunked"
            /\ TEKept => ToldIn(s, "Transfer-Encoding") = iob.te
            /\ CEKept => ToldIn(s, "Content-Encoding") = iob.ce
            /\ iob.te \in {<<>>, <<"chunked">>}
        BY <1>1, <3>8 DEF HeadInv, PreparedInv
      <4>2. ToldIn(t, "Transfer-Encoding") = ToldIn(s, "Transfer-Encoding") /\ ToldIn(t,
      "Content-Encoding") = ToldIn(s, "Content-Encoding")
        BY <3>7 DEF ToldIn, Has
      <4>3. "chunked" \in ToSet(<<"chunked">>) /\ "chunked" \notin ToSet(<<>>) /\
              Last(<<"chunked">>) = "chunked"
        BY DEF ToSet, Last
      <4>4. plain.te = <<>>
        BY <1>3, <4>1, <4>3
      <4>5. chunked => "Modified" \in t.flags
        BY <3>7
      <4> QED
        BY <1>3, <3>7, <4>1, <4>2, <4>3, <4>4, <4>5 DEF LaterTE, LaterCE
    <3>9. \A flag \in {"Chunked", "ServerLength",
    "Deflated"} : flag \in t.flags <=> flag \in s.flags
      BY <3>7
    <3>10. "ClientKeepAlive" \notin t.flags /\ ("Modified" \notin t.flags => ~chunked)
      BY <3>7
    <3> QED
      BY <3>3, <3>4, <3>5, <3>6, <3>7, <3>8, <3>9, <3>10
  <2> QED
    BY <1>5, <1>6, <2>1, <2>2, <2>3
<1> HIDE DEF t
<1>7. StartInv' /\ PreparedInv' /\ DoneInv' /\ UnreadInv'
  BY <1>1 DEF StartInv, PreparedInv, DoneInv, UnreadInv
<1>8. ToldInv'
  <2>1. ToldInv /\ at \notin {"head", "done", "gone", "send"}
    BY <1>1 DEF HeadInv
  <2>2. \A n : ToldIn(t, n) = ToldIn(s, n) /\ (Has(t, n) <=> Has(s, n))
    BY <1>6 DEF ToldIn, Has
  <2> QED
    BY <1>1, <1>6, <2>1, <2>2 DEF ToldInv, TEKept, CEKept, t
<1>9. LengthInv'
  <2>1. Has(t, "Content-Length") <=> Has(s, "Content-Length")
    BY <1>6 DEF Has
  <2> QED
    BY <1>1, <1>2, <1>6, <2>1 DEF LengthInv, t
<1>10. WorkInv' /\ CodedInv' /\ SendInv'
  <2>1. "Deflated" \notin t.flags
    BY <1>2, <1>6
  <2> QED
    BY <1>1, <1>6, <2>1 DEF WorkInv, CodedInv, SendInv, Coded, TEKept, CEKept, t
<1>11. CookieInv'
  <2>1. Has(t, "Set-Cookie") <=> Has(s, "Set-Cookie")
    BY <1>6 DEF Has
  <2> QED
    BY <1>1, <1>6, <2>1 DEF CookieInv, t
<1> QED
  BY <1>7, <1>8, <1>9, <1>10, <1>11 DEF HeadInv

\* The places from the filters to the compression.
Work == {"choose", "job", "gif", "external", "run", "compress"}

\* What a step at work leaves true of the head when it at most notes that the body is modified.
LEMMA Working ==
  ASSUME HeadInv, CookieInv, at \in Work, at' \in Work \cup {"send"},
         s' = s \/ s' = Raised(s, "Modified"), acts' = acts, method' = method
  PROVE  /\ StartInv' /\ ToldInv' /\ PreparedInv' /\ WorkInv' /\ SendInv' /\ DoneInv'
         /\ UnreadInv' /\ CookieInv'
         /\ ~acts.forceText /\ method # "HEAD" => \A b : Coded(s, b) => Coded(s, b)'
         /\ Has(s', "Content-Length") <=> Has(s, "Content-Length")
         /\ s'.head = s.head
<1> DEFINE t == s'
<1>1. /\ Shape(s) /\ "Deflated" \notin s.flags
      /\ s.type \cap Compressed # {} \/ "Chunked" \in s.flags => "Modified" \in s.flags
      /\ ToldInv /\ WorkInv /\ at \notin {"head", "prepare", "send", "done", "gone"}
  BY DEF HeadInv, ToldInv, WorkInv, Work
<1> HIDE DEF t
<1>2. /\ Shape(t) /\ t.head = s.head /\ t.type = s.type
      /\ t.flags = s.flags \/ t.flags = s.flags \cup {"Modified"}
  <2>1. CASE t = s
    BY <1>1, <2>1
  <2>2. CASE t = Raised(s, "Modified")
    BY <1>1, <2>2, RaisedHead
  <2> QED
    BY <2>1, <2>2 DEF t
<1>3. \A n : ToldIn(t, n) = ToldIn(s, n) /\ (Has(t, n) <=> Has(s, n))
  BY <1>2 DEF ToldIn, Has
<1>4. LaterCE(t) = LaterCE(s)
  BY <1>1, <1>2, <1>3 DEF LaterCE
<1>5. TEKept /\ method # "HEAD" => LaterTE(t) = LaterTE(s)
  <2>1. TEKept /\ method # "HEAD" =>
          ("Chunked" \in s.flags <=> "chunked" \in ToSet(ToldIn(s, "Transfer-Encoding")))
    BY <1>1 DEF ToldInv
  <2> QED
    BY <1>1, <1>2, <1>3, <2>1 DEF LaterTE
<1>6. "Deflated" \notin t.flags /\ ("Chunked" \in t.flags <=> "Chunked" \in s.flags)
      /\ ("ServerLength" \in t.flags <=> "ServerLength" \in s.flags)
      /\ ("Modified" \in s.flags => "Modified" \in t.flags)
  BY <1>1, <1>2
<1>7. ToldInv'
  BY <1>1, <1>2, <1>3, <1>6 DEF ToldInv, TEKept, CEKept, t
<1>8. StartInv' /\ PreparedInv' /\ DoneInv' /\ UnreadInv'
  BY DEF StartInv, PreparedInv, DoneInv, UnreadInv, Work
<1>9. WorkInv'
  BY <1>1, <1>2, <1>4, <1>6 DEF WorkInv, Work, CEKept, t
<1>10. SendInv'
  BY <1>1, <1>6 DEF SendInv, t
<1>11. CookieInv'
  BY <1>1, <1>2, <1>3 DEF CookieInv, t
<1>12. ASSUME ~acts.forceText, method # "HEAD", NEW b, Coded(s, b)
       PROVE  Coded(s, b)'
  BY <1>1, <1>4, <1>5, <1>6, <1>12 DEF Coded, TEKept, CEKept, t
<1> QED
  BY <1>2, <1>3, <1>7, <1>8, <1>9, <1>10, <1>11, <1>12 DEF t

\* Only the codings of a body count.
LEMMA CodedAlike ==
  ASSUME NEW t, NEW b, NEW c, b.te = c.te, b.ce = c.ce
  PROVE  Coded(t, b) <=> Coded(t, c)
BY DEF Coded

\* Choosing the filters leaves the head alone.
LEMMA ChooseTold ==
  ASSUME TypeInv, HeapInv, HeadInv, CookieInv, Choose
  PROVE  HeadInv' /\ CookieInv' /\ UnreadInv'
<1>1. /\ at = "choose" /\ at' \in {"job", "gif", "external"} /\ content = 0 /\ old' = IOB
      /\ s' = s /\ acts' = acts /\ method' = method /\ iob' = iob /\ content' = content
  BY DEF Choose, HeapInv, Early
<1>2. /\ StartInv' /\ ToldInv' /\ PreparedInv' /\ WorkInv' /\ SendInv' /\ DoneInv'
      /\ UnreadInv' /\ CookieInv'
      /\ ~acts.forceText /\ method # "HEAD" => \A b : Coded(s, b) => Coded(s, b)'
  BY <1>1, Working DEF Work
<1>3. LengthInv'
  BY <1>1 DEF HeadInv, LengthInv, Has
<1>4. CodedInv'
  BY <1>1, <1>2 DEF HeadInv, CodedInv, At, IOB
<1> QED
  BY <1>2, <1>3, <1>4 DEF HeadInv

\* A job edits the text, not the codings.
LEMMA RunJobTold ==
  ASSUME TypeInv, HeapInv, HeadInv, CookieInv, RunJob
  PROVE  HeadInv' /\ CookieInv' /\ UnreadInv'
<1> DEFINE before == At(old)
<1>1. /\ at = "job" /\ at' = "job" /\ content = 0 /\ old' = Fresh
      /\ s' = s /\ acts' = acts /\ method' = method /\ iob' = iob /\ content' = content
  BY DEF RunJob, HeapInv
<1>2. /\ StartInv' /\ ToldInv' /\ PreparedInv' /\ WorkInv' /\ SendInv' /\ DoneInv'
      /\ UnreadInv' /\ CookieInv'
      /\ ~acts.forceText /\ method # "HEAD" => \A b : Coded(s, b) => Coded(s, b)'
  BY <1>1, Working DEF Work
<1>3. LengthInv'
  BY <1>1 DEF HeadInv, LengthInv, Has
<1>4. DOMAIN heap \subseteq {old} /\ Fresh \in Names /\ Fresh \notin DOMAIN heap /\ before \in Body
      /\ (old # IOB => old \in DOMAIN heap)
  BY <1>1, FreshName DEF HeapInv, TypeInv, At
<1>5. PICK after : /\ after.te = before.te /\ after.ce = before.ce
                   /\ heap' = Freed(With(heap, Fresh, after), OldFreed)
  <2>1. PICK hit \in BOOLEAN, n \in Sizes :
         LET after  == IF hit THEN [before EXCEPT !.edits = Append(@, <<f, j>>), !.size = n] ELSE before
         IN  heap' = Freed(With(heap, Fresh, after), OldFreed)
    BY DEF RunJob, Free
  <2> DEFINE after == IF hit THEN [before EXCEPT !.edits = Append(@, <<f, j>>),
  !.size = n] ELSE before
  <2>2. after.te = before.te /\ after.ce = before.ce
    BY <1>4 DEF Body
  <2>3. heap' = Freed(With(heap, Fresh, after), OldFreed)
    BY <2>1
  <2> QED
    BY <2>2, <2>3
<1>6. Fresh \notin OldFreed
  BY <1>1, <1>4 DEF OldFreed, HeapInv
<1>7. heap'[Fresh] = after
  BY <1>5, <1>6 DEF With, Freed, Restrict
<1>8. At(old)' = after
  BY <1>1, <1>4, <1>7 DEF At, Names, IOB
<1>9. ~acts.forceText /\ method # "HEAD" => Coded(s, iob) /\ Coded(s, before)
  BY <1>1 DEF HeadInv, CodedInv
<1>10. CodedInv'
  BY <1>1, <1>2, <1>5, <1>8, <1>9, CodedAlike DEF CodedInv
<1> QED
  BY <1>2, <1>3, <1>10 DEF HeadInv

\* A job that fails or does not match leaves the head alone.
LEMMA JobTold ==
  ASSUME TypeInv, HeapInv, HeadInv, CookieInv, JobFails \/ NextFilter
  PROVE  HeadInv' /\ CookieInv' /\ UnreadInv'
<1>1. /\ at = "job" /\ at' = "job" /\ content = 0 /\ old' = old /\ heap' = heap
      /\ s' = s /\ acts' = acts /\ method' = method /\ iob' = iob /\ content' = content
  BY DEF JobFails, NextFilter, HeapInv
<1>2. /\ StartInv' /\ ToldInv' /\ PreparedInv' /\ WorkInv' /\ SendInv' /\ DoneInv'
      /\ UnreadInv' /\ CookieInv'
      /\ ~acts.forceText /\ method # "HEAD" => \A b : Coded(s, b) => Coded(s, b)'
  BY <1>1, Working DEF Work
<1>3. LengthInv'
  BY <1>1 DEF HeadInv, LengthInv, Has
<1>4. CodedInv'
  BY <1>1, <1>2 DEF HeadInv, CodedInv, At
<1> QED
  BY <1>2, <1>3, <1>4 DEF HeadInv

\* The result is in hand, the buffer is empty and the body is marked as modified, or none of
\* that.
LEMMA EndFiltersTold ==
  ASSUME TypeInv, HeapInv, HeadInv, CookieInv, EndFilters
  PROVE  HeadInv' /\ CookieInv' /\ UnreadInv'
<1>1. /\ at = "job" /\ at' = "external" /\ content = 0
      /\ acts' = acts /\ method' = method
      /\ \/ /\ content' = new /\ new # 0 /\ s' = Raised(s, "Modified") /\ iob' = Nothing
            /\ heap' = heap
         \/ content' = 0 /\ s' = s /\ iob' = iob
      /\ new \in {0} \cup ({old} \ {IOB}) /\ old \in Names \cup {IOB}
  BY DEF EndFilters, HeapInv
<1>2. s' = s \/ s' = Raised(s, "Modified")
  BY <1>1
<1>3. /\ StartInv' /\ ToldInv' /\ PreparedInv' /\ WorkInv' /\ SendInv' /\ DoneInv'
      /\ UnreadInv' /\ CookieInv'
      /\ ~acts.forceText /\ method # "HEAD" => \A b : Coded(s, b) => Coded(s, b)'
  BY <1>1, <1>2, Working DEF Work
<1>4. CASE content' = new /\ new # 0 /\ s' = Raised(s, "Modified") /\ iob' = Nothing /\ heap' = heap
  <2>1. "Modified" \in s'.flags
    BY <1>1, <1>4, RaisedHead DEF HeadInv, ToldInv
  <2>2. LengthInv'
    BY <1>1, <1>4, <2>1 DEF LengthInv, Nothing
  <2>3. content' = old /\ old \notin {0, IOB} /\ At(content)' = At(old)
    BY <1>1, <1>4 DEF At, Names, IOB
  <2>4. CodedInv'
    BY <1>1, <1>3, <2>3 DEF HeadInv, CodedInv
  <2> QED
    BY <1>3, <2>2, <2>4 DEF HeadInv
<1>5. CASE content' = 0 /\ s' = s /\ iob' = iob
  <2>1. LengthInv'
    BY <1>1, <1>5 DEF HeadInv, LengthInv, Has
  <2>2. CodedInv'
    BY <1>1, <1>3, <1>5 DEF HeadInv, CodedInv
  <2> QED
    BY <1>3, <2>1, <2>2 DEF HeadInv
<1> QED
  BY <1>1, <1>4, <1>5

\* The image filter edits the body, not the codings.
LEMMA DeanimateTold ==
  ASSUME TypeInv, HeapInv, HeadInv, CookieInv, Deanimate
  PROVE  HeadInv' /\ CookieInv' /\ UnreadInv'
<1> DEFINE still == [iob EXCEPT !.edits = Append(@, Frame), !.size = 1]
<1>1. /\ at = "gif" /\ at' = "external" /\ content = 0
      /\ acts' = acts /\ method' = method /\ iob' = iob
      /\ \/ content' = Fresh /\ s' = Raised(s, "Modified") /\ heap' = With(heap, Fresh, still)
         \/ content' = 0 /\ s' = s
  BY DEF Deanimate, HeapInv, Early
<1>2. s' = s \/ s' = Raised(s, "Modified")
  BY <1>1
<1>3. /\ StartInv' /\ ToldInv' /\ PreparedInv' /\ WorkInv' /\ SendInv' /\ DoneInv'
      /\ UnreadInv' /\ CookieInv'
      /\ ~acts.forceText /\ method # "HEAD" => \A b : Coded(s, b) => Coded(s, b)'
  BY <1>1, <1>2, Working DEF Work
<1>4. still.te = iob.te /\ still.ce = iob.ce
  BY DEF TypeInv, Body
<1> HIDE DEF still
<1>5. CASE content' = Fresh /\ s' = Raised(s, "Modified") /\ heap' = With(heap, Fresh, still)
  <2>1. "Modified" \in s'.flags
    BY <1>1, <1>5, RaisedHead DEF HeadInv, ToldInv
  <2>2. LengthInv'
    BY <1>1, <2>1 DEF HeadInv, LengthInv
  <2>3. Fresh \in Names
    BY <1>1, FreshName DEF HeapInv, Early
  <2>4. content' \notin {0, IOB} /\ At(content)' = still
    BY <1>5, <2>3 DEF With, At, Names, IOB
  <2>5. CodedInv'
    BY <1>1, <1>3, <1>4, <2>4, CodedAlike DEF HeadInv, CodedInv
  <2> QED
    BY <1>3, <2>2, <2>5 DEF HeadInv
<1>6. CASE content' = 0 /\ s' = s
  <2>1. LengthInv'
    BY <1>1, <1>6 DEF HeadInv, LengthInv, Has
  <2>2. CodedInv'
    BY <1>1, <1>3, <1>6 DEF HeadInv, CodedInv
  <2> QED
    BY <1>3, <2>1, <2>2 DEF HeadInv
<1> QED
  BY <1>1, <1>5, <1>6

\* Starting and ending the external filters moves the body, not the codings.
LEMMA ExternalTold ==
  ASSUME TypeInv, HeapInv, HeadInv, CookieInv, StartExternal \/ EndExternal
  PROVE  HeadInv' /\ CookieInv' /\ UnreadInv'
<1>1. /\ at \in {"external", "run"} /\ at' \in {"run", "compress"}
      /\ acts' = acts /\ method' = method /\ iob' = iob /\ heap' = heap
      /\ at = "external" => s' = s /\ (content' = content \/ (at' = "run" /\ content = 0 /\
           content' = IOB))
      /\ at = "run" => at' = "compress" /\ s' = Raised(s, "Modified") /\ content' = content
      /\ s' = s \/ s' = Raised(s, "Modified")
  <2>1. CASE StartExternal
    BY <2>1 DEF StartExternal
  <2>2. CASE EndExternal
    BY <2>2 DEF EndExternal
  <2> QED
    BY <2>1, <2>2
<1>2. /\ StartInv' /\ ToldInv' /\ PreparedInv' /\ WorkInv' /\ SendInv' /\ DoneInv'
      /\ UnreadInv' /\ CookieInv'
      /\ ~acts.forceText /\ method # "HEAD" => \A b : Coded(s, b) => Coded(s, b)'
      /\ s'.head = s.head
  BY <1>1, Working DEF Work
<1>3. at = "run" => "Modified" \in s'.flags
  BY <1>1, RaisedHead DEF HeadInv, ToldInv
<1>4. LengthInv'
  BY <1>1, <1>2, <1>3 DEF HeadInv, LengthInv, Has
<1>5. CodedInv'
  BY <1>1, <1>2 DEF HeadInv, CodedInv, At, IOB
<1> QED
  BY <1>2, <1>4, <1>5 DEF HeadInv

\* A program edits the text, not the codings.
LEMMA RunExternalTold ==
  ASSUME TypeInv, HeapInv, BalanceInv, HeadInv, CookieInv, RunExternal
  PROVE  HeadInv' /\ CookieInv' /\ UnreadInv'
<1>1. /\ at = "run" /\ at' = "run" /\ s' = s
      /\ acts' = acts /\ method' = method /\ iob' = iob
  BY DEF RunExternal
<1>2. /\ StartInv' /\ ToldInv' /\ PreparedInv' /\ WorkInv' /\ SendInv' /\ DoneInv'
      /\ UnreadInv' /\ CookieInv'
      /\ ~acts.forceText /\ method # "HEAD" => \A b : Coded(s, b) => Coded(s, b)'
  BY <1>1, Working DEF Work
<1>3. LengthInv'
  BY <1>1 DEF HeadInv, LengthInv, Has
<1>4. CASE content' = content /\ heap' = heap
  <2>1. CodedInv'
    BY <1>1, <1>2, <1>4 DEF HeadInv, CodedInv, At
  <2> QED
    BY <1>2, <1>3, <2>1 DEF HeadInv
<1>5. ASSUME NEW n \in Sizes,
             LET out == [At(content) EXCEPT !.edits = Append(@, External(f)), !.size = n] IN
             heap' = Freed(With(heap, Fresh, out), {content} \ {IOB}) /\ content' = Fresh
      PROVE  HeadInv' /\ CookieInv' /\ UnreadInv'
  <2> DEFINE out == [At(content) EXCEPT !.edits = Append(@, External(f)), !.size = n]
  <2>1. At(content) \in Body /\ content # 0
    BY <1>1 DEF HeapInv, BalanceInv, TypeInv, At
  <2>2. out.te = At(content).te /\ out.ce = At(content).ce
    BY <2>1 DEF Body
  <2>3. heap' = Freed(With(heap, Fresh, out), {content} \ {IOB}) /\ content' = Fresh
    BY <1>5
  <2> HIDE DEF out
  <2>4. Fresh \in Names /\ Fresh \notin DOMAIN heap
    <3>1. DOMAIN heap \subseteq {old, content}
      BY DEF HeapInv
    <3> QED
      BY <3>1, FreshName
  <2>5. Fresh \notin {content} \ {IOB}
    BY <2>1, <2>4 DEF HeapInv
  <2>6. At(content)' = out /\ content' \notin {0, IOB}
    BY <2>3, <2>4, <2>5 DEF With, Freed, Restrict, At, Names, IOB
  <2>7. ~acts.forceText /\ method # "HEAD" => Coded(s, At(content))
    BY <1>1, <2>1 DEF HeadInv, CodedInv, At, IOB
  <2>8. CodedInv'
    BY <1>1, <1>2, <2>2, <2>6, <2>7, CodedAlike DEF CodedInv
  <2> QED
    BY <1>2, <1>3, <2>8 DEF HeadInv
<1> QED
  BY <1>4, <1>5 DEF RunExternal, Free

\* The compressed result has one coding more, which the flag tells.
LEMMA CompressTold ==
  ASSUME TypeInv, HeapInv, HeadInv, CookieInv, Compress
  PROVE  HeadInv' /\ CookieInv' /\ UnreadInv'
<1> DEFINE t == Raised(s, "Deflated")
           deflated == [At(content) EXCEPT !.ce = Append(@, "deflate"), !.size = 1]
<1>1. /\ at = "compress" /\ at' = "send" /\ acts' = acts /\ method' = method /\ iob' = iob
      /\ \/ s' = s /\ content' = content /\ heap' = heap
         \/ content # 0 /\ s' = t /\ content' = Fresh /\
              heap' = Freed(With(heap, Fresh, deflated), {content})
  BY DEF Compress, Free
<1>2. CASE s' = s /\ content' = content /\ heap' = heap
  <2>1. /\ StartInv' /\ ToldInv' /\ PreparedInv' /\ WorkInv' /\ SendInv' /\ DoneInv'
        /\ UnreadInv' /\ CookieInv'
        /\ ~acts.forceText /\ method # "HEAD" => \A b : Coded(s, b) => Coded(s, b)'
    BY <1>1, <1>2, Working DEF Work
  <2>2. LengthInv'
    BY <1>1, <1>2 DEF HeadInv, LengthInv, Has
  <2>3. CodedInv'
    BY <1>1, <1>2, <2>1 DEF HeadInv, CodedInv, At
  <2> QED
    BY <2>1, <2>2, <2>3 DEF HeadInv
<1>3. CASE content # 0 /\ s' = t /\ content' = Fresh /\
             heap' = Freed(With(heap, Fresh, deflated), {content})
  <2>1. /\ Shape(s) /\ "Deflated" \notin s.flags /\ "Modified" \in s.flags
        /\ ToldInv /\ WorkInv
    BY <1>1, <1>3 DEF HeadInv, ToldInv, LengthInv
  <2>2. /\ Shape(t) /\ t.head = s.head /\ t.type = s.type /\ t.flags = s.flags \cup {"Deflated"}
    BY <2>1, RaisedHead
  <2>3. At(content) \in Body
    BY <1>3 DEF HeapInv, TypeInv, At
  <2>4. deflated.te = At(content).te /\ deflated.ce = Append(At(content).ce, "deflate")
    BY <2>3 DEF Body
  <2> HIDE DEF t, deflated
  <2>5. Fresh \in Names /\ Fresh \notin DOMAIN heap
    <3>1. DOMAIN heap \subseteq {old, content}
      BY DEF HeapInv
    <3> QED
      BY <3>1, FreshName
  <2>6. Fresh # content
    BY <1>3, <2>5 DEF HeapInv, Names, IOB
  <2>7. At(content)' = deflated /\ content' \notin {0, IOB}
    BY <1>3, <2>5, <2>6 DEF With, Freed, Restrict, At, Names, IOB
  <2>8. \A n : ToldIn(t, n) = ToldIn(s, n) /\ (Has(t, n) <=> Has(s, n))
    BY <2>2 DEF ToldIn, Has
  <2>9. LaterCE(t) = LaterCE(s) /\ LaterTE(t) = LaterTE(s)
    BY <2>2, <2>8 DEF LaterCE, LaterTE
  <2>10. "Deflated" \in t.flags /\ "Modified" \in t.flags /\ ("Chunked" \in t.flags <=>
           "Chunked" \in s.flags)
         /\ ("ServerLength" \in t.flags <=> "ServerLength" \in s.flags)
    BY <2>1, <2>2
  <2>11. ~acts.forceText /\ method # "HEAD" => Coded(s, At(content))
    BY <1>1, <1>3 DEF HeadInv, CodedInv, At, IOB
  <2>12. ~acts.forceText /\ method # "HEAD" => Coded(t, deflated)
    BY <2>1, <2>4, <2>9, <2>10, <2>11 DEF Coded
  <2>13. CodedInv'
    BY <1>1, <1>3, <2>7, <2>12 DEF CodedInv, Coded, TEKept, CEKept
  <2>14. ToldInv'
    BY <1>1, <1>3, <2>1, <2>2, <2>8, <2>10 DEF ToldInv, TEKept, CEKept
  <2>15. LengthInv'
    BY <1>1, <1>3, <2>10 DEF LengthInv
  <2>16. SendInv'
    BY <1>1, <1>3, <2>1, <2>9, <2>10 DEF SendInv, WorkInv, CEKept
  <2>17. StartInv' /\ PreparedInv' /\ WorkInv' /\ DoneInv' /\ UnreadInv'
    BY <1>1 DEF StartInv, PreparedInv, WorkInv, DoneInv, UnreadInv
  <2>18. CookieInv'
    BY <1>1, <1>3, <2>2, <2>8 DEF CookieInv
  <2> QED
    BY <2>13, <2>14, <2>15, <2>16, <2>17, <2>18 DEF HeadInv
<1> QED
  BY <1>1, <1>2, <1>3

\* The head is updated for the body that is sent, whichever it is.
LEMMA SendTold ==
  ASSUME TypeInv, HeapInv, EditsInv, EditsInv', HeadInv, CookieInv, Send
  PROVE  HeadInv' /\ CookieInv' /\ UnreadInv'
<1> DEFINE len == BodyLength
           p   == IF content = 0 THEN IOB ELSE content
           u   == update_server_headers(s, method, Bytes(len))
           modified == "Modified" \in s.flags
<1>1. /\ at = "send" /\ at' = "done" /\ length' = len /\ s' = u /\ sent' = At(p)
      /\ acts' = acts /\ method' = method
  BY DEF Send, UpdateHead
<1>2. len = sent'
  BY <1>1 DEF EditsInv, At, IOB, BodyLength
<1>3. Shape(s) /\ ToldInv /\ LengthInv /\ SendInv
  BY <1>1 DEF HeadInv, ToldInv
<1>4. /\ Same(s, u, {"Set-Cookie"})
      /\ method # "HEAD" =>
              /\ "ClientKeepAlive" \in u.flags <=> "ClientKeepAlive" \in s.flags
              /\ "Chunked" \in u.flags =>
                   "Chunked" \in s.flags \/ "chunked" \in ToSet(ToldIn(s, "Transfer-Encoding"))
              /\ "ServerLength" \in u.flags =>
                   "ServerLength" \in s.flags \/ Has(u, "Content-Length")
              /\ Has(s, "Content-Length") => Has(u, "Content-Length")
              /\ modified /\ "ClientKeepAlive" \in s.flags /\ "ServerLength" \notin s.flags =>
                   Has(u, "Content-Length")
              /\ Has(u, "Content-Length") /\ modified => u.head["Content-Length"] = Bytes(len)
              /\ Has(u, "Content-Length") /\ ~modified =>
                   Has(s, "Content-Length") /\ u.head["Content-Length"] = s.head["Content-Length"]
              /\ ToldIn(u, "Transfer-Encoding") = LaterTE(s)
              /\ "gzip" \notin ToSet(ToldIn(s, "Transfer-Encoding")) =>
                   \/ /\ ToldIn(u, "Content-Encoding") = LaterCE(s)
                      /\ "Deflated" \in s.flags =>
                           Has(s, "Content-Encoding") /\ LaterCE(s) = s.head["Content-Encoding"]
                   \/ /\ "Deflated" \in s.flags /\ LaterCE(s) = <<>>
                      /\ ToldIn(u, "Content-Encoding") = <<"deflate">>
  BY <1>3, UpdatedHead
<1> HIDE DEF u
<1>5. LengthTold'
  <2>1. ASSUME method # "HEAD", Has(u, "Content-Length"), ~sent'.nul
        PROVE  u.head["Content-Length"] = Bytes(sent')
    <3>1. CASE modified
      BY <1>2, <1>4, <2>1, <3>1
    <3>2. CASE ~modified
      <4>1. content = 0 /\ sent' = iob
        BY <1>1, <1>2, <1>3, <3>2 DEF LengthInv, BodyLength
      <4> QED
        BY <1>1, <1>3, <1>4, <2>1, <3>2, <4>1 DEF LengthInv
    <3> QED
      BY <3>1, <3>2
  <2> QED
    BY <1>1, <1>2, <2>1 DEF LengthTold, Has
<1>6. CodingTold'
  <2>1. ASSUME method # "HEAD", ~acts.forceText, TEKept, CEKept
        PROVE  /\ ToldIn(u, "Transfer-Encoding") = sent'.te
               /\ ToldIn(u, "Content-Encoding") \in
                    {sent'.ce} \cup (IF sent'.ce = <<"zstd", "deflate">> THEN {<<"zstd">>} ELSE {})
    <3>1. Coded(s, sent')
      <4>1. /\ content \in {0, IOB} => Coded(s, iob)
            /\ content \notin {0, IOB} => Coded(s, At(content))
        BY <1>1, <2>1 DEF HeadInv, CodedInv
      <4>2. content \in {0, IOB} => sent' = iob
        BY <1>1 DEF At
      <4>3. content \notin {0, IOB} => sent' = At(content)
        BY <1>1
      <4> HIDE DEF p
      <4> QED
        BY <4>1, <4>2, <4>3
    <3>2. "gzip" \notin ToSet(ToldIn(s, "Transfer-Encoding"))
      BY <1>1, <1>3, <2>1 DEF ToldInv
    <3>3. ToldIn(u, "Transfer-Encoding") = sent'.te
      BY <1>4, <2>1, <3>1 DEF Coded
    <3>4. CASE "Deflated" \notin s.flags
      BY <1>4, <2>1, <3>1, <3>2, <3>3, <3>4 DEF Coded
    <3>5. CASE "Deflated" \in s.flags
      <4>1. LaterCE(s) \in {<<>>, <<"zstd">>}
        BY <1>1, <1>3, <2>1, <3>5 DEF SendInv
      <4>2. sent'.ce = Append(LaterCE(s), "deflate")
        BY <2>1, <3>1, <3>5 DEF Coded
      <4>3. /\ Append(<<>>, "deflate") = <<"deflate">>
            /\ Append(<<"zstd">>, "deflate") = <<"zstd", "deflate">>
        BY Appends
      <4>4. CASE LaterCE(s) = <<>>
        <5>1. ~(Has(s, "Content-Encoding") /\ LaterCE(s) = s.head["Content-Encoding"])
          BY <1>1, <1>3, <2>1, <4>4 DEF ToldInv
        <5>2. ToldIn(u, "Content-Encoding") = <<"deflate">>
          BY <1>4, <2>1, <3>2, <3>5, <5>1
        <5> QED
          BY <3>3, <4>2, <4>3, <4>4, <5>2
      <4>5. CASE LaterCE(s) = <<"zstd">>
        <5>1. <<"zstd">> # <<>>
          OBVIOUS
        <5>2. ToldIn(u, "Content-Encoding") = <<"zstd">>
          BY <1>4, <2>1, <3>2, <3>5, <4>5, <5>1
        <5> QED
          BY <3>3, <4>2, <4>3, <4>5, <5>2
      <4> QED
        BY <4>1, <4>4, <4>5
    <3> QED
      BY <3>4, <3>5
  <2> QED
    BY <1>1, <2>1 DEF CodingTold, CodingsTold, Told, ToldIn, TEKept, CEKept, Has
<1>7. EditsSent'
  BY <1>1 DEF EditsInv, EditsSent, LastOK
<1>8. KeptClientFindsEnd'
  <2>1. ASSUME method # "HEAD", acts.crunch # "Content-Length", TEKept,
  "ClientKeepAlive" \in u.flags,
               {"ServerLength", "Chunked"} \cap u.flags # {}
        PROVE  Has(u, "Content-Length")
    <3>1. "ServerLength" \in s.flags => Has(u, "Content-Length")
      BY <1>1, <1>3, <1>4, <2>1 DEF ToldInv
    <3>2. CASE "ServerLength" \in u.flags
      BY <1>4, <2>1, <3>1, <3>2
    <3>3. CASE "Chunked" \in u.flags
      <4>1. "Chunked" \in s.flags
        BY <1>1, <1>3, <1>4, <2>1, <3>3 DEF ToldInv
      <4>2. modified
        BY <1>1, <1>3, <1>4, <2>1, <4>1 DEF SendInv
      <4> QED
        BY <1>4, <2>1, <3>1, <4>2
    <3> QED
      BY <2>1, <3>2, <3>3
  <2> QED
    BY <1>1, <2>1 DEF KeptClientFindsEnd, Kept, Told, TEKept, Has
<1>9. CookieInv'
  BY <1>1, <1>4 DEF CookieInv, Same, Has
<1>10. StartInv' /\ ToldInv' /\ LengthInv' /\ PreparedInv' /\ WorkInv' /\ CodedInv' /\
         SendInv' /\ UnreadInv'
  BY <1>1 DEF StartInv, ToldInv, LengthInv, PreparedInv, WorkInv, CodedInv, SendInv, UnreadInv
<1> QED
  BY <1>5, <1>6, <1>7, <1>8, <1>9, <1>10 DEF HeadInv, DoneInv, HeadFitsBody

\* Nothing is told to a client that is gone.
LEMMA SendFailsTold ==
  ASSUME HeadInv, CookieInv, SendFails
  PROVE  HeadInv' /\ CookieInv' /\ UnreadInv'
<1> DEFINE u == update_server_headers(s, method, Bytes(BodyLength))
<1>1. at = "send" /\ at' = "gone" /\ s' = u /\ acts' = acts
  BY DEF SendFails, UpdateHead
<1>2. Shape(s) /\ ToldInv
  BY <1>1 DEF HeadInv, ToldInv
<1>3. Same(s, u, {"Set-Cookie"})
  BY <1>2, UpdatedHead
<1> HIDE DEF u
<1>4. CookieInv'
  BY <1>1, <1>3 DEF CookieInv, Same, Has
<1> QED
  BY <1>1, <1>4 DEF HeadInv, StartInv, ToldInv, LengthInv, PreparedInv, WorkInv, CodedInv,
     SendInv, DoneInv, UnreadInv

-----------------------------------------------------------------------------
(* Theorems.                                                               *)

\* The invariant holds in every reachable state.
THEOREM FilteringInvariant == Spec => []FilteringInv
<1>1. Init => FilteringInv
  BY InitBuffers, InitTold DEF FilteringInv, BuffersInv
<1>2. FilteringInv /\ [Next]_vars => FilteringInv'
  <2> SUFFICES ASSUME FilteringInv, [Next]_vars PROVE FilteringInv'
    OBVIOUS
  <2>1. /\ BuffersInv /\ TypeInv /\ HeapInv /\ BalanceInv /\ EditsInv
        /\ UnreadInv /\ HeadInv /\ CookieInv /\ MemoryBalanced
    BY DEF FilteringInv, BuffersInv
  <2>2. at' \notin {"done", "gone"} => MemoryBalanced'
    BY DEF MemoryBalanced, Ended
  <2>3. CASE EditHead
    <3>1. BuffersInv'
      BY <2>1, <2>3, EditHeadBuffers
    <3>2. HeadInv' /\ CookieInv' /\ UnreadInv'
      BY <2>1, <2>3, EditHeadTold DEF HeadInv
    <3>3. MemoryBalanced'
      BY <2>1, <2>3 DEF EditHead, HeapInv, Early, MemoryBalanced, Ended, Leaked
    <3> QED
      BY <3>1, <3>2, <3>3 DEF FilteringInv
  <2>4. CASE Prepared \/ ChunksBroken \/ DecompressionFails
    <3>1. iob.te \in Transfers /\ at' \notin {"done", "gone"}
      BY <2>1, <2>4 DEF Prepared, ChunksBroken, DecompressionFails, GiveUp, UnreadInv, Unread
    <3>2. BuffersInv'
      BY <2>1, <2>4, <3>1, PrepareBuffers
    <3>3. HeadInv' /\ CookieInv' /\ UnreadInv'
      BY <2>1, <2>4, PrepareTold
    <3> QED
      BY <2>2, <3>1, <3>2, <3>3 DEF FilteringInv
  <2>5. CASE Choose
    BY <2>1, <2>2, <2>5, ChooseBuffers, ChooseTold DEF FilteringInv, Choose
  <2>6. CASE RunJob
    BY <2>1, <2>2, <2>6, RunJobBuffers, RunJobTold DEF FilteringInv, RunJob
  <2>7. CASE JobFails \/ NextFilter
    BY <2>1, <2>2, <2>7, JobBuffers, JobTold DEF FilteringInv, JobFails, NextFilter
  <2>8. CASE EndFilters
    BY <2>1, <2>2, <2>8, EndFiltersBuffers, EndFiltersTold DEF FilteringInv, EndFilters
  <2>9. CASE Deanimate
    BY <2>1, <2>2, <2>9, DeanimateBuffers, DeanimateTold DEF FilteringInv, Deanimate
  <2>10. CASE StartExternal
    BY <2>1, <2>2, <2>10, StartExternalBuffers, ExternalTold DEF FilteringInv, StartExternal
  <2>11. CASE RunExternal
    BY <2>1, <2>2, <2>11, RunExternalBuffers, RunExternalTold DEF FilteringInv, RunExternal
  <2>12. CASE EndExternal
    BY <2>1, <2>2, <2>12, EndExternalBuffers, ExternalTold DEF FilteringInv, EndExternal
  <2>13. CASE Compress
    BY <2>1, <2>2, <2>13, CompressBuffers, CompressTold DEF FilteringInv, Compress
  <2>14. CASE Send
    <3>1. BuffersInv' /\ MemoryBalanced'
      BY <2>1, <2>14, SendBuffers
    <3>2. HeadInv' /\ CookieInv' /\ UnreadInv'
      BY <2>1, <2>14, <3>1, SendTold DEF BuffersInv
    <3> QED
      BY <3>1, <3>2 DEF FilteringInv
  <2>15. CASE SendFails
    <3>1. BuffersInv' /\ MemoryBalanced'
      BY <2>1, <2>15, SendFailsBuffers
    <3>2. HeadInv' /\ CookieInv' /\ UnreadInv'
      BY <2>1, <2>15, SendFailsTold
    <3> QED
      BY <3>1, <3>2 DEF FilteringInv
  <2>16. CASE UNCHANGED vars
    <3> USE <2>1, <2>16 DEF vars, pcrsVars
    <3>1. TypeInv' /\ HeapInv' /\ UnreadInv'
      BY DEF TypeInv, HeapInv, UnreadInv, LastOK
    <3>2. BalanceInv' /\ EditsInv'
      BY DEF BalanceInv, EditsInv, LastOK, At
    <3>3. CookieInv' /\ MemoryBalanced'
      BY DEF CookieInv, MemoryBalanced, Ended, Leaked, Has
    <3>4. StartInv' /\ ToldInv' /\ LengthInv' /\ PreparedInv' /\ WorkInv' /\ SendInv'
      BY DEF HeadInv, StartInv, ToldInv, LengthInv, PreparedInv, WorkInv, SendInv, TEKept, CEKept
    <3>5. CodedInv'
      BY DEF HeadInv, CodedInv, Coded, At, TEKept, CEKept
    <3>6. HeadFitsBody /\ KeptClientFindsEnd => HeadFitsBody' /\ KeptClientFindsEnd'
      BY DEF HeadFitsBody, KeptClientFindsEnd, LengthTold, CodingTold, CodingsTold, EditsSent,
         Done, Kept, Told
    <3>7. DoneInv'
      BY <3>6 DEF HeadInv, DoneInv
    <3> QED
      BY <3>1, <3>2, <3>3, <3>4, <3>5, <3>7 DEF FilteringInv, BuffersInv, HeadInv
  <2> QED
    BY <2>3, <2>4, <2>5, <2>6, <2>7, <2>8, <2>9, <2>10, <2>11, <2>12, <2>13, <2>14, <2>15,
       <2>16 DEF Next
<1> QED
  BY <1>1, <1>2, PTL DEF Spec

\* The length, the codings and the edits of the body that execute_content_filters() and its
\* caller send are those the client is told, whatever failed.
THEOREM HeadAlwaysFits == Spec => []HeadFitsBody
<1>1. FilteringInv => HeadFitsBody
  BY DEF FilteringInv, HeadInv, DoneInv, HeadFitsBody, LengthTold, CodingTold, CodingsTold,
     EditsSent, Done
<1> QED
  BY <1>1, FilteringInvariant, PTL

\* serve() keeps a client connection only if the client can tell where the response ends.
THEOREM EndAlwaysFound == Spec => []KeptClientFindsEnd
<1>1. FilteringInv => KeptClientFindsEnd
  BY DEF FilteringInv, HeadInv, DoneInv, KeptClientFindsEnd, Done
<1> QED
  BY <1>1, FilteringInvariant, PTL

\* Every buffer of pcrs_filter_impl(), the external filters and the compression is freed once,
\* and nothing else is; when chat() can't send the head it loses the edited body, and no more.
THEOREM MemoryAlwaysBalanced == Spec => []MemoryBalanced
<1>1. FilteringInv => MemoryBalanced
  BY DEF FilteringInv
<1> QED
  BY <1>1, FilteringInvariant, PTL

\* No cookie keeps a date that server_set_cookie() was to limit.
THEOREM CookiesAlwaysLimited == Spec => []CookiesLimited
<1>1. FilteringInv => CookiesLimited
  BY DEF FilteringInv, CookieInv, CookiesLimited, Done
<1> QED
  BY <1>1, FilteringInvariant, PTL
=============================================================================
