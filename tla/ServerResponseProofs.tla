------------------------ MODULE ServerResponseProofs ------------------------
(***************************************************************************)
(* Proofs about ServerResponse: for any responses, cut into reads at any   *)
(* positions, and whoever closes or gives up when, no byte of a body is    *)
(* lost or counted twice, and what is kept alive has nothing left on it.   *)
(*                                                                         *)
(* What has to be shown is that the parser of the chunks, which starts in  *)
(* the middle of the body again and again, begins at a chunk, or that its  *)
(* offset is beyond the buffer for good, or that the connection is known   *)
(* to be unusable (TrackInv); and that buffering is not given up before    *)
(* the first offset was found (EarlyInv).                                  *)
(***************************************************************************)
EXTENDS ServerResponse, NaturalsInduction, WellFoundedInduction, TLAPS

Chunk == [start: Nat, data: Nat, next: Nat, last: BOOLEAN]

Types ==
  /\ resp \in Responses /\ at \in {"header", "body", "done", "aborted"}
  /\ filtering \in BOOLEAN /\ known \in BOOLEAN /\ filtered \in BOOLEAN /\ tainted \in BOOLEAN
  /\ clientKA \in BOOLEAN /\ gone \in BOOLEAN /\ watch \in BOOLEAN
  /\ got \in 0..resp.length /\ base \in 0..got /\ offset \in 0..(SizeMax - 1) /\ head \in Nat
  /\ count \in Nat /\ expected \in Nat /\ sent \in Nat /\ reqLeft \in Nat

\* Nothing has been read.
HeaderInv ==
  at = "header" =>
    /\ got = 0 /\ base = 0 /\ count = 0 /\ sent = 0 /\ offset = 0
    /\ ~filtering /\ ~known /\ ~tainted

\* What is counted, and what is known of the length.
LengthInv ==
  at = "body" =>
    /\ count = got /\ sent = IF filtering THEN 0 ELSE got
    /\ LengthKnown => known /\ expected = resp.length
    /\ Chunked /\ known => expected = count /\ (~tainted => got = resp.length)
    /\ known => LengthKnown \/ Chunked

\* The filters get the body from its beginning.
BufferedInv ==
  /\ filtering => base = 0 /\ (at = "body" => head = HeadSize)
  /\ at # "done" => ~filtered

\* The offset is beyond all that will ever be read.
Lost == base + offset > resp.length

\* Where the next scan for chunks begins.
TrackInv ==
  at = "body" /\ Chunked /\ ~known =>
    /\ ~tainted => base + offset \in Starts \/ Lost
    /\ got = resp.length => base + offset \notin Starts
    /\ filtering => base + offset \in Starts /\ ~tainted

Larger(m, n) == IF m < n THEN n ELSE m

\* Until the offset of a chunk has been found there can be the first chunk and the beginning
\* of the second in the buffer, and the first one has ended within one read.
EarlyAt(c, g) ==
  /\ c.start = 0
  /\ \/ g < Larger(c.data, 5)
     \/ c.last /\ g < c.next
     \/ /\ ~c.last /\ c.next < g /\ c.next < Larger(c.data, 5) + ReadSize - 1
        /\ \E d \in resp.chunks : d.start = c.next /\ g < IF d.last THEN d.next ELSE d.data

EarlyInv ==
  at = "body" /\ Chunked /\ filtering /\ ~known /\ offset = 0 =>
    \E c \in resp.chunks : EarlyAt(c, got)

\* What has become of the response when the loop is left.
DoneInv ==
  at = "done" =>
    /\ count = got /\ sent \in {got, IF filtering THEN 0 ELSE got}
    /\ filtered /\ Chunked => base = 0 /\ got = resp.length
    /\ ~tainted /\ ~gone => got = resp.length
    /\ clientKA /\ ~tainted /\ (LengthKnown \/ (Chunked /\ filtering /\ got > 0))
         => got = resp.length /\ sent = got

\* The inductive invariant.
ResponseInv ==
  Types /\ HeaderInv /\ LengthInv /\ BufferedInv /\ TrackInv /\ EarlyInv /\ DoneInv

-----------------------------------------------------------------------------
(* Chunks.                                                                 *)

\* The order on the natural numbers, as the theorems on well-founded relations want it.
LEMMA Smaller == \A i, k \in Nat : <<k, i>> \in OpToRel(<, Nat) <=> k < i
  BY DEF OpToRel

\* Every nonempty set of natural numbers has a least element: what stands in for induction.
LEMMA LeastElement ==
  ASSUME NEW S, S \subseteq Nat, S # {}
  PROVE  \E i \in S : \A k \in S : i <= k
<1>1. PICK i \in S : \A k \in S : ~ (<<k, i>> \in OpToRel(<, Nat))
  BY NatLessThanWellFounded, WFMin
<1>2. \A k \in S : ~ (k < i)
  BY <1>1, Smaller
<1> QED
  BY <1>2

\* The chunks of a response.
LEMMA ChunkFacts ==
  ASSUME resp \in Responses, Chunked
  PROVE  /\ resp.length \in Nat /\ resp.length >= 5 /\ 2 * resp.length < SizeMax /\ SizeMax \in Nat
         /\ \E c \in resp.chunks : c.start = 0
         /\ 0 \in Starts
         /\ \A c \in resp.chunks :
              /\ c.start \in Nat /\ c.data \in Nat /\ c.next \in Nat /\ c.last \in BOOLEAN
              /\ c.start + 3 <= c.data /\ c.data + 2 <= c.next /\ c.next <= resp.length
              /\ c.last => c.next = c.data + 2 /\ c.next = resp.length
              /\ ~c.last => c.next \in Starts
              /\ c.start \in Starts
              /\ HeadSize + 2 * (ReadSize + (c.data - c.start)) + 1 <= Limit
         /\ \A c, d \in resp.chunks : c.start < d.start => c.next <= d.start
         /\ \A c, d \in resp.chunks : c.start = d.start => c = d
         /\ \A s \in Starts : \E c \in resp.chunks : c.start = s
<1>1. /\ resp \in ResponseType /\ 2 * resp.length < SizeMax /\ SizeMax \in Nat
      /\ Follow(resp.chunks, resp.length)
      /\ \A c \in resp.chunks : HeadSize + 2 * (ReadSize + (c.data - c.start)) + 1 <= Limit
  BY ResponseAssumption DEF Chunked
<1>2. resp.length \in Nat /\ resp.chunks \subseteq Chunk
  BY <1>1 DEF ResponseType, Chunk
<1>3. \A c \in resp.chunks :
        /\ c.start \in Nat /\ c.data \in Nat /\ c.next \in Nat /\ c.last \in BOOLEAN
        /\ c.start \in Starts
  BY <1>2 DEF Chunk, Starts
<1>4. /\ \A c \in resp.chunks :
           /\ c.start + 3 <= c.data /\ c.next <= resp.length
           /\ c.last => c.next = c.data + 2 /\ c.next = resp.length
           /\ ~c.last => c.data + 2 < c.next /\ \E d \in resp.chunks : d.start = c.next
      /\ \A c, d \in resp.chunks : c.start < d.start => c.next <= d.start
      /\ \A c, d \in resp.chunks : c.start = d.start => c = d
  BY <1>1 DEF Follow
<1>5. PICK f \in resp.chunks : f.start = 0
  BY <1>1 DEF Follow
<1>6. \A c \in resp.chunks : c.data + 2 <= c.next
  BY <1>3, <1>4
<1>7. resp.length >= 5 /\ 0 \in Starts
  BY <1>2, <1>3, <1>4, <1>5, <1>6
<1>8. \A s \in Starts : \E c \in resp.chunks : c.start = s
  BY DEF Starts
<1>9. \A c \in resp.chunks : ~c.last => c.next \in Starts
  BY <1>4 DEF Starts
<1> QED
  BY <1>1, <1>2, <1>3, <1>4, <1>5, <1>6, <1>7, <1>8, <1>9

\* Among some chunks one comes last.
LEMMA Latest ==
  ASSUME resp \in Responses, Chunked, NEW C, C \subseteq resp.chunks, C # {}
  PROVE  \E x \in C : \A y \in C : y.start <= x.start
<1> DEFINE Rest == {n \in Nat : \E x \in C : n = resp.length - x.start}
<1>1. /\ resp.length \in Nat
      /\ \A x \in C : x.start \in Nat /\ x.start <= resp.length
  BY ChunkFacts
<1>2. Rest # {} /\ Rest \subseteq Nat
  BY <1>1
<1>3. PICK n \in Rest : \A k \in Rest : n <= k
  <2> HIDE DEF Rest
  <2> QED
    BY <1>2, LeastElement
<1>4. PICK x \in C : n = resp.length - x.start
  BY <1>3
<1>5. ASSUME NEW y \in C PROVE y.start <= x.start
  <2>1. resp.length - y.start \in Rest
    BY <1>1
  <2> QED
    BY <1>1, <1>3, <1>4, <2>1
<1> QED
  BY <1>5

\* Every chunk but the first is behind another one.
LEMMA Before ==
  ASSUME resp \in Responses, Chunked, NEW c \in resp.chunks, c.start # 0
  PROVE  \E d \in resp.chunks : d.next = c.start /\ ~d.last
<1> DEFINE C == {d \in resp.chunks : d.start < c.start}
<1>1. C # {}
  BY ChunkFacts
<1>2. PICK d \in C : \A e \in C : e.start <= d.start
  <2> HIDE DEF C
  <2>1. C \subseteq resp.chunks
    BY DEF C
  <2> QED
    BY <1>1, <2>1, Latest
<1>3. d.next <= c.start /\ d.start < d.next /\ c.start < c.next /\ c.next <= resp.length
  BY ChunkFacts
<1>4. ~d.last
  BY <1>3, ChunkFacts
<1>5. PICK e \in resp.chunks : e.start = d.next
  BY <1>4, ChunkFacts
<1>6. ~(e.start < c.start)
  BY <1>2, <1>3, <1>5, ChunkFacts
<1> QED
  BY <1>3, <1>4, <1>5, <1>6, ChunkFacts

\* Where the scan from one chunk ends: the last chunk the size line of which is there.
LEMMA LinesFacts ==
  ASSUME resp \in Responses, Chunked, NEW p \in Nat, NEW g \in Nat, Lines(p, g) # {}
  PROVE  LET c == CHOOSE x \in Lines(p, g) : \A y \in Lines(p, g) : y.start <= x.start IN
         /\ c \in resp.chunks /\ p <= c.start /\ c.data <= g
         /\ \A y \in resp.chunks : p <= y.start /\ y.data <= g => y.start <= c.start
<1> DEFINE L == Lines(p, g)
<1>1. L \subseteq resp.chunks
  BY DEF Lines
<1> HIDE DEF L
<1>2. \E x \in L : \A y \in L : y.start <= x.start
  BY <1>1, Latest DEF L
<1> DEFINE c == CHOOSE x \in L : \A y \in L : y.start <= x.start
<1>3. c \in L /\ \A y \in L : y.start <= c.start
  BY <1>2
<1> HIDE DEF c
<1>4. /\ c \in resp.chunks /\ p <= c.start /\ c.data <= g
      /\ \A y \in resp.chunks : p <= y.start /\ y.data <= g => y.start <= c.start
  BY <1>3 DEF L, Lines
<1> QED
  BY <1>4 DEF c, L

\* The last valid offset is that of a chunk further on.
LEMMA LastValidFacts ==
  ASSUME resp \in Responses, Chunked, NEW b \in Nat, NEW p \in Nat, b <= p, NEW s \in Nat
  PROVE  /\ LastValid(b, p, s) = -1 \/ (LastValid(b, p, s) \in 1..resp.length
                                        /\ b + LastValid(b, p, s) \in Starts)
         /\ LastValid(b, p, s) = -1 =>
              \A c \in resp.chunks : c.next = s /\ p <= c.start => c.start = b
<1> DEFINE D == {c \in resp.chunks : c.next = s /\ p <= c.start /\ c.start # b}
           v == LastValid(b, p, s)
<1>1. v = IF D = {} THEN -1 ELSE (CHOOSE c \in D : TRUE).start - b
  BY DEF LastValid
<1>2. CASE D = {}
  BY <1>1, <1>2
<1>3. CASE D # {}
  <2> DEFINE c == CHOOSE x \in D : TRUE
  <2>1. c \in D
    BY <1>3
  <2> HIDE DEF c
  <2>2. /\ c.start \in Nat /\ c.start \in Starts /\ b < c.start /\ c.start <= resp.length
        /\ resp.length \in Nat
    BY <2>1, ChunkFacts
  <2>3. v = c.start - b
    BY <1>1, <1>3 DEF c
  <2> HIDE DEF v
  <2>4. v \in 1..resp.length /\ b + v = c.start
    BY <2>2, <2>3
  <2>5. v # -1
    BY <2>4
  <2> QED
    BY <2>2, <2>4, <2>5 DEF v
<1> QED
  BY <1>2, <1>3

\* The outcomes of a scan, by the chunk it ends at.
LEMMA ScanFromCases ==
  ASSUME resp \in Responses, Chunked, NEW b \in Nat, NEW p \in Nat, NEW g \in Nat
  PROVE  \/ /\ ScanFrom(b, p, g) = -1
            /\ \A y \in resp.chunks : ~(p <= y.start /\ y.data <= g)
         \/ \E c \in resp.chunks :
              /\ p <= c.start /\ c.data <= g
              /\ \A y \in resp.chunks : p <= y.start /\ y.data <= g => y.start <= c.start
              /\ ScanFrom(b, p, g) =
                   IF c.last THEN IF c.next <= g THEN 0 ELSE LastValid(b, p, c.start)
                   ELSE IF c.next >= g THEN c.next - b ELSE LastValid(b, p, c.next)
<1>1. CASE Lines(p, g) = {}
  <2>1. ScanFrom(b, p, g) = -1
    BY <1>1 DEF ScanFrom
  <2>2. \A y \in resp.chunks : ~(p <= y.start /\ y.data <= g)
    BY <1>1 DEF Lines
  <2> QED
    BY <2>1, <2>2
<1>2. CASE Lines(p, g) # {}
  <2> DEFINE c == CHOOSE x \in Lines(p, g) : \A y \in Lines(p, g) : y.start <= x.start
  <2>1. /\ c \in resp.chunks /\ p <= c.start /\ c.data <= g
        /\ \A y \in resp.chunks : p <= y.start /\ y.data <= g => y.start <= c.start
    BY <1>2, LinesFacts
  <2>2. ScanFrom(b, p, g) =
          IF c.last THEN IF c.next <= g THEN 0 ELSE LastValid(b, p, c.start)
          ELSE IF c.next >= g THEN c.next - b ELSE LastValid(b, p, c.next)
    BY <1>2 DEF ScanFrom
  <2> HIDE DEF c
  <2> QED
    BY <2>1, <2>2
<1> QED
  BY <1>1, <1>2

\* A scan that begins at a chunk finds another one or nothing, and the end if it is there.
LEMMA ScanFromFacts ==
  ASSUME resp \in Responses, Chunked, NEW b \in Nat, NEW p \in Starts, b <= p,
         NEW g \in 0..resp.length, NEW rc, rc = ScanFrom(b, p, g)
  PROVE  /\ rc = -1 \/ rc = 0 \/ (rc \in 1..resp.length /\ b + rc \in Starts)
         /\ rc = 0 <=> g = resp.length
<1>1. p \in Nat /\ g \in Nat /\ resp.length \in Nat /\ g <= resp.length
  BY ChunkFacts
<1>2. PICK o \in resp.chunks : o.start = p
  BY ChunkFacts
<1>3. CASE /\ rc = -1
           /\ \A y \in resp.chunks : ~(p <= y.start /\ y.data <= g)
  <2>1. ~(o.data <= g) /\ o.data <= resp.length
    BY <1>1, <1>2, <1>3, ChunkFacts
  <2> QED
    BY <1>1, <1>3, <2>1, ChunkFacts
<1>4. CASE \E c \in resp.chunks :
             /\ p <= c.start /\ c.data <= g
             /\ \A y \in resp.chunks : p <= y.start /\ y.data <= g => y.start <= c.start
             /\ rc = IF c.last THEN IF c.next <= g THEN 0 ELSE LastValid(b, p, c.start)
                     ELSE IF c.next >= g THEN c.next - b ELSE LastValid(b, p, c.next)
  <2>1. PICK c \in resp.chunks :
             /\ p <= c.start /\ c.data <= g
             /\ \A y \in resp.chunks : p <= y.start /\ y.data <= g => y.start <= c.start
             /\ rc = IF c.last THEN IF c.next <= g THEN 0 ELSE LastValid(b, p, c.start)
                     ELSE IF c.next >= g THEN c.next - b ELSE LastValid(b, p, c.next)
    BY <1>4
  <2>2. /\ c.start \in Nat /\ c.data \in Nat /\ c.next \in Nat /\ c.last \in BOOLEAN
        /\ c.start + 3 <= c.data /\ c.data + 2 <= c.next /\ c.next <= resp.length
        /\ c.last => c.next = resp.length
        /\ ~c.last => c.next \in Starts
    BY ChunkFacts
  <2>3. CASE c.last /\ c.next <= g
    BY <1>1, <2>1, <2>2, <2>3
  <2>4. CASE c.last /\ ~(c.next <= g)
    <3>1. rc = LastValid(b, p, c.start)
      BY <2>1, <2>4
    <3>2. rc = -1 \/ (rc \in 1..resp.length /\ b + rc \in Starts)
      BY <1>1, <2>2, <3>1, LastValidFacts
    <3>3. rc # 0
      BY <3>2
    <3> QED
      BY <1>1, <2>2, <2>4, <3>2, <3>3
  <2>5. CASE ~c.last /\ c.next >= g
    <3>1. PICK d \in resp.chunks : d.start = c.next
      BY <2>2, <2>5, ChunkFacts
    <3>2. c.next < resp.length
      BY <1>1, <3>1, ChunkFacts
    <3>3. rc = c.next - b /\ b < c.next
      BY <1>1, <2>1, <2>2, <2>5
    <3>4. rc \in 1..resp.length /\ b + rc = c.next /\ rc # 0 /\ g # resp.length
      BY <1>1, <2>2, <2>5, <3>2, <3>3
    <3> QED
      BY <2>2, <2>5, <3>4
  <2>6. CASE ~c.last /\ ~(c.next >= g)
    <3>1. rc = LastValid(b, p, c.next)
      BY <2>1, <2>6
    <3>2. rc = -1 \/ (rc \in 1..resp.length /\ b + rc \in Starts)
      BY <1>1, <2>2, <3>1, LastValidFacts
    <3>3. rc # 0
      BY <3>2
    <3>4. PICK d \in resp.chunks : d.start = c.next
      BY <2>2, <2>6, ChunkFacts
    <3>5. ~(d.data <= g) /\ d.data <= resp.length /\ d.data \in Nat
      BY <1>1, <2>1, <2>2, <3>4, ChunkFacts
    <3> QED
      BY <1>1, <3>2, <3>3, <3>5
  <2> QED
    BY <2>2, <2>3, <2>4, <2>5, <2>6
<1> QED
  BY <1>1, <1>3, <1>4, ScanFromCases

\* What FindChunks() keeps of a scan.
Kept(rc, o) == IF rc > 0 THEN rc ELSE o

\* A scan that begins at a chunk, or beyond the buffer, leaves such an offset and does not
\* take anything else for the end; and with the end in the buffer it is found from any chunk.
LEMMA ScanFacts ==
  ASSUME resp \in Responses, Chunked, NEW g \in 0..resp.length, NEW b \in 0..g,
         NEW o \in 0..(SizeMax - 1), NEW rc \in Scan(b, g, o)
  PROVE  /\ Kept(rc, o) \in 0..(SizeMax - 1) /\ rc \in Int
         /\ b + o \in Starts => b + Kept(rc, o) \in Starts
         /\ b + o > resp.length => b + Kept(rc, o) > resp.length
         /\ b + o \in Starts \/ b + o > resp.length => (rc = 0 => g = resp.length)
         /\ g = resp.length /\ rc # 0 => b + Kept(rc, o) \notin Starts
         /\ rc = 0 => Kept(rc, o) = o
<1>1. /\ resp.length \in Nat /\ g \in Nat /\ b \in Nat /\ o \in Nat /\ b <= g /\ g <= resp.length
      /\ 2 * resp.length < SizeMax /\ SizeMax \in Nat /\ resp.length >= 5
  BY ChunkFacts
<1>2. \A s \in Starts : s \in Nat /\ s + 5 <= resp.length
  <2> SUFFICES ASSUME NEW s \in Starts PROVE s \in Nat /\ s + 5 <= resp.length
    OBVIOUS
  <2>1. PICK c \in resp.chunks : c.start = s
    BY ChunkFacts
  <2> QED
    BY <1>1, <2>1, ChunkFacts
<1>3. CASE TooShort(g - b) \/ o > g - b
  <2>1. rc = -1
    BY <1>3 DEF Scan
  <2>2. Kept(rc, o) = o /\ rc # 0 /\ rc \in Int
    BY <2>1 DEF Kept
  <2>3. g = resp.length => b + o \notin Starts
    BY <1>1, <1>2, <1>3 DEF TooShort
  <2> QED
    BY <2>2, <2>3
<1>4. CASE ~(TooShort(g - b) \/ o > g - b) /\ b + o \in Starts
  <2>1. rc = ScanFrom(b, b + o, g)
    BY <1>4 DEF Scan
  <2> DEFINE p == b + o
  <2>2. p \in Starts /\ b <= p
    BY <1>1, <1>4
  <2> HIDE DEF p
  <2>3. rc = ScanFrom(b, p, g)
    BY <2>1 DEF p
  <2>4. /\ rc = -1 \/ rc = 0 \/ (rc \in 1..resp.length /\ b + rc \in Starts)
        /\ rc = 0 <=> g = resp.length
    BY <1>1, <2>2, <2>3, ScanFromFacts
  <2>5. CASE rc = -1 \/ rc = 0
    <3>1. Kept(rc, o) = o
      BY <2>5 DEF Kept
    <3> QED
      BY <1>1, <1>2, <1>4, <2>4, <2>5, <3>1
  <2>6. CASE rc \in 1..resp.length /\ b + rc \in Starts
    <3>1. Kept(rc, o) = rc /\ rc # 0 /\ rc \in 0..(SizeMax - 1) /\ rc \in Int
      BY <1>1, <2>6 DEF Kept
    <3> QED
      BY <1>1, <1>2, <1>4, <2>4, <2>6, <3>1
  <2> QED
    BY <2>4, <2>5, <2>6
<1>5. CASE ~(TooShort(g - b) \/ o > g - b) /\ b + o \notin Starts /\ o = g - b
  <2>1. rc = ScanFrom(b, b + o, g) /\ b + o = g
    BY <1>1, <1>5 DEF Scan
  <2>2. rc = ScanFrom(b, g, g)
    BY <2>1
  <2>3. \A y \in resp.chunks : ~(g <= y.start /\ y.data <= g)
    BY <1>1, ChunkFacts
  <2>4. rc = -1
    BY <1>1, <2>2, <2>3, ScanFromCases
  <2>5. Kept(rc, o) = o /\ rc # 0 /\ rc \in Int
    BY <2>4 DEF Kept
  <2> QED
    BY <1>1, <1>5, <2>1, <2>5
<1>6. CASE ~(TooShort(g - b) \/ o > g - b) /\ b + o \notin Starts /\ o # g - b
  <2> DEFINE Beyond == resp.length - b + 1
  <2>1. \/ rc \in {-1, 0}
        \/ rc \in 1..Beyond /\ (b + rc \in Starts => rc >= g - b \/ ScanFrom(b, b + rc, g) = rc)
    BY <1>6 DEF Scan, Astray
  <2>2. CASE rc \in {-1, 0}
    <3>1. Kept(rc, o) = o /\ rc \in Int
      BY <2>2 DEF Kept
    <3>2. ~(b + o > resp.length)
      BY <1>1, <1>6
    <3> QED
      BY <1>6, <3>1, <3>2
  <2>3. CASE rc \in 1..Beyond /\ (b + rc \in Starts => rc >= g - b \/ ScanFrom(b, b + rc, g) = rc)
    <3>1. rc \in Nat /\ rc > 0 /\ rc <= Beyond /\ Kept(rc, o) = rc
      BY <1>1, <2>3 DEF Kept
    <3>2. Kept(rc, o) \in 0..(SizeMax - 1)
      BY <1>1, <3>1
    <3>3. ~(b + o > resp.length)
      BY <1>1, <1>6
    <3>4. ASSUME g = resp.length, b + rc \in Starts PROVE FALSE
      <4>1. ~(rc >= g - b)
        BY <1>1, <1>2, <3>1, <3>4
      <4> DEFINE p == b + rc
      <4>2. p \in Starts /\ b <= p /\ ScanFrom(b, p, g) = rc
        BY <1>1, <2>3, <3>1, <3>4, <4>1
      <4> HIDE DEF p
      <4>3. rc = 0
        BY <1>1, <3>4, <4>2, ScanFromFacts
      <4> QED
        BY <3>1, <4>3
    <3> QED
      BY <1>6, <3>1, <3>2, <3>3, <3>4
  <2> QED
    BY <2>1, <2>2, <2>3
<1> QED
  BY <1>3, <1>4, <1>5, <1>6

\* What is in the buffer when a scan from the beginning finds no offset.
LEMMA EarlyScan ==
  ASSUME resp \in Responses, Chunked, NEW g \in 0..resp.length, ScanFrom(0, 0, g) = -1,
         NEW f \in resp.chunks, f.start = 0
  PROVE  \/ g < f.data
         \/ f.last /\ g < f.next
         \/ /\ ~f.last /\ f.next < g
            /\ \E d \in resp.chunks : d.start = f.next /\ g < IF d.last THEN d.next ELSE d.data
<1>1. g \in Nat /\ resp.length \in Nat /\ g <= resp.length
  BY ChunkFacts
<1>2. CASE \A y \in resp.chunks : ~(0 <= y.start /\ y.data <= g)
  BY <1>1, <1>2, ChunkFacts
<1>3. CASE \E c \in resp.chunks :
             /\ 0 <= c.start /\ c.data <= g
             /\ \A y \in resp.chunks : 0 <= y.start /\ y.data <= g => y.start <= c.start
             /\ ScanFrom(0, 0, g) =
                  IF c.last THEN IF c.next <= g THEN 0 ELSE LastValid(0, 0, c.start)
                  ELSE IF c.next >= g THEN c.next - 0 ELSE LastValid(0, 0, c.next)
  <2>1. PICK c \in resp.chunks :
             /\ 0 <= c.start /\ c.data <= g
             /\ \A y \in resp.chunks : 0 <= y.start /\ y.data <= g => y.start <= c.start
             /\ -1 = IF c.last THEN IF c.next <= g THEN 0 ELSE LastValid(0, 0, c.start)
                     ELSE IF c.next >= g THEN c.next - 0 ELSE LastValid(0, 0, c.next)
    BY <1>3
  <2>2. /\ c.start \in Nat /\ c.data \in Nat /\ c.next \in Nat /\ c.last \in BOOLEAN
        /\ c.start + 3 <= c.data /\ c.data + 2 <= c.next /\ c.next <= resp.length
        /\ ~c.last => c.next \in Starts
    BY ChunkFacts
  <2>3. CASE c.last
    <3>1. ~(c.next <= g) /\ LastValid(0, 0, c.start) = -1
      BY <2>1, <2>3
    <3>2. \A x \in resp.chunks : x.next = c.start => x.start = 0
      <4>1. \A x \in resp.chunks : x.next = c.start /\ 0 <= x.start => x.start = 0
        BY <2>2, <3>1, LastValidFacts
      <4> QED
        BY <4>1, ChunkFacts
    <3>3. CASE c.start = 0
      <4>1. c = f
        BY <3>3, ChunkFacts
      <4> QED
        BY <1>1, <2>2, <2>3, <3>1, <4>1
    <3>4. CASE c.start # 0
      <4>1. PICK d \in resp.chunks : d.next = c.start /\ ~d.last
        BY <3>4, Before
      <4>2. d = f
        BY <3>2, <4>1, ChunkFacts
      <4>3. g < c.next /\ f.next < g
        BY <1>1, <2>1, <2>2, <3>1, <4>1, <4>2
      <4> QED
        BY <2>3, <4>1, <4>2, <4>3
    <3> QED
      BY <3>3, <3>4
  <2>4. CASE ~c.last
    <3>1. ~(c.next >= g) /\ LastValid(0, 0, c.next) = -1
      BY <2>1, <2>2, <2>4
    <3>2. \A x \in resp.chunks : x.next = c.next /\ 0 <= x.start => x.start = 0
      BY <2>2, <3>1, LastValidFacts
    <3>3. c = f
      BY <2>1, <3>2, ChunkFacts
    <3>4. PICK d \in resp.chunks : d.start = c.next
      BY <2>2, <2>4, ChunkFacts
    <3>5. ~(d.data <= g) /\ d.data < d.next /\ d.data \in Nat /\ d.next \in Nat
      BY <1>1, <2>1, <2>2, <3>4, ChunkFacts
    <3>6. g < IF d.last THEN d.next ELSE d.data
      BY <1>1, <3>5
    <3>7. c.next < g
      BY <1>1, <2>2, <3>1
    <3> QED
      BY <2>4, <3>3, <3>4, <3>6, <3>7
  <2> QED
    BY <2>2, <2>3, <2>4
<1> QED
  BY <1>1, <1>2, <1>3, ScanFromCases

\* The same of a scan that may have stopped for too few bytes.
LEMMA EarlyOutcome ==
  ASSUME resp \in Responses, Chunked, NEW g \in 0..resp.length, NEW rc \in Scan(0, g, 0),
         rc # 0, Kept(rc, 0) = 0, NEW f \in resp.chunks, f.start = 0
  PROVE  \/ g < Larger(f.data, 5)
         \/ f.last /\ g < f.next
         \/ /\ ~f.last /\ f.next < g
            /\ \E d \in resp.chunks : d.start = f.next /\ g < IF d.last THEN d.next ELSE d.data
<1>1. g \in Nat /\ f.data \in Nat /\ 0 \in Starts
  BY ChunkFacts
<1>2. CASE TooShort(g - 0) \/ 0 > g - 0
  <2>1. g < 5
    BY <1>1, <1>2 DEF TooShort
  <2> QED
    BY <1>1, <2>1 DEF Larger
<1>3. CASE ~(TooShort(g - 0) \/ 0 > g - 0)
  <2>1. rc = ScanFrom(0, 0 + 0, g)
    BY <1>1, <1>3 DEF Scan
  <2>2. rc = ScanFrom(0, 0, g)
    BY <2>1
  <2>3. ~(rc > 0)
    BY DEF Kept
  <2>4. rc = -1 \/ rc = 0 \/ rc \in 1..resp.length
    BY <1>1, <2>2, ScanFromFacts
  <2>5. ScanFrom(0, 0, g) = -1
    BY <2>2, <2>3, <2>4, ChunkFacts
  <2>6. g < f.data => g < Larger(f.data, 5)
    BY <1>1 DEF Larger
  <2> QED
    BY <2>5, <2>6, EarlyScan
<1> QED
  BY <1>2, <1>3

\* One more read, and the scan after it.
LEMMA EarlyKept ==
  ASSUME resp \in Responses, Chunked, ReadSize \in Nat, NEW h \in Nat, NEW n \in 1..ReadSize,
         NEW g \in 0..resp.length, g = h + n, NEW rc \in Scan(0, g, 0), rc # 0, Kept(rc, 0) = 0,
         \/ h = 0
         \/ \E c \in resp.chunks : EarlyAt(c, h)
  PROVE  \E c \in resp.chunks : EarlyAt(c, g)
<1>1. PICK f \in resp.chunks : f.start = 0 /\ (h = 0 \/ EarlyAt(f, h))
  BY ChunkFacts DEF EarlyAt
<1>2. f.data \in Nat /\ f.next \in Nat /\ g \in Nat /\ n \in Nat /\ n <= ReadSize
  BY ChunkFacts
<1>3. \/ g < Larger(f.data, 5)
      \/ f.last /\ g < f.next
      \/ /\ ~f.last /\ f.next < g
         /\ \E d \in resp.chunks : d.start = f.next /\ g < IF d.last THEN d.next ELSE d.data
  BY <1>1, EarlyOutcome
<1>4. ~f.last /\ f.next < g => f.next < Larger(f.data, 5) + ReadSize - 1
  BY <1>1, <1>2 DEF EarlyAt, Larger
<1> QED
  BY <1>1, <1>3, <1>4 DEF EarlyAt

\* Buffering is not given up before the first offset has been found.
LEMMA NoEarlyStepBack ==
  ASSUME resp \in Responses, Chunked, NEW g \in Nat, NEW n \in 1..ReadSize,
         g + n <= resp.length, NEW c \in resp.chunks, EarlyAt(c, g)
  PROVE  HeadSize + g + n + 1 <= Limit
<1>1. /\ ReadSize \in Nat /\ ReadSize >= 5 /\ HeadSize \in Nat /\ Limit \in Nat
      /\ n \in Nat /\ n <= ReadSize
  BY ResponseAssumption
<1>2. /\ c.start = 0 /\ c.data \in Nat /\ c.next \in Nat /\ c.data >= 3
      /\ HeadSize + 2 * (ReadSize + c.data) + 1 <= Limit
      /\ c.last => c.next = c.data + 2 /\ c.next = resp.length
  <2>1. /\ c.start = 0 /\ c.start + 3 <= c.data /\ c.data \in Nat /\ c.next \in Nat
        /\ HeadSize + 2 * (ReadSize + (c.data - c.start)) + 1 <= Limit
        /\ c.last => c.next = c.data + 2 /\ c.next = resp.length
    BY ChunkFacts DEF EarlyAt
  <2>2. c.data - c.start = c.data
    BY <2>1
  <2> QED
    BY <2>1, <2>2
<1>3. CASE g < Larger(c.data, 5)
  BY <1>1, <1>2, <1>3 DEF Larger
<1>4. CASE c.last /\ g < c.next
  BY <1>1, <1>2, <1>4
<1>5. CASE /\ ~c.last /\ c.next < g /\ c.next < Larger(c.data, 5) + ReadSize - 1
           /\ \E d \in resp.chunks : d.start = c.next /\ g < IF d.last THEN d.next ELSE d.data
  <2>1. PICK d \in resp.chunks : d.start = c.next /\ g < IF d.last THEN d.next ELSE d.data
    BY <1>5
  <2>2. /\ d.data \in Nat /\ d.next \in Nat /\ d.last \in BOOLEAN
        /\ d.start + 3 <= d.data
        /\ d.last => d.next = d.data + 2 /\ d.next = resp.length
    BY ChunkFacts
  <2> DEFINE m == d.data - d.start
  <2>3. HeadSize + 2 * (ReadSize + m) + 1 <= Limit
    BY ChunkFacts
  <2>4. m \in Nat /\ d.data = c.next + m
    BY <1>2, <2>1, <2>2
  <2> HIDE DEF m
  <2>5. c.next <= c.data + ReadSize \/ (c.data < 5 /\ c.next <= 3 + ReadSize)
    BY <1>1, <1>2, <1>5 DEF Larger
  <2>6. c.next <= c.data + ReadSize
    BY <1>1, <1>2, <2>5
  <2>7. g + n + 1 <= d.data + ReadSize
    BY <1>1, <2>1, <2>2
  <2>8. c.next <= c.data + ReadSize
    BY <2>6
  <2>9. HeadSize + g + n + 1 <= HeadSize + c.data + m + 2 * ReadSize
    BY <1>1, <1>2, <2>4, <2>7, <2>8
  <2> QED
    BY <1>1, <1>2, <2>3, <2>4, <2>9
<1> QED
  BY <1>3, <1>4, <1>5 DEF EarlyAt

\* An offset that is moved with the beginning of the buffer stays where it was, or it
\* becomes so large that nothing reaches it.
LEMMA Moved ==
  ASSUME NEW L \in Nat, SizeMax \in Nat, 2 * L < SizeMax, NEW b \in Nat, NEW g \in Nat,
         b <= g, g <= L, NEW o \in 0..(SizeMax - 1)
  PROVE  /\ Minus(o, g - b) \in 0..(SizeMax - 1)
         /\ g + Minus(o, g - b) = b + o \/ g + Minus(o, g - b) > L
<1>1. g - b \in Nat /\ g - b <= L /\ o \in Nat /\ o < SizeMax
  OBVIOUS
<1>2. CASE o >= g - b
  <2>1. o - (g - b) \in Nat /\ o - (g - b) < SizeMax
    BY <1>1, <1>2
  <2>2. Minus(o, g - b) = o - (g - b)
    BY <1>1, <2>1 DEF Minus
  <2> QED
    BY <1>1, <2>1, <2>2
<1>3. CASE o < g - b
  <2>1. (o - (g - b)) + SizeMax \in Nat /\ (o - (g - b)) + SizeMax < SizeMax
    BY <1>1, <1>3
  <2>2. Minus(o, g - b) = (o - (g - b)) + SizeMax
    BY <1>1, <1>3, <2>1 DEF Minus
  <2>3. g + ((o - (g - b)) + SizeMax) > L
    BY <1>1, <1>3
  <2> QED
    BY <2>1, <2>2, <2>3
<1> QED
  BY <1>1, <1>2, <1>3

\* What a scan for chunks leaves: the position of a chunk, a lost one, or the end.
LEMMA Tracked ==
  ASSUME resp \in Responses, Chunked, NEW g \in 0..resp.length, NEW b \in 0..g,
         NEW o \in 0..(SizeMax - 1), NEW n \in Nat, FindChunks(b, g, o, n), ~known,
         known \in BOOLEAN, expected \in Nat,
         NEW t \in BOOLEAN, ~t => b + o \in Starts \/ b + o > resp.length
  PROVE  /\ offset' \in 0..(SizeMax - 1) /\ expected' \in Nat /\ known' \in BOOLEAN
         /\ known' => expected' = n /\ (~t => g = resp.length)
         /\ ~known' =>
              /\ ~t => b + offset' \in Starts \/ b + offset' > resp.length
              /\ g = resp.length => b + offset' \notin Starts
         /\ b + o \in Starts => b + offset' \in Starts
         /\ \E rc \in Scan(b, g, o) : offset' = Kept(rc, o) /\ (~known' => rc # 0)
<1>1. PICK rc \in Scan(b, g, o) :
        /\ offset' = IF rc > 0 THEN rc ELSE o
        /\ IF rc = 0 THEN expected' = n /\ known' = TRUE ELSE UNCHANGED <<expected, known>>
  BY DEF FindChunks
<1>2. offset' = Kept(rc, o)
  BY <1>1 DEF Kept
<1>3. /\ Kept(rc, o) \in 0..(SizeMax - 1) /\ rc \in Int
      /\ b + o \in Starts => b + Kept(rc, o) \in Starts
      /\ b + o > resp.length => b + Kept(rc, o) > resp.length
      /\ b + o \in Starts \/ b + o > resp.length => (rc = 0 => g = resp.length)
      /\ g = resp.length /\ rc # 0 => b + Kept(rc, o) \notin Starts
  BY ScanFacts
<1>4. CASE rc = 0
  BY <1>1, <1>2, <1>3, <1>4
<1>5. CASE rc # 0
  <2>1. known' = known /\ expected' = expected
    BY <1>1, <1>5
  <2>2. known' \in BOOLEAN /\ ~known'
    BY <2>1
  <2> QED
    BY <1>2, <1>3, <1>5, <2>1, <2>2
<1> QED
  BY <1>4, <1>5

\* Every response is shorter than half of what a size_t counts.
LEMMA Sizes ==
  ASSUME resp \in Responses
  PROVE  /\ resp.length \in Nat /\ SizeMax \in Nat /\ 2 * resp.length < SizeMax
         /\ ReadSize \in Nat /\ HeadSize \in Nat /\ Limit \in Nat
         /\ resp.framing = "none" => resp.length = 0
         /\ Requests \subseteq Nat
<1>1. resp \in ResponseType
  BY ResponseAssumption
<1>2. resp.length \in Nat
  BY <1>1 DEF ResponseType
<1> QED
  BY <1>2, ResponseAssumption

-----------------------------------------------------------------------------
(* The steps.                                                              *)

LEMMA InitStep == Init => ResponseInv
<1> SUFFICES ASSUME Init PROVE ResponseInv
  OBVIOUS
<1>1. /\ resp \in Responses /\ at = "header" /\ filtering = FALSE
      /\ base = 0 /\ got = 0 /\ head = 0 /\ offset = 0
      /\ count = 0 /\ expected = 0 /\ known = FALSE /\ sent = 0 /\ filtered = FALSE
      /\ tainted = FALSE /\ clientKA \in BOOLEAN /\ gone = FALSE /\ reqLeft \in Requests
      /\ watch \in (IF reqLeft = 0 THEN BOOLEAN ELSE {TRUE})
  BY DEF Init
<1>2. got \in 0..resp.length /\ base \in 0..got /\ offset \in 0..(SizeMax - 1) /\ reqLeft \in Nat
  BY <1>1, Sizes
<1>3. watch \in BOOLEAN
  BY <1>1
<1>4. Types
  BY <1>1, <1>2, <1>3 DEF Types
<1>5. HeaderInv
  BY <1>1 DEF HeaderInv
<1>6. LengthInv /\ BufferedInv
  BY <1>1 DEF LengthInv, BufferedInv
<1>7. TrackInv /\ EarlyInv /\ DoneInv
  BY <1>1 DEF TrackInv, EarlyInv, DoneInv
<1> QED
  BY <1>4, <1>5, <1>6, <1>7 DEF ResponseInv

\* What nothing but the client's request changes.
LEMMA ClientStep ==
  ASSUME ResponseInv, \/ \E n \in 1..ReadSize : ClientSends(n)
                      \/ ClientPipelines
                      \/ UNCHANGED vars
  PROVE  ResponseInv'
<1>1. /\ UNCHANGED <<resp, at, filtering, base, got, head, offset>>
      /\ UNCHANGED <<count, expected, known, sent, filtered>>
      /\ UNCHANGED <<tainted, clientKA, gone>>
  BY DEF ClientSends, ClientPipelines, vars, bufferVars, countVars, connVars, clientVars
<1>2. reqLeft' \in Nat /\ watch' \in BOOLEAN
  <2>1. reqLeft \in Nat /\ watch \in BOOLEAN
    BY DEF ResponseInv, Types
  <2>2. CASE \E n \in 1..ReadSize : ClientSends(n)
    <3>1. PICK n \in 1..ReadSize : ClientSends(n)
      BY <2>2
    <3>2. n \in Nat /\ n <= reqLeft /\ reqLeft' = reqLeft - n /\ watch' = watch
      BY <3>1, ResponseAssumption DEF ClientSends
    <3> QED
      BY <2>1, <3>2
  <2>3. CASE ClientPipelines
    BY <2>1, <2>3 DEF ClientPipelines
  <2>4. CASE UNCHANGED vars
    BY <2>1, <2>4 DEF vars, clientVars
  <2> QED
    BY <2>2, <2>3, <2>4
<1>3. Types'
  BY <1>1, <1>2 DEF ResponseInv, Types
<1>4. HeaderInv'
  BY <1>1 DEF ResponseInv, HeaderInv
<1>5. LengthInv'
  BY <1>1 DEF ResponseInv, LengthInv, LengthKnown, Chunked
<1>6. BufferedInv'
  BY <1>1 DEF ResponseInv, BufferedInv
<1>7. TrackInv'
  BY <1>1 DEF ResponseInv, TrackInv, Chunked, Starts, Lost
<1>8. EarlyInv'
  BY <1>1 DEF ResponseInv, EarlyInv, Chunked, EarlyAt
<1>9. DoneInv'
  BY <1>1 DEF ResponseInv, DoneInv, LengthKnown, Chunked
<1> QED
  BY <1>3, <1>4, <1>5, <1>6, <1>7, <1>8, <1>9 DEF ResponseInv

\* The loop is left with a tainted connection.
LEMMA GiveUpStep ==
  ASSUME ResponseInv, GiveUp, at \in {"header", "body"}
  PROVE  ResponseInv'
<1>1. /\ at' = "done" /\ tainted' = TRUE
      /\ UNCHANGED <<resp, filtering, base, got, head, offset>>
      /\ UNCHANGED <<count, expected, known, sent, filtered>>
      /\ UNCHANGED <<clientKA, gone, reqLeft, watch>>
  BY DEF GiveUp, bufferVars, countVars, clientVars
<1>2. Types'
  BY <1>1 DEF ResponseInv, Types
<1>3. HeaderInv' /\ LengthInv' /\ TrackInv' /\ EarlyInv'
  BY <1>1 DEF HeaderInv, LengthInv, TrackInv, EarlyInv
<1>4. BufferedInv'
  BY <1>1 DEF ResponseInv, BufferedInv
<1>5. count = got /\ sent \in {got, IF filtering THEN 0 ELSE got} /\ ~filtered
  <2>1. CASE at = "header"
    BY <2>1 DEF ResponseInv, HeaderInv, BufferedInv
  <2>2. CASE at = "body"
    BY <2>2 DEF ResponseInv, LengthInv, BufferedInv
  <2> QED
    BY <2>1, <2>2
<1>6. DoneInv'
  BY <1>1, <1>5 DEF DoneInv
<1> QED
  BY <1>2, <1>3, <1>4, <1>6 DEF ResponseInv

\* The response is complete, or the server has closed the connection.
LEMMA FinishStep ==
  ASSUME ResponseInv, at = "body", Finish, (Complete /\ gone' = gone) \/ gone' = TRUE
  PROVE  ResponseInv'
<1>1. /\ at' = "done" /\ tainted' = TaintAtEnd
      /\ UNCHANGED <<resp, filtering, base, got, head, offset, count, expected, known>>
      /\ UNCHANGED <<reqLeft, watch>>
  BY DEF Finish, bufferVars, clientVars
<1>2. /\ resp \in Responses /\ filtering \in BOOLEAN /\ known \in BOOLEAN /\ tainted \in BOOLEAN
      /\ filtered \in BOOLEAN /\ clientKA \in BOOLEAN /\ gone \in BOOLEAN
      /\ got \in 0..resp.length /\ base \in 0..got /\ offset \in 0..(SizeMax - 1)
      /\ count \in Nat /\ expected \in Nat /\ sent \in Nat /\ head \in Nat
      /\ reqLeft \in Nat /\ watch \in BOOLEAN
  BY DEF ResponseInv, Types
<1>3. /\ count = got /\ sent = (IF filtering THEN 0 ELSE got) /\ ~filtered
      /\ LengthKnown => known /\ expected = resp.length
      /\ Chunked /\ known => expected = count /\ (~tainted => got = resp.length)
      /\ known => LengthKnown \/ Chunked
      /\ filtering => base = 0
  BY DEF ResponseInv, LengthInv, BufferedInv
<1>4. Whole /\ Chunked /\ filtering => got = resp.length
  <2> SUFFICES ASSUME Whole, Chunked, filtering PROVE got = resp.length
    OBVIOUS
  <2>1. base = 0 /\ 0 \in Scan(0, got, 0) /\ 0 \in 0..got
    BY <1>2, <1>3, Sizes DEF Whole
  <2>2. 0 + 0 \in Starts /\ 0 \in 0..(SizeMax - 1)
    BY <1>2, ChunkFacts
  <2>3. (0 + 0) \in Starts \/ (0 + 0) > resp.length => (0 = 0 => got = resp.length)
    BY <1>2, <2>1, <2>2, ScanFacts
  <2> QED
    BY <2>2, <2>3
<1>5. /\ filtered' \in BOOLEAN /\ clientKA' \in BOOLEAN /\ sent' \in Nat
      /\ sent' \in {got, IF filtering THEN 0 ELSE got}
      /\ filtered' /\ Chunked => base = 0 /\ got = resp.length
      /\ clientKA' /\ Chunked /\ filtering /\ got > 0 => got = resp.length /\ sent' = got
      /\ LengthKnown => sent' = got
  <2>1. CASE filtering /\ got > base
    <3>1. filtered' = (Chunked => Whole) /\ clientKA' = (clientKA /\ filtered') /\ sent' = got
      BY <2>1 DEF Finish
    <3>2. filtered' \in BOOLEAN /\ clientKA' \in BOOLEAN
      BY <3>1
    <3>3. sent' \in Nat /\ sent' = got
      BY <1>2, <3>1, Sizes
    <3>4. filtered' /\ Chunked => base = 0 /\ got = resp.length
      BY <1>3, <1>4, <2>1, <3>1
    <3> QED
      BY <3>1, <3>2, <3>3, <3>4
  <2>2. CASE ~(filtering /\ got > base)
    <3>1. filtered' = filtered /\ clientKA' = clientKA /\ sent' = sent
      BY <2>2 DEF Finish
    <3>2. filtering => got = 0
      BY <1>2, <1>3, <2>2, Sizes
    <3> QED
      BY <1>2, <1>3, <3>1, <3>2, Sizes
  <2> QED
    BY <2>1, <2>2
<1>6. TaintAtEnd \in BOOLEAN /\ gone' \in BOOLEAN
  <2>1. TaintAtEnd \in BOOLEAN
    BY DEF TaintAtEnd
  <2>2. gone' \in BOOLEAN
    BY <1>2
  <2> QED
    BY <2>1, <2>2
<1>7. ~TaintAtEnd /\ known => got = resp.length
  BY <1>3 DEF TaintAtEnd
<1>8. ~TaintAtEnd /\ ~gone' => got = resp.length
  <2> SUFFICES ASSUME ~TaintAtEnd, ~gone' PROVE got = resp.length
    OBVIOUS
  <2>1. Complete
    OBVIOUS
  <2>2. CASE resp.framing = "none"
    BY <1>2, <2>2, Sizes
  <2>3. CASE known
    BY <1>7, <2>3
  <2> QED
    BY <2>1, <2>2, <2>3 DEF Complete
<1>9. Types'
  BY <1>1, <1>2, <1>5, <1>6 DEF Types
<1>10. HeaderInv' /\ LengthInv' /\ TrackInv' /\ EarlyInv' /\ BufferedInv'
  BY <1>1, <1>3 DEF HeaderInv, LengthInv, TrackInv, EarlyInv, BufferedInv
<1>11. DoneInv'
  <2>1. LengthKnown' = LengthKnown /\ Chunked' = Chunked
    BY <1>1 DEF LengthKnown, Chunked
  <2>2. LengthKnown /\ ~TaintAtEnd => got = resp.length /\ sent' = got
    BY <1>3, <1>5, <1>7
  <2> QED
    BY <1>1, <1>3, <1>5, <1>8, <2>1, <2>2 DEF DoneInv
<1> QED
  BY <1>9, <1>10, <1>11 DEF ResponseInv

\* While the body is read nothing is said about what comes before and after it.
LEMMA InBody ==
  ASSUME at' = "body"
  PROVE  HeaderInv' /\ DoneInv'
  BY DEF HeaderInv, DoneInv

\* The header, and what came with it.
LEMMA ReadHeaderStep ==
  ASSUME ResponseInv, NEW k \in 0..ReadSize, ReadHeader(k)
  PROVE  ResponseInv'
<1>1. /\ resp \in Responses /\ filtered \in BOOLEAN /\ ~filtered /\ clientKA \in BOOLEAN
      /\ gone \in BOOLEAN /\ reqLeft \in Nat /\ watch \in BOOLEAN /\ ~tainted /\ tainted \in BOOLEAN
  BY DEF ResponseInv, Types, HeaderInv, BufferedInv, ReadHeader
<1>2. /\ resp.length \in Nat /\ SizeMax \in Nat /\ 2 * resp.length < SizeMax
      /\ ReadSize \in Nat /\ HeadSize \in Nat
  BY <1>1, Sizes
<1>3. PICK filter \in BOOLEAN, rc \in IF Chunked THEN Scan(0, k, 0) ELSE {-1} :
       LET o        == IF rc > 0 THEN rc ELSE 0
           tracking == Chunked /\ rc # 0
       IN  /\ filtering' = filter
           /\ known' = (LengthKnown \/ rc = 0)
           /\ expected' = IF LengthKnown THEN resp.length ELSE IF rc = 0 THEN k ELSE 0
           /\ IF filter
              THEN /\ base' = 0 /\ head' = HeadSize /\ sent' = 0
                   /\ offset' = o
                   /\ UNCHANGED tainted
              ELSE /\ base' = k /\ head' = (IF k = 0 THEN HeadSize ELSE 0) /\ sent' = k
                   /\ offset' = IF tracking /\ o >= k THEN o - k ELSE o
                   /\ tainted' = (tracking /\ FlushedTooMuch(o, k))
  BY DEF ReadHeader
<1> DEFINE o        == IF rc > 0 THEN rc ELSE 0
           tracking == Chunked /\ rc # 0
<1>4. /\ k \in Nat /\ k <= resp.length /\ count' = k /\ got' = k /\ at' = "body"
      /\ k <= ReadSize
      /\ UNCHANGED <<resp, filtered, clientKA, gone, reqLeft, watch>>
  BY <1>2 DEF ReadHeader, clientVars
<1>5. o = Kept(rc, 0)
  BY DEF Kept
<1>6. /\ filtering' = filter
      /\ known' = (LengthKnown \/ rc = 0)
      /\ expected' = IF LengthKnown THEN resp.length ELSE IF rc = 0 THEN k ELSE 0
      /\ filter => /\ base' = 0 /\ head' = HeadSize /\ sent' = 0
                   /\ offset' = o /\ tainted' = tainted
      /\ ~filter => /\ base' = k /\ head' = (IF k = 0 THEN HeadSize ELSE 0) /\ sent' = k
                    /\ offset' = (IF tracking /\ o >= k THEN o - k ELSE o)
                    /\ tainted' = (tracking /\ o < k)
  BY <1>3 DEF FlushedTooMuch
<1> HIDE DEF o, tracking
<1>7. ~Chunked => rc = -1 /\ o = 0 /\ rc # 0
  <2>1. ~Chunked => rc = -1
    BY <1>3
  <2> QED
    BY <2>1 DEF o
<1>8. Chunked => /\ o \in 0..(SizeMax - 1) /\ rc \in Int /\ o \in Starts
                 /\ rc = 0 <=> k = resp.length
                 /\ rc = 0 => o = 0
                 /\ rc \in Scan(0, k, 0) /\ ~LengthKnown
  <2> SUFFICES ASSUME Chunked
               PROVE  /\ o \in 0..(SizeMax - 1) /\ rc \in Int /\ o \in Starts
                      /\ rc = 0 <=> k = resp.length
                      /\ rc = 0 => o = 0
                      /\ rc \in Scan(0, k, 0) /\ ~LengthKnown
    OBVIOUS
  <2>1. rc \in Scan(0, k, 0)
    BY <1>3
  <2>2. 0 + 0 \in Starts /\ 0 \in 0..(SizeMax - 1) /\ 0 \in 0..k /\ k \in 0..resp.length
    BY <1>1, <1>2, <1>4, ChunkFacts
  <2>3. /\ o \in 0..(SizeMax - 1) /\ rc \in Int
        /\ 0 + 0 \in Starts => 0 + o \in Starts
        /\ 0 + 0 \in Starts \/ 0 + 0 > resp.length => (rc = 0 => k = resp.length)
        /\ k = resp.length /\ rc # 0 => 0 + o \notin Starts
        /\ rc = 0 => o = 0
    BY <1>1, <1>5, <2>1, <2>2, ScanFacts
  <2>4. 0 + o = o
    BY <2>3
  <2>5. o \in Starts
    BY <2>2, <2>3, <2>4
  <2>6. ~LengthKnown
    BY DEF LengthKnown, Chunked
  <2> QED
    BY <2>1, <2>2, <2>3, <2>4, <2>5, <2>6
<1>9. Types'
  <2>1. o \in 0..(SizeMax - 1)
    BY <1>2, <1>7, <1>8
  <2>2. offset' \in 0..(SizeMax - 1)
    BY <1>2, <1>4, <1>6, <2>1
  <2>3. got' \in 0..resp.length /\ base' \in 0..got' /\ head' \in Nat
    BY <1>2, <1>4, <1>6
  <2>4. count' \in Nat /\ expected' \in Nat /\ sent' \in Nat
    BY <1>2, <1>4, <1>6
  <2>5. filtering' \in BOOLEAN
    BY <1>6
  <2>6. known' \in BOOLEAN
    BY <1>6
  <2>7. tainted' \in BOOLEAN
    BY <1>1, <1>6
  <2> QED
    BY <1>1, <1>4, <2>2, <2>3, <2>4, <2>5, <2>6, <2>7 DEF Types
<1>10. HeaderInv' /\ DoneInv'
  BY <1>4, InBody
<1>11. LengthInv'
  <2>1. LengthKnown' = LengthKnown /\ Chunked' = Chunked
    BY <1>4 DEF LengthKnown, Chunked
  <2>2. count' = got' /\ sent' = IF filtering' THEN 0 ELSE got'
    BY <1>4, <1>6
  <2>3. LengthKnown => known' /\ expected' = resp.length
    BY <1>6
  <2>4. Chunked /\ known' => expected' = count' /\ got' = resp.length
    BY <1>4, <1>6, <1>8
  <2>5. known' => LengthKnown \/ Chunked
    BY <1>6, <1>7
  <2> QED
    BY <1>4, <2>1, <2>2, <2>3, <2>4, <2>5 DEF LengthInv
<1>12. BufferedInv'
  BY <1>1, <1>4, <1>6 DEF BufferedInv
<1>13. TrackInv'
  <2> SUFFICES ASSUME Chunked, ~known'
               PROVE  /\ ~tainted' => base' + offset' \in Starts
                      /\ got' = resp.length => base' + offset' \notin Starts
                      /\ filtering' => base' + offset' \in Starts /\ ~tainted'
    BY <1>4 DEF TrackInv, Chunked, Starts, Lost
  <2>1. rc # 0 /\ got' # resp.length /\ tracking
    BY <1>4, <1>6, <1>8 DEF tracking
  <2>2. ~tainted' => base' + offset' \in Starts
    <3>1. CASE filter
      <4>1. base' + offset' = o
        BY <1>6, <1>8, <3>1
      <4> QED
        BY <1>8, <4>1
    <3>2. CASE ~filter
      <4>1. SUFFICES ASSUME ~tainted' PROVE base' + offset' \in Starts
        OBVIOUS
      <4>2. ~(o < k)
        BY <1>6, <2>1, <3>2, <4>1
      <4>3. base' + offset' = o
        BY <1>2, <1>4, <1>6, <1>8, <2>1, <3>2, <4>2
      <4> QED
        BY <1>8, <4>3
    <3> QED
      BY <3>1, <3>2
  <2>3. filtering' => ~tainted'
    BY <1>1, <1>6
  <2> QED
    BY <2>1, <2>2, <2>3
<1>14. EarlyInv'
  <2> SUFFICES ASSUME Chunked, filtering', ~known', offset' = 0
               PROVE  \E c \in resp.chunks : EarlyAt(c, k)
    BY <1>4 DEF EarlyInv, Chunked, EarlyAt
  <2>1. rc # 0 /\ Kept(rc, 0) = 0 /\ rc \in Scan(0, k, 0)
    BY <1>5, <1>6, <1>8
  <2>2. CASE k = 0
    <3>1. PICK f \in resp.chunks : f.start = 0
      BY <1>1, ChunkFacts
    <3>2. f.data \in Nat
      BY <1>1, ChunkFacts
    <3>3. EarlyAt(f, k)
      BY <2>2, <3>1, <3>2 DEF EarlyAt, Larger
    <3> QED
      BY <3>3
  <2>3. CASE k # 0
    <3>1. k \in 1..ReadSize /\ k \in 0..resp.length /\ k = 0 + k
      BY <1>2, <1>4, <2>3
    <3> QED
      BY <1>1, <1>2, <2>1, <3>1, EarlyKept
  <2> QED
    BY <2>2, <2>3
<1> QED
  BY <1>9, <1>10, <1>11, <1>12, <1>13, <1>14 DEF ResponseInv

\* What the loop knows when it reads on.
LEMMA ReadingFacts ==
  ASSUME ResponseInv, NEW n \in 1..ReadSize, Reading(n)
  PROVE  /\ resp \in Responses /\ at = "body" /\ ~filtered
         /\ resp.length \in Nat /\ SizeMax \in Nat /\ 2 * resp.length < SizeMax
         /\ ReadSize \in Nat /\ HeadSize \in Nat /\ Limit \in Nat
         /\ n \in Nat /\ got \in Nat /\ base \in Nat /\ base <= got
         /\ got' = got + n /\ got' <= resp.length /\ got' \in 0..resp.length
         /\ base \in 0..got' /\ got \in 0..got'
         /\ count = got /\ sent = (IF filtering THEN 0 ELSE got)
         /\ Chunked => ~known /\ ~LengthKnown
         /\ known => LengthKnown
         /\ LengthKnown => known /\ expected = resp.length
<1>1. /\ resp \in Responses /\ at = "body" /\ ~filtered
  BY DEF ResponseInv, Types, BufferedInv, Reading
<1>2. /\ resp.length \in Nat /\ SizeMax \in Nat /\ 2 * resp.length < SizeMax
      /\ ReadSize \in Nat /\ HeadSize \in Nat /\ Limit \in Nat
  BY <1>1, Sizes
<1>3. got \in 0..resp.length /\ base \in 0..got /\ expected \in Nat /\ count \in Nat
  BY DEF ResponseInv, Types
<1>4. /\ n \in Nat /\ got' = got + n /\ got' <= resp.length
  BY <1>2 DEF Reading
<1>5. /\ count = got /\ sent = (IF filtering THEN 0 ELSE got)
      /\ LengthKnown => known /\ expected = resp.length
      /\ Chunked /\ known => expected = count
      /\ known => LengthKnown \/ Chunked
  BY <1>1 DEF ResponseInv, LengthInv
<1>6. Chunked => ~known
  BY <1>3, <1>5 DEF Reading, Complete
<1>7. Chunked => ~LengthKnown
  BY DEF Chunked, LengthKnown
<1> QED
  BY <1>1, <1>2, <1>3, <1>4, <1>5, <1>6, <1>7

\* What the invariant says in the body of a chunked response that goes on.
LEMMA ChunkedFacts ==
  ASSUME ResponseInv, at = "body", Chunked, ~known
  PROVE  /\ offset \in 0..(SizeMax - 1) /\ offset \in Nat /\ known \in BOOLEAN
         /\ tainted \in BOOLEAN /\ expected \in Nat
         /\ ~tainted => base + offset \in Starts \/ base + offset > resp.length
         /\ filtering => base = 0 /\ base + offset \in Starts /\ ~tainted /\ head = HeadSize
         /\ filtering /\ offset = 0 => \E c \in resp.chunks : EarlyAt(c, got)
<1>1. /\ offset \in 0..(SizeMax - 1) /\ known \in BOOLEAN /\ tainted \in BOOLEAN
      /\ expected \in Nat
  BY DEF ResponseInv, Types
<1>2. offset \in Nat
  <2>1. SizeMax \in Nat
    BY ResponseAssumption
  <2> QED
    BY <1>1, <2>1
<1>3. /\ ~tainted => base + offset \in Starts \/ base + offset > resp.length
      /\ filtering => base + offset \in Starts /\ ~tainted
  BY DEF ResponseInv, TrackInv, Lost
<1>4. filtering => base = 0 /\ head = HeadSize
  BY DEF ResponseInv, BufferedInv
<1>5. filtering /\ offset = 0 => \E c \in resp.chunks : EarlyAt(c, got)
  BY DEF ResponseInv, EarlyInv
<1> QED
  BY <1>1, <1>2, <1>3, <1>4, <1>5

\* Of the next state: what holds when the length is not that of chunks.
LEMMA PlainStep ==
  ASSUME ResponseInv, NEW n \in 1..ReadSize, Reading(n), ~Chunked,
         UNCHANGED <<resp, expected, known, filtered>>, at' = "body",
         count' = got', sent' = (IF filtering' THEN 0 ELSE got'),
         filtering' => base' = 0 /\ head' = HeadSize
  PROVE  LengthInv' /\ BufferedInv' /\ TrackInv' /\ EarlyInv'
<1>1. /\ ~filtered
      /\ known => LengthKnown
      /\ LengthKnown => known /\ expected = resp.length
  BY ReadingFacts
<1>2. LengthKnown' = LengthKnown /\ ~Chunked'
  BY DEF LengthKnown, Chunked
<1>3. LengthInv'
  BY <1>1, <1>2 DEF LengthInv
<1>4. BufferedInv'
  BY <1>1 DEF BufferedInv
<1>5. TrackInv' /\ EarlyInv'
  BY <1>2 DEF TrackInv, EarlyInv
<1> QED
  BY <1>3, <1>4, <1>5

\* The same for chunks, after a scan from an offset that is one to begin at, or lost.
LEMMA ChunkedStep ==
  ASSUME ResponseInv, NEW n \in 1..ReadSize, Reading(n), Chunked,
         UNCHANGED <<resp, filtered, tainted>>, at' = "body",
         count' = got', sent' = (IF filtering' THEN 0 ELSE got'),
         filtering' => filtering /\ base' = 0 /\ head' = HeadSize,
         base' \in 0..got',
         NEW o \in 0..(SizeMax - 1),
         base' + o = base + offset \/ (~filtering' /\ base' + o > resp.length),
         FindChunks(base', got', o, count')
  PROVE  /\ LengthInv' /\ BufferedInv' /\ TrackInv'
         /\ offset' \in 0..(SizeMax - 1) /\ expected' \in Nat /\ known' \in BOOLEAN
         /\ \E rc \in Scan(base', got', o) : offset' = Kept(rc, o) /\ (~known' => rc # 0)
<1>1. /\ resp \in Responses /\ at = "body" /\ ~filtered /\ ~known /\ ~LengthKnown
      /\ got' \in 0..resp.length /\ got' \in Nat /\ base \in Nat /\ resp.length \in Nat
  BY ReadingFacts
<1>2. /\ offset \in Nat /\ known \in BOOLEAN
      /\ tainted \in BOOLEAN /\ expected \in Nat
      /\ ~tainted => base + offset \in Starts \/ base + offset > resp.length
      /\ filtering => base + offset \in Starts /\ ~tainted
  BY <1>1, ChunkedFacts
<1>3. ~tainted => base' + o \in Starts \/ base' + o > resp.length
  BY <1>2
<1> DEFINE b == base'
           g == got'
           m == count'
<1>4. /\ b \in 0..g /\ g \in 0..resp.length /\ m \in Nat /\ FindChunks(b, g, o, m)
      /\ ~tainted => b + o \in Starts \/ b + o > resp.length
  BY <1>1, <1>3
<1> HIDE DEF b, g, m
<1>5. /\ offset' \in 0..(SizeMax - 1) /\ expected' \in Nat /\ known' \in BOOLEAN
      /\ known' => expected' = m /\ (~tainted => g = resp.length)
      /\ ~known' =>
           /\ ~tainted => b + offset' \in Starts \/ b + offset' > resp.length
           /\ g = resp.length => b + offset' \notin Starts
      /\ b + o \in Starts => b + offset' \in Starts
      /\ \E rc \in Scan(b, g, o) : offset' = Kept(rc, o) /\ (~known' => rc # 0)
  BY <1>1, <1>2, <1>4, Tracked
<1>6. LengthKnown' = LengthKnown /\ Chunked' /\ Starts' = Starts
  BY DEF LengthKnown, Chunked, Starts
<1>7. LengthInv'
  BY <1>1, <1>5, <1>6 DEF LengthInv, g, m
<1>8. BufferedInv'
  BY <1>1 DEF BufferedInv
<1>9. filtering' => b + offset' \in Starts /\ ~tainted'
  BY <1>2, <1>5 DEF b
<1>10. TrackInv'
  BY <1>5, <1>6, <1>9 DEF TrackInv, Lost, b, g
<1> QED
  BY <1>5, <1>7, <1>8, <1>10 DEF b, g

\* A piece of the body is kept for the filters.
LEMMA BufferStep ==
  ASSUME ResponseInv, NEW n \in 1..ReadSize, Buffer(n)
  PROVE  ResponseInv'
<1>1. /\ filtering /\ Reading(n) /\ count' = count + n
      /\ UNCHANGED <<resp, at, filtering, base, head, sent, filtered, tainted, clientKA, gone>>
      /\ UNCHANGED <<reqLeft, watch>>
  BY DEF Buffer, connVars, clientVars
<1>2. /\ resp \in Responses /\ at = "body" /\ got' = got + n /\ got' \in 0..resp.length
      /\ base \in 0..got' /\ count = got /\ sent = 0 /\ got \in Nat /\ n \in Nat
      /\ Chunked => ~known
      /\ ReadSize \in Nat
  BY <1>1, ReadingFacts
<1>3. /\ base = 0 /\ head = HeadSize /\ HeadSize \in Nat
  BY <1>1, <1>2, Sizes DEF ResponseInv, BufferedInv
<1>4. /\ at' = "body" /\ count' = got' /\ count' \in Nat
      /\ sent' = (IF filtering' THEN 0 ELSE got')
      /\ (filtering' => filtering /\ base' = 0 /\ head' = HeadSize)
  BY <1>1, <1>2, <1>3
<1>5. /\ LengthInv' /\ BufferedInv' /\ TrackInv' /\ EarlyInv'
      /\ offset' \in 0..(SizeMax - 1) /\ expected' \in Nat /\ known' \in BOOLEAN
  <2>1. CASE ~Chunked
    <3>1. UNCHANGED <<offset, expected, known>>
      BY <2>1 DEF Buffer
    <3>2. LengthInv' /\ BufferedInv' /\ TrackInv' /\ EarlyInv'
      BY <1>1, <1>4, <2>1, <3>1, PlainStep
    <3> QED
      BY <3>1, <3>2 DEF ResponseInv, Types
  <2>2. CASE Chunked
    <3>1. FindChunks(base, got', offset, count')
      BY <2>2 DEF Buffer
    <3>2. /\ offset \in 0..(SizeMax - 1) /\ offset \in Nat
          /\ offset = 0 => \E c \in resp.chunks : EarlyAt(c, got)
      BY <1>1, <1>2, <2>2, ChunkedFacts
    <3>3. FindChunks(base', got', offset, count') /\ base' \in 0..got'
          /\ base' + offset = base + offset
      BY <1>1, <1>2, <3>1
    <3>4. /\ LengthInv' /\ BufferedInv' /\ TrackInv'
          /\ offset' \in 0..(SizeMax - 1) /\ expected' \in Nat /\ known' \in BOOLEAN
          /\ \E rc \in Scan(base', got', offset) :
               offset' = Kept(rc, offset) /\ (~known' => rc # 0)
      BY <1>1, <1>4, <2>2, <3>2, <3>3, ChunkedStep
    <3>5. EarlyInv'
      <4> SUFFICES ASSUME ~known', offset' = 0 PROVE \E c \in resp.chunks : EarlyAt(c, got')
        BY <1>1 DEF EarlyInv, EarlyAt
      <4> DEFINE g == got'
      <4>1. PICK rc \in Scan(0, g, offset) : 0 = Kept(rc, offset) /\ rc # 0
        BY <1>1, <1>3, <3>4
      <4>2. offset = 0
        <5>1. rc > 0 => 0 = rc
          BY <4>1 DEF Kept
        <5>2. ~(rc > 0)
          BY <4>1, <5>1
        <5> QED
          BY <4>1, <5>2 DEF Kept
      <4>3. g \in 0..resp.length /\ g = got + n
        BY <1>2
      <4>4. rc \in Scan(0, g, 0) /\ rc # 0 /\ Kept(rc, 0) = 0
        BY <4>1, <4>2
      <4> HIDE DEF g
      <4>5. \E c \in resp.chunks : EarlyAt(c, g)
        BY <1>2, <2>2, <3>2, <4>2, <4>3, <4>4, EarlyKept
      <4> QED
        BY <4>5 DEF g
    <3> QED
      BY <3>4, <3>5
  <2> QED
    BY <2>1, <2>2
<1>6. Types'
  BY <1>1, <1>2, <1>4, <1>5 DEF ResponseInv, Types
<1>7. HeaderInv' /\ DoneInv'
  BY <1>4, InBody
<1> QED
  BY <1>5, <1>6, <1>7 DEF ResponseInv

\* The buffer is full: what it holds is passed on, and so is the rest.
LEMMA StepBackStep ==
  ASSUME ResponseInv, NEW n \in 1..ReadSize, StepBack(n)
  PROVE  ResponseInv'
<1>1. /\ filtering /\ Reading(n) /\ ~Fits(n)
      /\ sent' = sent + ((got - base) + n) /\ count' = (got - base) + n
      /\ filtering' = FALSE /\ head' = 0
      /\ at' \in {"aborted", "body"}
      /\ UNCHANGED <<resp, filtered, tainted, clientKA, gone, reqLeft, watch>>
  BY DEF StepBack, Unbuffered, connVars, clientVars
<1>2. /\ resp \in Responses /\ at = "body" /\ got' = got + n /\ got' \in 0..resp.length
      /\ count = got /\ sent = 0 /\ got \in Nat /\ n \in Nat /\ got' <= resp.length
      /\ resp.length \in Nat /\ SizeMax \in Nat /\ 2 * resp.length < SizeMax
      /\ Chunked => ~known
      /\ ReadSize \in Nat /\ Limit \in Nat /\ HeadSize \in Nat /\ ~filtered
  BY <1>1, ReadingFacts
<1>3. base = 0 /\ head = HeadSize
  BY <1>1, <1>2 DEF ResponseInv, BufferedInv
<1>4. /\ count' = got' /\ sent' = got' /\ got' \in Nat
      /\ sent' = (IF filtering' THEN 0 ELSE got')
  BY <1>1, <1>2, <1>3
<1>5. Chunked => offset # 0
  <2> SUFFICES ASSUME Chunked, offset = 0 PROVE FALSE
    OBVIOUS
  <2>1. PICK c \in resp.chunks : EarlyAt(c, got)
    BY <1>1, <1>2, ChunkedFacts
  <2>2. HeadSize + got + n + 1 <= Limit
    BY <1>2, <2>1, NoEarlyStepBack
  <2>3. head + (got - base) + n + 1 <= Limit
    BY <1>2, <1>3, <2>2
  <2> QED
    BY <1>1, <2>3 DEF Fits
<1>6. base' \in 0..got'
  <2>1. CASE ~Chunked
    <3>1. base' = got'
      BY <2>1 DEF StepBack
    <3>2. got' \in 0..got'
      BY <1>2
    <3> QED
      BY <3>1, <3>2
  <2>2. CASE Chunked
    <3>1. base' = got
      BY <1>5, <2>2 DEF StepBack
    <3> QED
      BY <1>2, <3>1
  <2> QED
    BY <2>1, <2>2
<1>7. /\ at' = "body" => LengthInv' /\ BufferedInv' /\ TrackInv' /\ EarlyInv'
      /\ offset' \in 0..(SizeMax - 1) /\ expected' \in Nat /\ known' \in BOOLEAN
  <2>1. CASE ~Chunked
    <3>1. UNCHANGED <<offset, expected, known>>
      BY <2>1 DEF StepBack
    <3>2. at' = "body" => LengthInv' /\ BufferedInv' /\ TrackInv' /\ EarlyInv'
      BY <1>1, <1>4, <2>1, <3>1, PlainStep
    <3> QED
      BY <3>1, <3>2 DEF ResponseInv, Types
  <2>2. CASE Chunked
    <3> DEFINE o == Minus(offset, got - base)
    <3>1. base' = got /\ FindChunks(got, got', o, count')
      BY <1>5, <2>2 DEF StepBack
    <3>2. offset \in 0..(SizeMax - 1) /\ known \in BOOLEAN /\ expected \in Nat
          /\ tainted \in BOOLEAN /\ base + offset \in Starts
      BY <1>1, <1>2, <2>2, ChunkedFacts
    <3>3. /\ o \in 0..(SizeMax - 1)
          /\ got + o = base + offset \/ got + o > resp.length
      BY <1>2, <1>3, <3>2, Moved
    <3> HIDE DEF o
    <3>4. FindChunks(base', got', o, count')
          /\ (base' + o = base + offset \/ (~filtering' /\ base' + o > resp.length))
      BY <1>1, <3>1, <3>3
    <3>5. at' = "body" => LengthInv' /\ BufferedInv' /\ TrackInv'
      BY <1>1, <1>4, <1>6, <2>2, <3>3, <3>4, ChunkedStep
    <3>6. offset' \in 0..(SizeMax - 1) /\ expected' \in Nat /\ known' \in BOOLEAN
      <4> DEFINE g == got'
                 m == count'
      <4>1. /\ g \in 0..resp.length /\ got \in 0..g /\ m \in Nat /\ FindChunks(got, g, o, m)
        BY <1>2, <1>4, <3>1
      <4>2. got + o \in Starts \/ got + o > resp.length
        BY <3>2, <3>3
      <4> HIDE DEF g, m
      <4> QED
        BY <1>2, <2>2, <3>2, <3>3, <4>1, <4>2, Tracked
    <3>7. EarlyInv'
      BY <1>1 DEF EarlyInv
    <3> QED
      BY <3>5, <3>6, <3>7
  <2> QED
    BY <2>1, <2>2
<1>8. Types'
  <2>1. head' \in Nat /\ count' \in Nat /\ sent' \in Nat /\ filtering' \in BOOLEAN
    BY <1>1, <1>4
  <2>2. at' \in {"header", "body", "done", "aborted"}
    BY <1>1
  <2> QED
    BY <1>1, <1>2, <1>6, <1>7, <2>1, <2>2 DEF ResponseInv, Types
<1>9. CASE at' = "body"
  BY <1>7, <1>8, <1>9, InBody DEF ResponseInv
<1>10. CASE at' = "aborted"
  <2>1. HeaderInv' /\ LengthInv' /\ TrackInv' /\ EarlyInv' /\ DoneInv'
    BY <1>10 DEF HeaderInv, LengthInv, TrackInv, EarlyInv, DoneInv
  <2>2. BufferedInv'
    BY <1>1, <1>2 DEF BufferedInv
  <2> QED
    BY <1>8, <2>1, <2>2 DEF ResponseInv
<1> QED
  BY <1>1, <1>9, <1>10

\* A piece of the body is passed on.
LEMMA PassStep ==
  ASSUME ResponseInv, NEW n \in 1..ReadSize, Pass(n)
  PROVE  ResponseInv'
<1>1. /\ ~filtering /\ Reading(n) /\ sent' = sent + n /\ count' = count + n
      /\ UNCHANGED <<resp, at, filtering, filtered, tainted, clientKA, gone, reqLeft, watch>>
  BY DEF Pass, connVars, clientVars
<1>2. /\ resp \in Responses /\ at = "body" /\ got' = got + n /\ got' \in 0..resp.length
      /\ count = got /\ sent = got /\ got \in Nat /\ n \in Nat /\ got' <= resp.length
      /\ resp.length \in Nat /\ SizeMax \in Nat /\ 2 * resp.length < SizeMax
      /\ base \in Nat /\ base <= got /\ base \in 0..got' /\ got \in 0..got'
      /\ Chunked => ~known
  BY <1>1, ReadingFacts
<1>3. /\ count' = got' /\ sent' = got' /\ got' \in Nat /\ at' = "body"
      /\ sent' = (IF filtering' THEN 0 ELSE got')
  BY <1>1, <1>2
<1>4. /\ LengthInv' /\ BufferedInv' /\ TrackInv'
      /\ offset' \in 0..(SizeMax - 1) /\ expected' \in Nat /\ known' \in BOOLEAN
      /\ base' \in 0..got' /\ head' \in Nat
  <2>1. CASE ~Chunked
    <3>1. base' = got' /\ UNCHANGED <<head, offset, expected, known>>
      BY <2>1 DEF Pass
    <3>2. LengthInv' /\ BufferedInv' /\ TrackInv'
      BY <1>1, <1>3, <2>1, <3>1, PlainStep
    <3>3. got' \in 0..got'
      BY <1>2
    <3>4. base' \in 0..got'
      BY <3>1, <3>3
    <3> QED
      BY <3>1, <3>2, <3>4 DEF ResponseInv, Types
  <2>2. CASE Chunked
    <3> DEFINE reset == Limit \div 4 < got - base
               o == IF reset THEN Minus(offset, got - base) ELSE offset
    <3>1. /\ base' = (IF reset THEN got ELSE base) /\ head' = (IF reset THEN 0 ELSE head)
          /\ FindChunks(base', got', o, count')
      BY <2>2 DEF Pass
    <3>2. offset \in 0..(SizeMax - 1) /\ offset \in Nat
      BY <1>2, <2>2, ChunkedFacts
    <3>3. /\ Minus(offset, got - base) \in 0..(SizeMax - 1)
          /\ \/ got + Minus(offset, got - base) = base + offset
             \/ got + Minus(offset, got - base) > resp.length
      BY <1>2, <3>2, Moved
    <3>4. /\ o \in 0..(SizeMax - 1)
          /\ base' + o = base + offset \/ base' + o > resp.length
      BY <3>1, <3>2, <3>3
    <3>5. base' \in 0..got'
      BY <1>2, <3>1
    <3>6. head' \in Nat
      BY <3>1 DEF ResponseInv, Types
    <3> HIDE DEF reset, o
    <3>7. /\ LengthInv' /\ BufferedInv' /\ TrackInv'
          /\ offset' \in 0..(SizeMax - 1) /\ expected' \in Nat /\ known' \in BOOLEAN
      BY <1>1, <1>3, <2>2, <3>1, <3>4, <3>5, ChunkedStep
    <3> QED
      BY <3>5, <3>6, <3>7
  <2> QED
    BY <2>1, <2>2
<1>5. Types'
  BY <1>1, <1>2, <1>3, <1>4 DEF ResponseInv, Types
<1>6. HeaderInv' /\ DoneInv'
  BY <1>3, InBody
<1>7. EarlyInv'
  BY <1>1 DEF EarlyInv
<1> QED
  BY <1>4, <1>5, <1>6, <1>7 DEF ResponseInv

LEMMA NextStep == ResponseInv /\ [Next]_vars => ResponseInv'
<1> SUFFICES ASSUME ResponseInv, [Next]_vars PROVE ResponseInv'
  OBVIOUS
<1>1. CASE \/ \E n \in 1..ReadSize : ClientSends(n)
           \/ ClientPipelines
           \/ UNCHANGED vars
  BY <1>1, ClientStep
<1>2. CASE Timeout \/ ClientHangsUp \/ ReadFails \/ NoUsableHeader \/ CrunchByTag
  <2>1. GiveUp /\ at \in {"header", "body"}
    BY <1>2 DEF Timeout, ClientHangsUp, ReadFails, NoUsableHeader, CrunchByTag, Looping
  <2> QED
    BY <2>1, GiveUpStep
<1>3. CASE DoneReading
  <2>1. at = "body" /\ Complete /\ Finish /\ gone' = gone
    BY <1>3 DEF DoneReading
  <2> QED
    BY <2>1, FinishStep
<1>4. CASE ServerCloses
  <2>1. at = "body" /\ Finish /\ gone' = TRUE
    BY <1>4 DEF ServerCloses
  <2> QED
    BY <2>1, FinishStep
<1>5. CASE \E k \in 0..ReadSize : ReadHeader(k)
  BY <1>5, ReadHeaderStep
<1>6. CASE \E n \in 1..ReadSize : Buffer(n) \/ StepBack(n) \/ Pass(n)
  BY <1>6, BufferStep, StepBackStep, PassStep
<1>7. CASE Ended
  <2>1. UNCHANGED vars
    BY <1>7 DEF Ended
  <2> QED
    BY <2>1, ClientStep
<1> QED
  BY <1>1, <1>2, <1>3, <1>4, <1>5, <1>6, <1>7 DEF Next, Client, Server

-----------------------------------------------------------------------------
(* What is promised.                                                       *)

\* The inductive invariant of handle_established_connection(): every byte is counted, the
\* chunks are tracked, lost for good or the connection is known to be unusable.
THEOREM ResponseInvariant == Spec => []ResponseInv
<1> QED
  BY InitStep, NextStep, PTL DEF Spec

\* serve() may keep and share a server connection: nothing of the response is left on it.
THEOREM ServerIdleWhenKept == Spec => []ServerKeptWhenIdle
<1>1. ResponseInv => ServerKeptWhenIdle
  BY DEF ResponseInv, DoneInv, ServerKeptWhenIdle
<1> QED
  BY <1>1, ResponseInvariant, PTL

\* serve() asks a client for another request only when the last response was complete.
THEOREM ClientServedWhenKept == Spec => []ClientKeptWhenServed
<1>1. ResponseInv => ClientKeptWhenServed
  BY DEF ResponseInv, DoneInv, ClientKeptWhenServed
<1> QED
  BY <1>1, ResponseInvariant, PTL

\* Stepping back from filtering, flushing and finishing lose no byte of a body and repeat
\* none, and the content filters see a chunked body whole or not at all.
THEOREM BodyStaysIntact == Spec => []BodyIntact
<1>1. ASSUME ResponseInv PROVE EachByteOnce
  <2>1. at = "body" => count = got /\ sent \in {got, IF filtering THEN 0 ELSE got}
    BY <1>1 DEF ResponseInv, LengthInv
  <2>2. at = "done" => count = got /\ sent \in {got, IF filtering THEN 0 ELSE got}
    BY <1>1 DEF ResponseInv, DoneInv
  <2> QED
    BY <2>1, <2>2 DEF EachByteOnce
<1>2. ASSUME ResponseInv PROVE FilteredWhole
  <2>1. CASE at = "done"
    BY <1>2, <2>1 DEF ResponseInv, DoneInv, FilteredWhole
  <2>2. CASE at # "done"
    BY <1>2, <2>2 DEF ResponseInv, BufferedInv, FilteredWhole
  <2> QED
    BY <2>1, <2>2
<1>3. ResponseInv => BodyIntact
  BY <1>1, <1>2 DEF BodyIntact
<1> QED
  BY <1>3, ResponseInvariant, PTL

\* server_response_is_complete() says so with the last byte of a response, at whatever bytes
\* the reads were split, unless the chunks have been lost.
THEOREM EndAlwaysNoticed == Spec => []EndNoticed
<1>1. ASSUME ResponseInv, at = "body", got = resp.length,
             LengthKnown \/ (Chunked /\ base + offset \in Starts)
      PROVE  Complete
  <2>1. count = got /\ count \in Nat
    BY <1>1 DEF ResponseInv, LengthInv, Types
  <2>2. CASE LengthKnown
    <3>1. known /\ expected = count
      BY <1>1, <2>1, <2>2 DEF ResponseInv, LengthInv
    <3> QED
      BY <2>1, <3>1 DEF Complete
  <2>3. CASE Chunked /\ base + offset \in Starts
    <3>1. known
      BY <1>1, <2>3 DEF ResponseInv, TrackInv
    <3>2. expected = count
      BY <1>1, <2>3, <3>1 DEF ResponseInv, LengthInv
    <3> QED
      BY <2>1, <3>1, <3>2 DEF Complete
  <2> QED
    BY <1>1, <2>2, <2>3
<1>2. ResponseInv => EndNoticed
  BY <1>1 DEF EndNoticed
<1> QED
  BY <1>2, ResponseInvariant, PTL
=============================================================================
