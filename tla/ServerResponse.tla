--------------------------- MODULE ServerResponse ---------------------------
(***************************************************************************)
(* One response on its way through handle_established_connection() (jcc.c):*)
(* read piece by piece, passed through or buffered for the filters, its    *)
(* end recognised by its length, by its last chunk or by the server, while *)
(* the client may still send its request body, or hang up.                 *)
(*                                                                         *)
(* What matters of a body are positions: where each chunk starts, where    *)
(* its size line ends, how far it has been read.  The iob always holds the *)
(* bytes from "base" to "got", so an offset into it stands for a position. *)
(***************************************************************************)
EXTENDS Integers

CONSTANTS
  Responses,  \* bodies a server may send, see ResponseType
  Requests,   \* sizes of what is left of the request body
  ReadSize,   \* receive-buffer-size
  HeadSize,   \* the header's part of the iob while a body is buffered
  Limit,      \* buffer-limit
  SizeMax     \* 2^w: the range of a size_t

\* framing: by Content-Length, chunked, by the end of the connection, or no body
\* (HEAD, 204, 304).  A chunk: the positions of its size line, of its data, and of
\* what follows; the last one has no data.
ResponseType ==
  [framing: {"length", "chunked", "close", "none"}, length: Nat,
   chunks: SUBSET [start: Nat, data: Nat, next: Nat, last: BOOLEAN]]

\* The chunks of a valid body follow each other from its beginning to its end: a size line
\* has a digit at least and a CRLF, another CRLF follows the data.
Follow(chunks, length) ==
  /\ \E c \in chunks : c.start = 0
  /\ \A c \in chunks :
       /\ c.start + 3 <= c.data /\ c.next <= length
       /\ IF c.last THEN c.next = c.data + 2 /\ c.next = length
                    ELSE c.data + 2 < c.next /\ \E d \in chunks : d.start = c.next
  /\ \A c, d \in chunks : c.start < d.start => c.next <= d.start
  /\ \A c, d \in chunks : c.start = d.start => c = d

\* Reads and size lines are short compared with the buffer (5000 bytes and 4 MB by
\* default): the first chunk has been found before the buffer is full.
ASSUME ResponseAssumption ==
  /\ Responses \subseteq ResponseType /\ Requests \subseteq Nat
  /\ ReadSize \in Nat /\ ReadSize >= 5 /\ HeadSize \in Nat /\ Limit \in Nat /\ SizeMax \in Nat
  /\ \A r \in Responses :
       /\ 2 * r.length < SizeMax
       /\ r.framing = "none" => r.length = 0
       /\ r.framing = "chunked" => Follow(r.chunks, r.length)
       /\ \A c \in r.chunks : HeadSize + 2 * (ReadSize + (c.data - c.start)) + 1 <= Limit

VARIABLES
  resp,      \* the response the server sends
  at,        \* "header", "body", "done", or "aborted" by an assertion
  filtering, \* buffer_and_filter_content
  base, got, \* positions of iob->cur and iob->eod
  head,      \* bytes of the iob before iob->cur
  offset,    \* chunk_offset
  count,     \* byte_count
  expected,  \* csp->expected_content_length
  known,     \* CSP_FLAG_CONTENT_LENGTH_SET
  sent,      \* body bytes written to the client
  filtered,  \* the content filters were run on the buffer
  tainted,   \* CSP_FLAG_SERVER_SOCKET_TAINTED
  clientKA,  \* CSP_FLAG_CLIENT_CONNECTION_KEEP_ALIVE
  gone,      \* the server has closed the connection
  reqLeft,   \* csp->expected_client_content_length
  watch      \* watch_client_socket

bufferVars == <<filtering, base, got, head, offset>>
countVars  == <<count, expected, known, sent, filtered>>
connVars   == <<tainted, clientKA, gone>>
clientVars == <<reqLeft, watch>>
vars == <<resp, at, bufferVars, countVars, connVars, clientVars>>

Init ==
  /\ resp \in Responses
  /\ at = "header"
  /\ filtering = FALSE
  /\ base = 0 /\ got = 0 /\ head = 0 /\ offset = 0
  /\ count = 0 /\ expected = 0 /\ known = FALSE /\ sent = 0 /\ filtered = FALSE
  /\ tainted = FALSE /\ clientKA \in BOOLEAN /\ gone = FALSE
  /\ reqLeft \in Requests
  /\ watch \in (IF reqLeft = 0 THEN BOOLEAN ELSE {TRUE})

-----------------------------------------------------------------------------
(* filters.c: finding chunks in the bytes from position b to position g.   *)

Chunked == resp.framing = "chunked"
Starts  == {c.start : c \in resp.chunks}

Minus(a, n)          == (a - n) % SizeMax

TooShortByOne(size) == size <= 5                          \* mutant of TooShort
TooShort(size)      == size < 5

\* The chunks from position p on whose size line has been read to its CRLF.
Lines(p, g) == {c \in resp.chunks : p <= c.start /\ c.data <= g}

\* last_valid_offset when the scan from p ends before the chunk at position s.
LastValid(b, p, s) ==
  LET D == {c \in resp.chunks : c.next = s /\ p <= c.start /\ c.start # b}
  IN  IF D = {} THEN -1 ELSE (CHOOSE c \in D : TRUE).start - b

\* get_bytes_missing_from_chunked_data() from the start of a chunk: 0 when the last
\* chunk is complete, the offset of the next one when everything so far was read,
\* else the last valid offset, else -1.
ScanFrom(b, p, g) ==
  LET lines == Lines(p, g)
      c     == CHOOSE x \in lines : \A y \in lines : y.start <= x.start
  IN  IF lines = {} THEN -1
      ELSE IF c.last THEN IF c.next <= g THEN 0 ELSE LastValid(b, p, c.start)
      ELSE IF c.next >= g THEN c.next - b
      ELSE LastValid(b, p, c.next)

\* What it may return when it does not begin at the start of a chunk: this is up to
\* the data.  It stops at a start it comes across only as a scan from there would.
Astray(b, g, o) ==
  LET Beyond == resp.length - b + 1 IN
  {-1, 0} \cup {rc \in 1..Beyond :
                  o <= rc /\ (b + rc \in Starts => rc >= g - b \/ ScanFrom(b, b + rc, g) = rc)}

Scan(b, g, o) ==
  IF TooShort(g - b) \/ o > g - b THEN {-1}
  ELSE IF b + o \in Starts \/ o = g - b THEN {ScanFrom(b, b + o, g)}
  ELSE Astray(b, g, o)

\* "We buffered the last chunk of the response."
FindChunks(b, g, o, n) ==
  \E rc \in Scan(b, g, o) :
    /\ offset' = IF rc > 0 THEN rc ELSE o
    /\ IF rc = 0 THEN expected' = n /\ known' = TRUE ELSE UNCHANGED <<expected, known>>

-----------------------------------------------------------------------------
(* The end of a response.                                                  *)

CompleteTooEarly == resp.framing = "none" \/ (known /\ expected <= count + 1)
\* server_response_is_complete(); the mutant above is off by one.
Complete == resp.framing = "none" \/ (known /\ expected <= count)

\* chunked_data_is_complete() of all that was buffered: otherwise
\* remove_chunked_transfer_coding() refuses.
Whole == got - base > 0 /\ 0 \in Scan(base, got, 0)

LengthNotChecked == tainted                               \* mutant of TaintAtEnd
\* "Received %llu bytes while expecting %llu."
TaintAtEnd ==
  \/ tainted
  \/ known /\ expected # count

\* reading_done: execute_content_filters() for what was buffered, then the loop is
\* left.  A body that can't be de-chunked is passed on as it is.
Finish ==
  /\ IF filtering /\ got > base
     THEN /\ filtered' = (Chunked => Whole)
          /\ clientKA' = (clientKA /\ filtered')
          /\ sent' = got
     ELSE UNCHANGED <<filtered, clientKA, sent>>
  /\ tainted' = TaintAtEnd
  /\ at' = "done"
  /\ UNCHANGED <<resp, bufferVars, count, expected, known, clientVars>>

DoneReading == at = "body" /\ Complete /\ Finish /\ UNCHANGED gone

\* read_socket() returns 0 for a body.
ServerCloses == at = "body" /\ ~Complete /\ gone' = TRUE /\ Finish

\* mark_server_socket_tainted(), and the loop is left or returned from.
GiveUp ==
  /\ at' = "done" /\ tainted' = TRUE
  /\ UNCHANGED <<resp, bufferVars, countVars, clientKA, gone, clientVars>>

\* The loop looks for more to read unless the response is known to be complete.
Looping == at = "header" \/ (at = "body" /\ ~Complete)

Timeout == Looping /\ GiveUp

\* Noticed by poll(), by an empty read, by a look at the socket while buffering, or
\* when a write fails, that of the filtered content included.
ClientHangsUp == (Looping \/ (at = "body" /\ filtering)) /\ GiveUp

ReadFails == Looping /\ GiveUp

\* The header is invalid, or the connection was closed before its end, with or
\* without the IIS 5 hack, or a header tag triggers a crunch.
NoUsableHeader == at = "header" /\ GiveUp
CrunchByTag    == at = "header" /\ GiveUp

-----------------------------------------------------------------------------
(* The client talks.                                                       *)

\* Some more of the request body, which is forwarded at once.
ClientSends(n) ==
  /\ Looping /\ watch /\ n <= reqLeft
  /\ reqLeft' = reqLeft - n
  /\ UNCHANGED <<resp, at, bufferVars, countVars, connVars, watch>>

\* The next request is there already: the client is not listened to any more.
ClientPipelines ==
  /\ Looping /\ watch /\ reqLeft = 0
  /\ watch' = FALSE
  /\ UNCHANGED <<resp, at, bufferVars, countVars, connVars, reqLeft>>

-----------------------------------------------------------------------------
(* The server talks.                                                       *)

\* server_save_content_length()
LengthKnown == resp.framing = "length"

FlushedEnough(o, k) == FALSE                              \* mutant of FlushedTooMuch
\* More of a chunked body was flushed than chunk_offset accounts for: the offset
\* is kept, and the connection is tainted.
FlushedTooMuch(o, k) == o < k

\* The header is complete, and with it came k bytes of the body.
ReadHeader(k) ==
  /\ at = "header" /\ k <= resp.length
  /\ count' = k /\ got' = k
  /\ \E filter \in BOOLEAN, rc \in IF Chunked THEN Scan(0, k, 0) ELSE {-1} :
       LET o        == IF rc > 0 THEN rc ELSE 0
           tracking == Chunked /\ rc # 0
       IN  /\ filtering' = filter
           /\ known' = (LengthKnown \/ rc = 0)
           /\ expected' = IF LengthKnown THEN resp.length ELSE IF rc = 0 THEN k ELSE 0
           /\ IF filter
              THEN /\ base' = 0 /\ head' = HeadSize /\ sent' = 0
                   /\ offset' = o
                   /\ UNCHANGED tainted
              ELSE /\ base' = k /\ head' = (IF k = 0 THEN HeadSize ELSE 0) /\ sent' = k
                   /\ offset' = IF tracking /\ o >= k THEN o - k ELSE o
                   /\ tainted' = (tracking /\ FlushedTooMuch(o, k))
  /\ at' = "body"
  /\ UNCHANGED <<resp, filtered, clientKA, gone, clientVars>>

Reading(n) == at = "body" /\ ~Complete /\ got + n <= resp.length /\ got' = got + n
Fits(n)    == head + (got - base) + n + 1 <= Limit

\* The body is kept for the filters.
Buffer(n) ==
  /\ filtering /\ Reading(n) /\ Fits(n)
  /\ count' = count + n
  /\ IF Chunked THEN FindChunks(base, got', offset, count')
                ELSE UNCHANGED <<offset, expected, known>>
  /\ UNCHANGED <<resp, at, filtering, base, head, sent, filtered, connVars, clientVars>>

\* Mutant of Unbuffered: what was just read is forgotten.
UnbufferedOnly(n) == got - base
\* What goes out after the header: the buffer, and what did not fit into it.
Unbuffered(n) == (got - base) + n

\* "Flushing header and buffers. Stepping back from filtering."
StepBack(n) ==
  /\ filtering /\ Reading(n) /\ ~Fits(n)
  /\ sent' = sent + Unbuffered(n)
  /\ count' = (got - base) + n
  /\ filtering' = FALSE /\ head' = 0
  /\ IF Chunked /\ offset # 0
     THEN /\ base' = got
          /\ FindChunks(got, got', Minus(offset, got - base), count')
     ELSE /\ base' = got'
          /\ IF Chunked THEN FindChunks(got', got', offset, count')
                        ELSE UNCHANGED <<offset, expected, known>>
  /\ at' \in IF Chunked /\ offset # 0 /\ offset < got - base THEN {"aborted", "body"} ELSE {"body"}
  /\ UNCHANGED <<resp, filtered, connVars, clientVars>>

\* The body is passed on; a chunked one is buffered for its chunks only, until the
\* buffer is a quarter full.
Pass(n) ==
  /\ ~filtering /\ Reading(n)
  /\ sent' = sent + n
  /\ count' = count + n
  /\ IF Chunked
     THEN LET reset == Limit \div 4 < got - base IN
          /\ base' = (IF reset THEN got ELSE base) /\ head' = (IF reset THEN 0 ELSE head)
          /\ FindChunks(base', got', IF reset THEN Minus(offset, got - base) ELSE offset, count')
     ELSE base' = got' /\ UNCHANGED <<head, offset, expected, known>>
  /\ UNCHANGED <<resp, at, filtering, filtered, connVars, clientVars>>

-----------------------------------------------------------------------------
Client == (\E n \in 1..ReadSize : ClientSends(n)) \/ ClientPipelines \/ ClientHangsUp

Server ==
  \/ \E k \in 0..ReadSize : ReadHeader(k)
  \/ \E n \in 1..ReadSize : Buffer(n) \/ StepBack(n) \/ Pass(n)
  \/ ReadFails \/ NoUsableHeader \/ CrunchByTag \/ ServerCloses \/ Timeout

Ended == at \in {"done", "aborted"} /\ UNCHANGED vars

Next == Client \/ Server \/ DoneReading \/ Ended

Spec == Init /\ [][Next]_vars
-----------------------------------------------------------------------------
(* What forwarding a response promises.                                    *)

\* Type invariant, with the limits of the buffer and of a size_t.
TypeOK ==
  /\ resp \in Responses /\ at \in {"header", "body", "done", "aborted"}
  /\ {filtering, known, filtered, tainted, clientKA, gone, watch} \subseteq BOOLEAN
  /\ got \in 0..resp.length /\ base \in 0..got /\ offset \in 0..SizeMax - 1
  /\ head + (got - base) < Limit
  /\ count \in Nat /\ expected \in Nat /\ sent \in Nat /\ reqLeft \in Nat

\* A server connection that serve() may keep and share has nothing of the response
\* left on it, "reusing the socket would lead to garbage": not even when the parser
\* of the chunks has lost its way.
ServerKeptWhenIdle == at = "done" /\ ~tainted /\ ~gone => got = resp.length

\* A client is asked for another request only if the response it waits for was
\* complete: by its length, or when the body was buffered for the filters.
ClientKeptWhenServed ==
  at = "done" /\ clientKA /\ ~tainted /\ (LengthKnown \/ (Chunked /\ filtering /\ got > 0))
    => got = resp.length /\ sent = got

\* Every byte of the body goes to the client once, and is counted once, also when
\* buffering is given up halfway.
EachByteOnce ==
  at \in {"body", "done"} => count = got /\ sent \in {got, IF filtering THEN 0 ELSE got}

\* Content filters never see a piece of a chunked body: "Refuse to de-chunk invalid
\* data".
FilteredWhole == filtered /\ Chunked => base = 0 /\ got = resp.length

\* A body reaches the client, or the filters, in one piece.
BodyIntact == EachByteOnce /\ FilteredWhole

\* The end of a response is recognised with its last byte, at whatever bytes the
\* reads were split, unless the position of the chunks is lost: nobody waits for a
\* server that has said everything.
EndNoticed ==
  at = "body" /\ got = resp.length /\ (LengthKnown \/ (Chunked /\ base + offset \in Starts))
    => Complete

(* What the code claims of it, and what does not hold.                     *)

\* "In case of valid data we shouldn't flush more data than chunk_offset":
\* "assert(chunk_offset >= flushed)".
FlushedUpToOffset == at # "aborted"
=============================================================================
