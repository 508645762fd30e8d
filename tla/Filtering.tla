----------------------------- MODULE Filtering -----------------------------
(***************************************************************************)
(* The way of one response body through the content filters: from sed(),   *)
(* which edits the response's head, over the buffered body's de-chunking,  *)
(* decompression, filtering (filters.c) and compression to the head and    *)
(* the body the client gets (jcc.c, handle_established_connection()).      *)
(*                                                                         *)
(* Pointers are numbers: 0 is NULL, IOB csp->iob->cur, the others buffers  *)
(* of the heap.  A body tells its codings, the edits made to its text, its *)
(* rough size and whether a stray NUL follows it.                          *)
(***************************************************************************)
EXTENDS ServerHeaders

CONSTANTS
  Responses,   \* [method, status, head, body]: what a server may send
  ActionSets,  \* actions and configuration that may apply, see ServerHeaders
  ClientFlags  \* what may be known of the client: sets of "ClientKeepAlive",
               \* "ClientDeflate" and "Tainted"

Sizes == 0..2  \* nothing, not worth compressing, more than 1024 bytes

\* The transfer codings the code tells apart: chunks are removed first, so they were
\* added last.  At most one content coding is told from the others.
Transfers == {<<>>, <<"chunked">>, <<"gzip">>, <<"gzip", "chunked">>}
Codings   == {<<>>} \cup {<<c>> : c \in DOMAIN CodingBits}
Unread    == [te : Transfers, ce : Codings, edits : {<<>>}, size : Sizes, nul : {FALSE}]

Nothing == [te |-> <<>>, ce |-> <<>>, edits |-> <<>>, size |-> 0, nul |-> FALSE]
\* A body stands for its number of bytes; without content it has none.
IsEmpty(b) == b.size = 0 /\ b.te = <<>> /\ b.ce = <<>>
Bytes(b)   == IF IsEmpty(b) THEN Nothing ELSE b

\* A head tells of its body, if at all, what it is: a length that can't be read is none.
\* That of a response to HEAD tells of a body that is not sent.
Describes(h, b) ==
  /\ b.ce = IF "Content-Encoding" \in DOMAIN h THEN h["Content-Encoding"] ELSE <<>>
  /\ "Content-Encoding" \in DOMAIN h => b.ce # <<>>
  /\ b.te = IF "Transfer-Encoding" \in DOMAIN h THEN h["Transfer-Encoding"] ELSE <<>>
  /\ "Content-Length" \in DOMAIN h =>
       ~Readable(h["Content-Length"]) \/ h["Content-Length"] = Bytes(b)

ASSUME FilteringAssumption ==
  /\ \A r \in Responses :
       /\ r.body \in Unread
       /\ r.method # "HEAD" => Describes(r.head, r.body)
       /\ "Set-Cookie" \in DOMAIN r.head =>
            r.head["Set-Cookie"] \in Seq({"over", "soon", "late", "unreadable"})
  /\ \A a \in ActionSets :
       /\ a.filters \in Seq(Nat) /\ a.external \in Seq(STRING)
       /\ {a.disposition, a.lastModified} \subseteq {"keep", "block", "replace"}
  /\ \A flags \in ClientFlags : flags \subseteq {"ClientKeepAlive", "ClientDeflate", "Tainted"}

VARIABLES
  at,       \* where the worker thread is
  s,        \* head and flags, see ServerHeaders
  method,
  acts,     \* csp->action and csp->config
  iob,      \* the body between iob->cur and iob->eod
  heap,     \* bodies in allocated buffers
  content,  \* the pointer execute_content_filters() is about to return, or p
  length,   \* csp->content_length, as the body it is the length of
  sent,     \* the body the client gets
  f, j,     \* filter and job at work
  data, old, new, hits, size,  \* pcrs_filter_impl()
  edits,    \* edits made by jobs that hit, in their order
  failed,   \* what went wrong: "job", "last job", "external", "chunks", "coding"
  strayed   \* pointers freed that are no buffer of the heap

pcrsVars == <<f, j, data, old, new, hits, size, edits>>
vars == <<at, s, method, acts, iob, heap, content, length, sent, pcrsVars, failed, strayed>>

Init ==
  /\ \E r \in Responses, flags \in ClientFlags :
       /\ s = [head |-> r.head, status |-> r.status, type |-> {}, flags |-> flags]
       /\ method = r.method
       /\ iob = r.body
  /\ acts \in ActionSets
  /\ at = "head" /\ heap = <<>> /\ content = 0 /\ length = Nothing /\ sent = Nothing
  /\ f = 0 /\ j = 0 /\ data = 0 /\ old = 0 /\ new = 0 /\ hits = 0 /\ size = Nothing
  /\ edits = <<>> /\ failed = {} /\ strayed = {}

-----------------------------------------------------------------------------
(* The heap.  Buffer names are reused, there are never more than four.     *)

IOB         == 9
Fresh       == CHOOSE n \in 1..4 : n \notin DOMAIN heap
With(h, p, b) == [x \in DOMAIN h \cup {p} |-> IF x = p THEN b ELSE h[x]]
Freed(h, P) == Restrict(h, DOMAIN h \ P)
At(p)       == IF p = IOB THEN iob ELSE heap[p]

\* freez() of the pointers in P; NULL is none of them.
Free(h, P) ==
  /\ heap' = Freed(h, P)
  /\ strayed' = strayed \cup (P \ (DOMAIN h \cup {0}))

-----------------------------------------------------------------------------
(* From the head to the buffered body.                                     *)

\* sed(), then content_requires_filtering(): the body is passed through or buffered.
EditHead ==
  /\ at = "head"
  /\ LET edited == sed(s, acts) IN
     IF content_requires_filtering(edited, acts)
     THEN at' = "prepare" /\ s' = ForcedType(edited, acts) /\ UNCHANGED sent
     ELSE at' = "done" /\ s' = ForcedType(edited, acts) /\ sent' = iob
  /\ UNCHANGED <<method, acts, iob, heap, content, length, pcrsVars, failed, strayed>>

\* We failed to de-chunk or decompress, don't accept another request on the client
\* connection.
GiveUp(what, type, flags) ==
  /\ s' = [s EXCEPT !.type = type, !.flags = flags \ {"ClientKeepAlive"}]
  /\ at' = "send" /\ content' = 0
  /\ failed' = failed \cup {what}

Dechunked == [iob EXCEPT !.te = Front(@)]
NeedsDecompression(b) == s.type \cap Compressed # {} /\ ~IsEmpty(b)
Decompressed(b) == [b EXCEPT !.ce = <<>>]                 \* enlarges the buffer as it inflates
NoLongerCoded(flags, b) ==                                \* what prepare_for_filtering() leaves
  [s EXCEPT !.flags = flags \cup {"Modified"},
            !.type  = IF NeedsDecompression(b) THEN @ \ {"TABOO"} ELSE @]

\* execute_content_filters() with a body that needs no preparation, or whose chunks
\* and compression are removed.  A compressed body that ends early is used as far as
\* it goes.
Prepared ==
  /\ at = "prepare"
  /\ LET plain == IF "Chunked" \in s.flags THEN Dechunked ELSE iob
         done  == IF NeedsDecompression(plain) THEN Decompressed(plain) ELSE plain
     IN  IF IsEmpty(iob)
         THEN at' = "send" /\ UNCHANGED <<s, iob>>
         ELSE /\ iob' = done
              /\ s' = IF "Chunked" \in s.flags \/ NeedsDecompression(plain)
                      THEN NoLongerCoded(s.flags, plain) ELSE s
              /\ at' = IF IsEmpty(done) THEN "send" ELSE "choose"
  /\ UNCHANGED <<method, acts, heap, content, length, sent, pcrsVars, failed, strayed>>

\* The chunks are invalid or incomplete.
ChunksBroken ==
  /\ at = "prepare" /\ ~IsEmpty(iob) /\ "Chunked" \in s.flags
  /\ GiveUp("chunks", s.type, s.flags)
  /\ UNCHANGED <<method, acts, iob, heap, length, sent, pcrsVars, strayed>>

\* decompress_iob() fails: the Content-Encoding header will stay.  For zlib's sake it
\* has already counted the NUL behind the data as part of them.
DecompressionFails ==
  /\ at = "prepare" /\ ~IsEmpty(iob)
  /\ LET plain == IF "Chunked" \in s.flags THEN Dechunked ELSE iob IN
     /\ NeedsDecompression(plain)
     /\ \E nul \in BOOLEAN : /\ nul => "DEFLATE" \in s.type
                            /\ iob' = [plain EXCEPT !.nul = nul]
  /\ GiveUp("coding", s.type \ Compressed,
            s.flags \cup (IF "Chunked" \in s.flags THEN {"Modified"} ELSE {}))
  /\ UNCHANGED <<method, acts, heap, length, sent, pcrsVars, strayed>>

-----------------------------------------------------------------------------
(* pcrs_filter_response_body() and pcrs_filter_impl()                      *)

\* An edit: filter and job, the GIF's other frames removed, an external filter.
Frame       == <<0, 0>>
External(n) == <<0, n>>

\* get_filter_function()
Choose ==
  /\ at = "choose"
  /\ at' = IF "TEXT" \in s.type /\ acts.filters # <<>> THEN "job"
           ELSE IF "GIF" \in s.type /\ acts.deanimate THEN "gif" ELSE "external"
  /\ data' = IOB /\ old' = IOB /\ new' = 0 /\ hits' = 0 /\ size' = iob /\ f' = 1 /\ j' = 1
  /\ UNCHANGED <<s, method, acts, iob, heap, content, length, sent, edits, failed, strayed>>

OldIsKept == {}                                           \* mutant of OldFreed
\* if (old != data) freez(old);
OldFreed == {old} \ {data}

\* pcrs_execute() makes a copy, with substitutions or without; the filter's next job,
\* or the next filter's first, works on it.
RunJob ==
  /\ at = "job" /\ f <= Len(acts.filters) /\ j <= acts.filters[f]
  /\ \E hit \in BOOLEAN, n \in Sizes :
       LET before == At(old)
           after  == IF hit THEN [before EXCEPT !.edits = Append(@, <<f, j>>), !.size = n] ELSE before
       IN  /\ hit \/ n = before.size
           /\ new' = Fresh
           /\ size' = after
           /\ hits' = IF hit THEN hits + 1 ELSE hits
           /\ edits' = IF hit THEN Append(edits, <<f, j>>) ELSE edits
           /\ Free(With(heap, Fresh, after), OldFreed)
           /\ old' = Fresh
  /\ j' = j + 1
  /\ failed' = failed \ {"last job"}
  /\ UNCHANGED <<at, s, method, acts, iob, content, length, sent, f, data>>

\* "This job caused an unexpected error. Inform the user and skip the rest of the jobs
\* in this filter."  There is no result.
JobFails ==
  /\ at = "job" /\ f <= Len(acts.filters) /\ j <= acts.filters[f]
  /\ new' = 0
  /\ f' = f + 1 /\ j' = 1
  /\ failed' = failed \cup {"job", "last job"}
  /\ UNCHANGED <<at, s, method, acts, iob, heap, content, length, sent, data, old, hits, size, edits, strayed>>

NextFilter ==
  /\ at = "job" /\ f <= Len(acts.filters) /\ j > acts.filters[f]
  /\ f' = f + 1 /\ j' = 1
  /\ UNCHANGED <<at, s, method, acts, iob, heap, content, length, sent, data, old, new, hits, size, edits, failed, strayed>>

AnyHits == hits > 0

\* Without hits the copy is destroyed; otherwise "new" is the result, if there is one.
EndFilters ==
  /\ at = "job" /\ f > Len(acts.filters)
  /\ IF AnyHits
     THEN /\ content' = new
          /\ IF new # 0
             THEN /\ s' = Raised(s, "Modified")
                  /\ length' = size
                  /\ iob' = Nothing
             ELSE UNCHANGED <<s, length, iob>>
          /\ UNCHANGED <<heap, strayed>>
     ELSE /\ content' = 0
          /\ Free(heap, ({old} \ {data}) \cup {new})
          /\ UNCHANGED <<s, length, iob>>
  /\ at' = "external" /\ f' = 1
  /\ UNCHANGED <<method, acts, sent, j, data, old, new, hits, size, edits, failed>>

\* gif_deanimate_response(); a GIF that can't be parsed stays as it is.
Deanimate ==
  /\ at = "gif"
  /\ \/ /\ content' = Fresh
        /\ heap' = With(heap, Fresh, [iob EXCEPT !.edits = Append(@, Frame), !.size = 1])
        /\ length' = [iob EXCEPT !.edits = Append(@, Frame), !.size = 1]
        /\ s' = Raised(s, "Modified")
        /\ edits' = Append(edits, Frame)
     \/ UNCHANGED <<content, heap, length, s, edits>>
  /\ at' = "external"
  /\ UNCHANGED <<method, acts, iob, sent, f, j, data, old, new, hits, size, failed, strayed>>

-----------------------------------------------------------------------------
(* The external filters, and what becomes of the result.                   *)

HasExternal == "TEXT" \in s.type /\ acts.external # <<>>

\* The input of the first external filter.
StartExternal ==
  /\ at = "external"
  /\ IF HasExternal
     THEN /\ content' = IF content = 0 THEN IOB ELSE content
          /\ size' = IF content = 0 THEN iob ELSE length
          /\ f' = 1 /\ at' = "run"
     ELSE at' = "compress" /\ UNCHANGED <<content, size, f>>
  /\ UNCHANGED <<s, method, acts, iob, heap, length, sent, j, data, old, new, hits, edits, failed, strayed>>

\* execute_external_filter(): a new buffer with the program's output, or NULL when
\* there is no temporary-directory, or a file or the program can't be opened.
RunExternal ==
  /\ at = "run" /\ f <= Len(acts.external)
  /\ \/ /\ acts.temporaryDirectory
        /\ \E n \in Sizes :
             LET out == [At(content) EXCEPT !.edits = Append(@, External(f)), !.size = n] IN
             /\ Free(With(heap, Fresh, out), {content} \ {IOB})
             /\ content' = Fresh
             /\ size' = out
             /\ edits' = Append(edits, External(f))
        /\ UNCHANGED failed
     \/ failed' = failed \cup {"external"} /\ UNCHANGED <<heap, strayed, content, size, edits>>
  /\ f' = f + 1
  /\ UNCHANGED <<at, s, method, acts, iob, length, sent, j, data, old, new, hits>>

EndExternal ==
  /\ at = "run" /\ f > Len(acts.external)
  /\ s' = Raised(s, "Modified")
  /\ length' = size
  /\ at' = "compress"
  /\ UNCHANGED <<method, acts, iob, heap, content, sent, pcrsVars, failed, strayed>>

\* The caller compresses a result worth it for a client that accepts that.
Compress ==
  /\ at = "compress"
  /\ \/ /\ content # 0 /\ "ClientDeflate" \in s.flags /\ length.size = 2
        /\ LET deflated == [At(content) EXCEPT !.ce = Append(@, "deflate"), !.size = 1] IN
           /\ Free(With(heap, Fresh, deflated), {content})
           /\ content' = Fresh
           /\ length' = deflated
           /\ s' = Raised(s, "Deflated")
     \/ UNCHANGED <<heap, strayed, content, length, s>>
  /\ at' = "send"
  /\ UNCHANGED <<method, acts, iob, sent, pcrsVars, failed>>

\* If content filtering fails, use the original buffer and length.
BodyLength == IF content = 0 THEN iob ELSE length
UpdateHead == s' = update_server_headers(s, method, Bytes(BodyLength)) /\ length' = BodyLength

\* A body that can't be written is freed all the same, and its connections closed.
Send ==
  /\ at = "send"
  /\ UpdateHead
  /\ sent' = At(IF content = 0 THEN IOB ELSE content)
  /\ Free(heap, {content})
  /\ content' = 0
  /\ at' = "done"
  /\ UNCHANGED <<method, acts, iob, pcrsVars, failed>>

\* The head can't be sent: chat() returns, and p is not freed.
SendFails ==
  /\ at = "send"
  /\ UpdateHead
  /\ at' = "gone"
  /\ UNCHANGED <<method, acts, iob, heap, content, sent, strayed, pcrsVars, failed>>

Next ==
  \/ EditHead \/ Prepared \/ ChunksBroken \/ DecompressionFails
  \/ Choose \/ RunJob \/ JobFails \/ NextFilter \/ EndFilters \/ Deanimate
  \/ StartExternal \/ RunExternal \/ EndExternal \/ Compress \/ Send \/ SendFails

Spec == Init /\ [][Next]_vars

-----------------------------------------------------------------------------
(* Properties of what the client gets.                                     *)

Done  == at = "done"
Told(name) == IF Has(s, name) THEN s.head[name] ELSE <<>>

\* The head of a response to HEAD is that of a body that was never seen; a chunked body
\* needs no length; the stray NUL is not counted in a Content-Length that was kept.
\* Whatever de-chunking, decompression, filters and compression did or failed to do, the
\* length told and the number of bytes written are those of the body that is sent.
LengthTold ==
  Done =>
    /\ length = Nothing \/ Bytes(length) = Bytes(sent)
    /\ \/ method = "HEAD" \/ ~Has(s, "Content-Length") \/ sent.nul
       \/ "chunked" \in ToSet(Told("Transfer-Encoding"))
       \/ s.head["Content-Length"] = Bytes(sent)

\* The codings the head tells are those of the body that is sent: none is announced that
\* was removed, none was left in or added without being announced.  (Users who force text
\* mode on what Privoxy can't decode, or remove the headers, are on their own.)  Of
\* a coding Privoxy does not know, only that one is told when the edited body was deflated.
CodingsTold(ces) ==
  Done /\ method # "HEAD" /\ ~IsEmpty(sent) /\ ~acts.forceText
       /\ acts.crunch \notin {"Content-Encoding", "Transfer-Encoding"} =>
    Told("Content-Encoding") \in ces /\ Told("Transfer-Encoding") = sent.te
CodingTold ==
  CodingsTold({sent.ce} \cup (IF sent.ce = <<"zstd", "deflate">> THEN {<<"zstd">>} ELSE {}))

\* serve() keeps the client connection only if the client can tell where the response
\* ends (unless the user removed the headers that tell).
Kept ==
  /\ "ClientKeepAlive" \in s.flags /\ "Tainted" \notin s.flags
  /\ {"ServerLength", "Chunked"} \cap s.flags # {}
KeptClientFindsEnd ==
  Done /\ Kept /\ acts.crunch \notin {"Content-Length", "Transfer-Encoding"} =>
    \/ method = "HEAD" \/ Has(s, "Content-Length")
    \/ "chunked" \in ToSet(Told("Transfer-Encoding")) \cap ToSet(sent.te)

\* All edits the filters made, and in their order, are in the body that is sent, unless
\* the very last job failed.
EditsSent == Done /\ "last job" \notin failed => sent.edits = edits

\* The client gets the edited body, under a head that describes it, whichever of the
\* steps failed.
HeadFitsBody == LengthTold /\ CodingTold /\ EditsSent

\* In the end every buffer was freed, and once, and nothing else was: unless the very
\* last job failed, or there was nothing but external filters and all of them failed.  A
\* client that is gone before the head costs the edited body, and nothing but that.
Ended  == at \in {"done", "gone"}
Leaked == IF at = "gone" THEN {content} \ {0} ELSE {}
MemoryBalanced ==
  Ended /\ "last job" \notin failed /\ ("external" \in failed => edits # <<>>) =>
    DOMAIN heap = Leaked /\ strayed = {}

\* What is freed was allocated.  (execute_content_filters(): "Returns: Pointer to the
\* modified buffer, or NULL if filtering failed or wasn't necessary.")
FreesOnlyBuffers == strayed = {}

\* No cookie that Privoxy was told to limit keeps a date beyond the limit, or one Privoxy
\* could not read, whatever other dates it has.
CookiesLimited ==
  Done /\ Has(s, "Set-Cookie") /\ (acts.limitCookies \/ acts.sessionCookies) =>
    /\ ToSet(s.head["Set-Cookie"]) \cap {"late", "unreadable"} = {}
    /\ acts.limitCookies => s.head["Set-Cookie"] # <<>>

\* The client is told every coding of the body, one Privoxy does not know among them.
\* (server_content_encoding(): "XXX: Doesn't properly deal with multiple or with unsupported
\* but unknown encodings.")
EveryCodingTold == CodingsTold({sent.ce})

\* A digest the client gets is that of the body it gets.  (server_content_md5(): "Crumble
\* any Content-MD5 headers if the document was modified.")
DigestTold == Done /\ Has(s, "Content-MD5") => s.head["Content-MD5"] = Bytes(sent)
=============================================================================
