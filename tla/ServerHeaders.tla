--------------------------- MODULE ServerHeaders ---------------------------
(***************************************************************************)
(* Editing the head of a response (parsers.c): sed() with server_patterns  *)
(* before the body is looked at, update_server_headers() after it may have *)
(* been filtered.                                                          *)
(*                                                                         *)
(* s is what both work on: s.head, the headers present with what they say; *)
(* s.type, the bits of csp->content_type; s.flags, those of csp->flags.    *)
(* a is the current action and the configuration.  What a length or digest *)
(* says is the body it was computed from; a coding header says a sequence  *)
(* of codings, in the order they were applied.                             *)
(***************************************************************************)
EXTENDS Head

\* content_filters_enabled()
FiltersEnabled(a) == a.deanimate \/ a.filters # <<>> \/ a.external # <<>>

-----------------------------------------------------------------------------
(* The handlers, in the order of server_patterns.                          *)

server_http(s, a) ==
  LET typed == When(s.status \in {101, 206}, [s EXCEPT !.type = {"TABOO"}], s)
  IN  Says(typed, "HTTP", IF a.downgrade THEN "1.0" ELSE s.head["HTTP"])

\* A cookie is the sequence of its expiry dates: over, within the limit, beyond it, or
\* unreadable.
Passing(limit) == IF limit THEN {"over", "soon"} ELSE {"over"}
FirstDate(dates, a) ==                                    \* mutant of server_set_cookie_dates
  LET rest == IF dates # <<>> /\ Head(dates) \notin Passing(a.limitCookies) THEN Tail(dates) ELSE dates
  IN  IF a.limitCookies /\ (dates = <<>> \/ rest # dates) THEN Append(rest, "limit") ELSE rest
server_set_cookie_dates(dates, a) ==
  LET rest       == Keep(dates, Passing(a.limitCookies))
      acceptable == dates # <<>> /\ Last(dates) \in Passing(a.limitCookies)
  IN  IF a.limitCookies /\ ~acceptable THEN Append(rest, "limit") ELSE rest

server_set_cookie(s, a) ==
  IF ~Has(s, "Set-Cookie") THEN s
  ELSE IF a.crunchCookies THEN Crunched(s, "Set-Cookie")
  ELSE When(a.sessionCookies \/ a.limitCookies,
            Says(s, "Set-Cookie", server_set_cookie_dates(s.head["Set-Cookie"], a)), s)

server_connection(s) ==
  LET alive == s.head["Connection"] = "keep-alive" /\ "Tainted" \notin s.flags
      kept  == When(alive, Raised(s, "ServerKeepAlive"), s)
      told  == When(alive /\ "ClientKeepAlive" \notin s.flags, Says(kept, "Connection", "close"), kept)
  IN  IF Has(s, "Connection") THEN Raised(told, "ConnectionSet") ELSE s

\* Several types may be declared: Privoxy goes by the first one.
server_content_type(s, a) ==
  LET types    == s.head["Content-Type"]
      typed    == [s EXCEPT !.type = @ \cup {"DECLARED"}
                     \cup (IF "TABOO" \in @ THEN {} ELSE {types[1]} \cap {"TEXT", "GIF"})]
      first    == IF a.overwriteType /\ ("TEXT" \in typed.type \/ a.forceText)
                  THEN "overwritten" ELSE types[1]
  IN  IF ~Has(s, "Content-Type") THEN s
      ELSE Says(typed, "Content-Type",
                IF FiltersEnabled(a) THEN <<first>> ELSE <<first>> \o Tail(types))

\* At this time nothing has been modified yet.
server_content_md5(s) == When("Modified" \in s.flags, Crunched(s, "Content-MD5"), s)

\* What the header's first known coding sets (built with zlib and brotli).
CodingBits == [gzip |-> {"GZIP"}, deflate |-> {"DEFLATE"}, br |-> {"BROTLI"},
               compress |-> {"TABOO"}, sdch |-> {"TABOO"}, zstd |-> {}]

server_content_encoding(s) ==
  When(Has(s, "Content-Encoding"),
       [s EXCEPT !.type = @ \cup CodingBits[Last(s.head["Content-Encoding"])]], s)

Readable(value) == value.te # <<"invalid">>
LengthSaved(s)  == [s EXCEPT !.flags = @ \cup {"ServerLength", "LengthKnown"}]
server_save_content_length(s) ==
  IF ~Has(s, "Content-Length") THEN s
  ELSE IF ~Readable(s.head["Content-Length"]) THEN Crunched(s, "Content-Length")
  ELSE LengthSaved(s)

server_keep_alive(s) ==
  When(Has(s, "Keep-Alive"), Raised(Crunched(s, "Keep-Alive"), "TimeoutSet"), s)

server_proxy_connection(s) ==
  When(Has(s, "Proxy-Connection"), Raised(s, "ProxyConnectionSet"), s)

ChunkedHeaderStays(s) ==                                  \* mutant of server_transfer_coding
  LET te == s.head["Transfer-Encoding"] IN
  IF ~Has(s, "Transfer-Encoding") THEN s
  ELSE When("chunked" \in ToSet(te), Raised(s, "Chunked"), When("gzip" \in ToSet(te), [s EXCEPT !.type = {"TABOO"}], s))

\* Also called by update_server_headers(): a body that was modified is no longer
\* chunked.  "FIXME: ... only the 'chunked' part should be removed here."
server_transfer_coding(s) ==
  LET te    == s.head["Transfer-Encoding"]
      typed == When("gzip" \in ToSet(te), [s EXCEPT !.type = {"TABOO"}], s)
  IN  IF ~Has(s, "Transfer-Encoding") THEN s
      ELSE IF "chunked" \notin ToSet(te) THEN typed
      ELSE When("Modified" \in s.flags, Crunched(Raised(typed, "Chunked"), "Transfer-Encoding"),
                Raised(typed, "Chunked"))

Hidden(s, name, how) ==
  IF ~Has(s, name) THEN s
  ELSE CASE how = "keep"    -> s
         [] how = "block"   -> Crunched(s, name)
         [] how = "replace" -> Says(s, name, "replaced")
server_content_disposition(s, a) == Hidden(s, "Content-Disposition", a.disposition)
server_last_modified(s, a)       == Hidden(s, "Last-Modified", a.lastModified)

proxy_authentication(s, a) ==
  When(a.forwardAuthentication, s, Crunched(s, "Proxy-Authenticate"))

crunch_server_header(s, a) == When(a.crunch = "", s, Crunched(s, a.crunch))

Edited(s, a) ==
  LET early  == server_content_type(server_connection(server_set_cookie(server_http(s, a), a)), a)
      length == server_save_content_length(server_content_encoding(server_content_md5(early)))
      coding == server_transfer_coding(server_proxy_connection(server_keep_alive(length)))
      late   == server_last_modified(server_content_disposition(coding, a), a)
  IN  crunch_server_header(proxy_authentication(late, a), a)

-----------------------------------------------------------------------------
(* sed()                                                                   *)

LengthIgnoredWhenChunked(s) ==
  When({"ServerLength", "Chunked"} \subseteq s.flags, [s EXCEPT !.flags = @ \ {"LengthKnown"}], s)

server_connection_adder(s) ==
  IF "ConnectionSet" \in s.flags THEN s
  ELSE When(s.head["HTTP"] = "1.1" /\ "Tainted" \notin s.flags, Raised(s, "ServerKeepAlive"),
            Says(s, "Connection", "close"))

server_proxy_connection_adder(s) ==
  When(/\ "ClientKeepAlive" \in s.flags /\ "Tainted" \notin s.flags
       /\ "ProxyConnectionSet" \notin s.flags
       /\ {"ServerLength", "Chunked"} \cap s.flags # {},
       Says(s, "Proxy-Connection", "keep-alive"), s)

sed(s, a) == server_proxy_connection_adder(server_connection_adder(
               LengthIgnoredWhenChunked(Edited(s, a))))

\* content_requires_filtering(): sets the text bit of what may be taken for text.
ForcedType(s, a) ==
  IF "TABOO" \in s.type /\ ~a.forceText THEN s
  ELSE When(a.forceText \/ "DECLARED" \notin s.type, [s EXCEPT !.type = @ \cup {"TEXT"}], s)

content_requires_filtering(s, a) ==
  /\ "TABOO" \in s.type => a.forceText
  /\ \/ "TEXT" \in ForcedType(s, a).type /\ (a.filters # <<>> \/ a.external # <<>>)
     \/ "GIF" \in s.type /\ a.deanimate

-----------------------------------------------------------------------------
(* update_server_headers(); len is csp->content_length.                    *)

Compressed == {"GZIP", "DEFLATE", "BROTLI"}

AdjustMissing(s, len) == s                                \* mutant of server_adjust_content_length
server_adjust_content_length(s, len) ==
  When("Modified" \in s.flags /\ Has(s, "Content-Length"), Says(s, "Content-Length", len), s)

CrunchedAnyway(s) == Crunched(s, "Content-Encoding")      \* mutant of server_adjust_content_encoding
server_adjust_content_encoding(s) ==
  When("Modified" \in s.flags /\ s.type \cap Compressed # {}, Crunched(s, "Content-Encoding"), s)

NoLengthAdded(s, len) == s                                \* mutant of length_adder
length_adder(s, len) ==
  When(/\ {"Modified", "ClientKeepAlive"} \subseteq s.flags /\ "ServerLength" \notin s.flags,
       Raised(Says(s, "Content-Length", len), "ServerLength"), s)

update_server_headers(s, method, len) ==
  LET adjusted == IF method = "HEAD" THEN s
                  ELSE server_adjust_content_encoding(
                         server_transfer_coding(server_adjust_content_length(s, len)))
      sized    == length_adder(adjusted, len)
  IN  When("Deflated" \in s.flags /\ ~Has(sized, "Content-Encoding"),
           Says(sized, "Content-Encoding", <<"deflate">>), sized)
=============================================================================
