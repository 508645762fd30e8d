---------------------------- MODULE RequestProofs ----------------------------
(***************************************************************************)
(* Proofs about Request: whatever the files and the requests are, and      *)
(* whatever filters and taggers make of them, what is sent was not         *)
(* blocked, is not for a page of Privoxy itself, and goes where the client *)
(* asked for, unless a filter rewrote the request line; it takes the       *)
(* forwarder that the last directive for its destination names; and the    *)
(* actions in force are those that the files' lines ask for.               *)
(*                                                                         *)
(* The last is proved at the end.  The algebra of actions says that a line *)
(* is compiled into a specification that does to whatever is in force what *)
(* its words do one after the other (the theorems about one line);  lines, *)
(* aliases, files and the list of files follow by induction.               *)
(***************************************************************************)
EXTENDS Request, FiniteSetTheorems, NaturalsInduction, WellFoundedInduction, TLAPS

-----------------------------------------------------------------------------
(* The inductive invariant.                                                *)

CspFields  == {"config", "trust", "files", "appended", "conn", "head", "https", "http", "action", "tags",
               "clientTags", "clientAddress", "expected", "body", "failed", "flags", "keepAliveTimeout",
               "tunnel", "dontVerify", "rewritten"}
HttpFields == {"ok", "ssl", "client_ssl", "server_ssl", "host", "port", "path", "method", "version",
               "url", "cmd", "hostport"}
ConnFields == {"open", "tls", "host", "port", "fwd"}

\* Steps that change a field of csp leave the others.
IsHttp(http) == DOMAIN http = HttpFields /\ http.client_ssl \in BOOLEAN
IsConn(conn) == DOMAIN conn = ConnFields /\ conn.tls \in BOOLEAN
Shaped(c) == DOMAIN c = CspFields /\ IsHttp(c.http) /\ IsConn(c.conn)

\* Where the request r of a client wants to go to.
InHost(r, inner) == inner \/ r.line.url.scheme \in {"path", "*"}
Named(r, inner)  == IF InHost(r, inner) THEN r.head["Host"] ELSE r.line.url
PortWithout(r, inner) ==
  IF inner \/ (r.line.method = "CONNECT" /\ ~InHost(r, inner)) THEN 443 ELSE 80
AsAsked(http, r, inner) ==
  /\ http.host = Named(r, inner).host
  /\ http.port = IF Named(r, inner).port # 0 THEN Named(r, inner).port ELSE PortWithout(r, inner)

\* client_host() has nothing to say about the destination.
Settled(http, head) == "Host" \in DOMAIN head /\ http.host = <<>> => head["Host"].host = <<>>

\* The crunchers had no objection.
Passed(c) == /\ Heeded(c) => ~On(c, "block")
             /\ ForAnotherSite(c)
             /\ Inspects(c) => c.http.client_ssl

Connecting == {"ask-parent", "server-handshake", "send"}
Approved   == {"body", "body-again", "forward", "continue", "sent"} \cup Connecting

ToItsHost(c) == c.conn.host = c.http.host /\ c.conn.port = c.http.port

IInv ==
  /\ Shaped(csp)
  /\ csp.conn.tls => csp.http.client_ssl
  /\ at \in {"starting", "idle", "received", "parsed"} => ~csp.http.client_ssl
  /\ at \in {"ask-parent", "server-handshake"} => csp.http.client_ssl
  /\ at \in {"idle", "received"} => ~csp.rewritten
  /\ at = "received" => Settled(csp.http, csp.head)
  /\ at \in {"received", "parsed"} \cup Approved /\ ~csp.rewritten => AsAsked(csp.http, asked, csp.http.client_ssl)
  /\ at \in Approved => Passed(csp)
  /\ at \in Connecting => ToItsHost(csp)
  /\ at = "sent" => /\ wire.host = csp.http.host /\ wire.port = csp.http.port
                    /\ wire.tls => csp.http.client_ssl

-----------------------------------------------------------------------------
(* Request lines.                                                          *)

\* http, made of a URL: without a host it has none, otherwise the URL's port or the usual one.
Tls(method, url) == method = "CONNECT" \/ url.scheme = "https"
Heads(http, method, url) ==
  /\ http.ssl = Tls(method, url)
  /\ IF url.scheme \in {"path", "*"} THEN http.host = NoHost
     ELSE /\ http.host = url.host /\ http.host # NoHost
          /\ http.port = IF url.port # 0 THEN url.port ELSE IF Tls(method, url) THEN 443 ELSE 80

UrlOf(method, url) == parse_http_url(url, method = "CONNECT", ~(method = "CONNECT"))

LEMMA UrlParsed ==
  ASSUME NEW url, NEW method, UrlOf(method, url).ok
  PROVE  Heads(UrlOf(method, url), method, url)
<1> DEFINE http(h, n, p) == [ok |-> TRUE, ssl |-> Tls(method, url), host |-> h, port |-> n, path |-> p]
<1>1. CASE url.scheme = "*"
  <2>1. UrlOf(method, url) = http(NoHost, 0, "*")
    BY <1>1 DEF UrlOf, parse_http_url, Tls
  <2> QED
    BY <1>1, <2>1 DEF Heads
<1>2. CASE url.scheme = "path"
  <2>1. UrlOf(method, url) = http(NoHost, 0, PathOf(url))
    BY <1>2 DEF UrlOf, parse_http_url, Tls
  <2> QED
    BY <1>2, <2>1 DEF Heads
<1>3. CASE url.scheme \notin {"path", "*"}
  <2>1. /\ ~(url.scheme = "none" /\ ~(method = "CONNECT"))
        /\ ~(url.port = -1 \/ url.port > 65535 \/ url.host = NoHost)
    BY <1>3 DEF UrlOf, parse_http_url, NotParsed
  <2> QED
    BY <1>3, <2>1 DEF UrlOf, parse_http_url, Tls, Heads
<1> QED
  BY <1>1, <1>2, <1>3

\* parse_http_request()
LEMMA RequestParsed ==
  ASSUME NEW l, parse_http_request(l).ok
  PROVE  /\ IsHttp(parse_http_request(l)) /\ ~parse_http_request(l).client_ssl
         /\ parse_http_request(l).method = l.method
         /\ Heads(parse_http_request(l), l.method, l.url)
<1> DEFINE http == UrlOf(l.method, l.url)
<1>1. /\ http.ok
      /\ parse_http_request(l) = [ok |-> TRUE, ssl |-> http.ssl, client_ssl |-> FALSE, server_ssl |-> FALSE,
                                  host |-> http.host, port |-> http.port, path |-> http.path,
                                  method |-> l.method, version |-> l.version, url |-> l.url, cmd |-> l,
                                  hostport |-> [host |-> http.host, port |-> IF http.host = NoHost THEN 0 ELSE l.url.port]]
  BY DEF parse_http_request, NotParsed, UrlOf
<1>2. Heads(http, l.method, l.url)
  BY <1>1, UrlParsed
<1> HIDE DEF http
<1>3. IsHttp(parse_http_request(l)) /\ ~parse_http_request(l).client_ssl
  BY <1>1 DEF IsHttp, HttpFields
<1>4. /\ parse_http_request(l).ssl = http.ssl /\ parse_http_request(l).host = http.host
      /\ parse_http_request(l).port = http.port /\ parse_http_request(l).method = l.method
  BY <1>1
<1> QED
  BY <1>2, <1>3, <1>4 DEF Heads

\* The force prefix is all that is cut off.
LEMMA LineUnforced ==
  ASSUME NEW c, NEW r \in Requests \cup InnerRequests
  PROVE  LET line == Unforced(c, r.line)
         IN  /\ line.method = r.line.method /\ line.url.scheme = r.line.url.scheme
             /\ line.url.host = r.line.url.host /\ line.url.port = r.line.url.port
  BY RequestAssumption DEF Unforced

-----------------------------------------------------------------------------
(* What sed() leaves alone.                                                *)

\* t is s with another head and other notes.
Kept(s, t) == /\ Shaped(t)
              /\ t.http = s.http /\ t.conn = s.conn /\ t.rewritten = s.rewritten
              /\ t.config = s.config /\ t.files = s.files /\ t.body = s.body /\ t.tunnel = s.tunnel
\* The rules that are in force are the same.
Steady(s, t) == Kept(s, t) /\ t.action = s.action /\ t.tags = s.tags /\ t.https = s.https
\* Only the header of that name isn't what it was.
Edits(s, t, name) ==
  /\ Steady(s, t)
  /\ \A n : n # name => /\ n \in DOMAIN t.head <=> n \in DOMAIN s.head
                        /\ n \in DOMAIN t.head => t.head[n] = s.head[n]

LEMMA EditsTwice ==
  ASSUME NEW s, NEW t, NEW u, NEW name, Edits(s, t, name), Edits(t, u, name)
  PROVE  Edits(s, u, name)
  BY DEF Edits, Steady, Kept

LEMMA EditsShaped == ASSUME NEW s, NEW t, NEW name, Edits(s, t, name) PROVE Shaped(t)
  BY DEF Edits, Steady, Kept

\* The elementary edits.
LEMMA CrunchedEdits == ASSUME NEW s, Shaped(s), NEW name PROVE Edits(s, Crunched(s, name), name)
  BY DEF Edits, Steady, Kept, Shaped, Crunched, Restrict, CspFields
LEMMA SaysEdits == ASSUME NEW s, Shaped(s), NEW name, NEW v PROVE Edits(s, Says(s, name, v), name)
  BY DEF Edits, Steady, Kept, Shaped, Says, CspFields
LEMMA FlagEdits ==
  ASSUME NEW s, Shaped(s), NEW flag, NEW name
  PROVE  Edits(s, Raised(s, flag), name) /\ Edits(s, Lowered(s, flag), name)
  BY DEF Edits, Steady, Kept, Shaped, Raised, Lowered, CspFields
LEMMA NothingEdits == ASSUME NEW s, Shaped(s), NEW name PROVE Edits(s, s, name)
  BY DEF Edits, Steady, Kept
LEMMA ExpectedEdits ==
  ASSUME NEW s, Shaped(s), NEW n, NEW name
  PROVE  Edits(s, [s EXCEPT !.expected = n], name) /\ Edits(s, [s EXCEPT !.keepAliveTimeout = n], name)
  BY DEF Edits, Steady, Kept, Shaped, CspFields

\* The handlers of client_patterns but client_host().
LEMMA ParserEdits ==
  ASSUME NEW s, Shaped(s), NEW name, name # "Host"
  PROVE  Edits(s, parser(s, name), name)
<1>1. Edits(s, client_referrer(s), "Referer")
  <2>1. \/ client_referrer(s) = Cleaned(s) \/ client_referrer(s) = Crunched(s, "Referer")
        \/ client_referrer(s) = Forged(s, s.http.hostport)
        \/ client_referrer(s) = Forged(s, Called(Value(s, "hide-referrer")))
    BY DEF client_referrer
  <2> QED
    BY <2>1, CrunchedEdits, SaysEdits DEF Cleaned, Forged
<1>2. \A n, action : Edits(s, Replaced(s, n, action), n)
  BY CrunchedEdits, SaysEdits, NothingEdits DEF Replaced
<1>3. /\ Edits(s, client_uagent(s), "User-Agent") /\ Edits(s, client_ua(s), "UA-OS")
      /\ Edits(s, client_send_cookie(s), "Cookie")
  BY CrunchedEdits, SaysEdits, NothingEdits DEF client_uagent, client_ua, client_send_cookie, When
<1>4. /\ Edits(s, client_te(s), "TE") /\ Edits(s, client_if_none_match(s), "If-None-Match")
      /\ Edits(s, proxy_authentication(s), "Proxy-Authorization")
  BY CrunchedEdits, NothingEdits DEF client_te, client_if_none_match, proxy_authentication, When
<1>5. Edits(s, client_accept_encoding(s), "Accept-Encoding")
  <2> DEFINE noted == When(Enabled(s, "enable-compression"), Raised(s, "ClientSupportsDeflate"), s)
  <2>1. Edits(s, noted, "Accept-Encoding")
    BY FlagEdits, NothingEdits DEF When
  <2> HIDE DEF noted
  <2>2. Edits(noted, Crunched(noted, "Accept-Encoding"), "Accept-Encoding")
    BY <2>1, EditsShaped, CrunchedEdits
  <2>3. client_accept_encoding(s) = When(On(s, "prevent-compression"), Crunched(noted, "Accept-Encoding"), noted)
    BY DEF client_accept_encoding, noted
  <2> QED
    BY <2>1, <2>2, <2>3, EditsTwice DEF When
<1>6. Edits(s, client_x_forwarded(s), "X-Forwarded-For")
  <2> DEFINE added == Says(s, "X-Forwarded-For", Append(s.head["X-Forwarded-For"], Client))
  <2>1. Edits(s, added, "X-Forwarded-For")
    BY SaysEdits
  <2> HIDE DEF added
  <2>2. Edits(added, Raised(added, "XForwardedForAppended"), "X-Forwarded-For")
    BY <2>1, EditsShaped, FlagEdits
  <2>3. \/ client_x_forwarded(s) = s \/ client_x_forwarded(s) = Crunched(s, "X-Forwarded-For")
        \/ client_x_forwarded(s) = Raised(added, "XForwardedForAppended")
    BY DEF client_x_forwarded, added
  <2> QED
    BY <2>1, <2>2, <2>3, EditsTwice, NothingEdits, CrunchedEdits
<1>7. Edits(s, client_if_modified_since(s), "If-Modified-Since")
  <2>1. \/ client_if_modified_since(s) = s \/ client_if_modified_since(s) = Crunched(s, "If-Modified-Since")
        \/ client_if_modified_since(s) = Says(s, "If-Modified-Since", "random")
    BY DEF client_if_modified_since
  <2> QED
    BY <2>1, NothingEdits, CrunchedEdits, SaysEdits
<1>8. Edits(s, client_save_content_length(s), "Content-Length") /\ Edits(s, client_keep_alive(s), "Keep-Alive")
  <2>1. \/ client_save_content_length(s) = Crunched(s, "Content-Length")
        \/ client_save_content_length(s) = [s EXCEPT !.expected = s.head["Content-Length"]]
    BY DEF client_save_content_length
  <2>2. \/ client_keep_alive(s) = Crunched(s, "Keep-Alive")
        \/ client_keep_alive(s) = [s EXCEPT !.keepAliveTimeout = s.head["Keep-Alive"]]
    BY DEF client_keep_alive
  <2>3. Edits(s, Crunched(s, "Content-Length"), "Content-Length") /\ Edits(s, Crunched(s, "Keep-Alive"), "Keep-Alive")
    BY CrunchedEdits
  <2>4. /\ Edits(s, [s EXCEPT !.expected = s.head["Content-Length"]], "Content-Length")
        /\ Edits(s, [s EXCEPT !.keepAliveTimeout = s.head["Keep-Alive"]], "Keep-Alive")
    BY ExpectedEdits
  <2> QED
    BY <2>1, <2>2, <2>3, <2>4
<1>9. Edits(s, client_proxy_connection(s), "Proxy-Connection") /\ Edits(s, client_x_filter(s), "X-Filter")
  <2>1. \/ client_proxy_connection(s) = Crunched(s, "Proxy-Connection")
        \/ client_proxy_connection(s) = Crunched(Raised(s, "ClientKeepAlive"), "Proxy-Connection")
    BY DEF client_proxy_connection, When
  <2>2. \/ client_x_filter(s) = s \/ client_x_filter(s) = Crunched(s, "X-Filter")
        \/ client_x_filter(s) = Crunched(Raised(s, "NoFiltering"), "X-Filter")
    BY DEF client_x_filter, When
  <2>3. \A flag, n : Edits(s, Crunched(Raised(s, flag), n), n)
    <3> TAKE flag, n
    <3>1. Edits(s, Raised(s, flag), n)
      BY FlagEdits
    <3>2. Edits(Raised(s, flag), Crunched(Raised(s, flag), n), n)
      BY <3>1, EditsShaped, CrunchedEdits
    <3> QED
      BY <3>1, <3>2, EditsTwice
  <2> QED
    BY <2>1, <2>2, <2>3, NothingEdits, CrunchedEdits
<1>10. Edits(s, client_connection(s), "Connection")
  <2> DEFINE clear == Crunched(s, "Connection")
  <2>1. Edits(s, clear, "Connection")
    BY CrunchedEdits
  <2> HIDE DEF clear
  <2>2. Edits(clear, Lowered(clear, "ClientKeepAlive"), "Connection")
    BY <2>1, EditsShaped, FlagEdits
  <2>3. Edits(s, Lowered(clear, "ClientKeepAlive"), "Connection")
    BY <2>1, <2>2, EditsTwice
  <2>4. \E t : Edits(s, t, "Connection") /\ client_connection(s) = Raised(t, "ConnectionHeaderSet")
    <3>1. \A flag : Edits(s, Raised(s, flag), "Connection") /\ Edits(s, Lowered(s, flag), "Connection")
      BY FlagEdits
    <3>2. \A v : Edits(s, Says(s, "Connection", v), "Connection")
      BY SaysEdits
    <3> QED
      BY <2>3, <3>1, <3>2 DEF client_connection, clear
  <2>5. PICK t : Edits(s, t, "Connection") /\ client_connection(s) = Raised(t, "ConnectionHeaderSet")
    BY <2>4
  <2>6. Edits(t, Raised(t, "ConnectionHeaderSet"), "Connection")
    BY <2>5, EditsShaped, FlagEdits
  <2> QED
    BY <2>5, <2>6, EditsTwice
<1>11. Edits(s, client_max_forwards(s), "Max-Forwards")
  <2>1. \/ client_max_forwards(s) = s \/ client_max_forwards(s) = Crunched(s, "Max-Forwards")
        \/ \E n : client_max_forwards(s) = Says(s, "Max-Forwards", n)
    BY DEF client_max_forwards
  <2> QED
    BY <2>1, NothingEdits, CrunchedEdits, SaysEdits
<1>12. Edits(s, client_expect(s), "Expect") /\ Edits(s, client_range(s, name), name)
  BY FlagEdits, CrunchedEdits, NothingEdits DEF client_expect, client_range, When
<1> QED
  BY <1>1, <1>2, <1>3, <1>4, <1>5, <1>6, <1>7, <1>8, <1>9, <1>10, <1>11, <1>12 DEF parser

\* A request without a destination has no host in its header either.
LEMMA HostEdits ==
  ASSUME NEW s, Shaped(s), "Host" \in DOMAIN s.head, Settled(s.http, s.head)
  PROVE  /\ Edits(s, client_host(s), "Host")
         /\ "Host" \in DOMAIN client_host(s).head => client_host(s).head["Host"] = s.head["Host"]
<1>1. CASE s.head["Host"].host = <<>>
  <2>1. client_host(s) = Crunched(s, "Host") /\ "Host" \notin DOMAIN Crunched(s, "Host").head
    BY <1>1 DEF client_host, Crunched, Restrict, Shaped, CspFields
  <2> QED
    BY <2>1, CrunchedEdits
<1>2. CASE s.head["Host"].host # <<>>
  <2>1. s.http.host # <<>>
    BY <1>2 DEF Settled
  <2>2. client_host(s) = Raised(s, "HostHeaderSet")
    BY <1>2, <2>1 DEF client_host, When
  <2> QED
    BY <2>2, FlagEdits DEF Raised, Shaped, CspFields
<1> QED
  BY <1>1, <1>2

\* The loop over client_patterns.
LEMMA Smaller == \A i, k \in Nat : <<k, i>> \in OpToRel(<, Nat) <=> k < i
  BY DEF OpToRel

LEMMA LeastElement ==
  ASSUME NEW S, S \subseteq Nat, S # {}
  PROVE  \E i \in S : \A k \in S : i <= k
<1>1. PICK i \in S : \A k \in S : ~ (<<k, i>> \in OpToRel(<, Nat))
  BY NatLessThanWellFounded, WFMin
<1>2. \A k \in S : ~ (k < i)
  BY <1>1, Smaller
<1> QED
  BY <1>2

LEMMA ParsedEdits ==
  ASSUME NEW s, Shaped(s), Settled(s.http, s.head), NEW name
  PROVE  Edits(s, Parsed(s, name), name) /\ Settled(Parsed(s, name).http, Parsed(s, name).head)
<1> DEFINE t == Parsed(s, name)
<1>1. Edits(s, t, name) /\ ("Host" \in DOMAIN t.head => "Host" \in DOMAIN s.head /\ t.head["Host"] = s.head["Host"])
  <2>1. CASE name = "Host" /\ Has(s, name)
    <3>1. parser(s, name) = client_host(s)
      BY <2>1 DEF parser
    <3> QED
      BY <2>1, <3>1, HostEdits DEF Parsed, When, Has
  <2>2. CASE name # "Host" \/ ~Has(s, name)
    BY <2>2, ParserEdits, NothingEdits DEF Parsed, When, Edits, Has
  <2> QED
    BY <2>1, <2>2
<1> HIDE DEF t
<1> QED
  BY <1>1 DEF Edits, Steady, Kept, Settled, t

\* What the handlers of two headers decide.
Referable(head)  == "Referer" \in DOMAIN head => {"scheme", "host", "port"} \subseteq DOMAIN head["Referer"]
ReferrerDone(s) ==
  /\ On(s, "hide-referrer") /\ Has(s, "Referer")
  /\ Value(s, "hide-referrer") \in {"conditional-block", "conditional-forge"}
  => Alike(s.head["Referer"], s.http.hostport)
CookieDone(s) == On(s, "crunch-outgoing-cookies") => ~Has(s, "Cookie")

LEMMA ReferrerDecided ==
  ASSUME NEW s, Shaped(s), Referable(s.head)
  PROVE  ReferrerDone(Parsed(s, "Referer"))
<1> DEFINE mode == Value(s, "hide-referrer")
           t == Parsed(s, "Referer")
<1>1. Edits(s, t, "Referer")
  BY ParserEdits, NothingEdits DEF Parsed, When
<1>2. SUFFICES ASSUME On(s, "hide-referrer"), Has(s, "Referer"), mode \in {"conditional-block", "conditional-forge"},
                      Has(t, "Referer")
               PROVE  Alike(t.head["Referer"], s.http.hostport)
  BY <1>1 DEF ReferrerDone, Edits, Steady, Kept, On, Value, Has, Parsed, When
<1>3. t = client_referrer(s)
  BY <1>2 DEF Parsed, When, parser
<1>4. Crunched(s, "Referer").head = Restrict(s.head, DOMAIN s.head \ {"Referer"})
  BY DEF Crunched, Shaped, CspFields
<1>5. ~Has(Crunched(s, "Referer"), "Referer")
  BY <1>4 DEF Has, Restrict
<1>6. \A v : Says(s, "Referer", v).head["Referer"] = v
  BY DEF Says, Shaped, CspFields
<1>7. Alike(Forged(s, s.http.hostport).head["Referer"], s.http.hostport)
  BY <1>6 DEF Forged, Referrer, Alike
<1>8. ASSUME Mentions(s.head["Referer"], s.http.hostport)
      PROVE  Alike(Cleaned(s).head["Referer"], s.http.hostport)
  <2> DEFINE r == s.head["Referer"]
             cleaned == Cleaned(s).head["Referer"]
             name == HostText(s.http.hostport)
  <2>1. cleaned = [r EXCEPT !.forced = FALSE]
    BY <1>6 DEF Cleaned
  <2>2. cleaned.scheme = r.scheme /\ HostText(cleaned) = HostText(r)
    BY <1>2, <2>1 DEF Referable, Has, HostText
  <2> HIDE DEF r, cleaned, name
  <2>3. \/ \E i \in {0, 1} : Stands(name, HostText(r), i)
        \/ \E i \in 0..4 : Stands(name, Protocol(r.scheme), i)
    BY <1>8 DEF Mentions, r, name
  <2> QED
    BY <2>2, <2>3 DEF Alike, cleaned, name
<1>9. CASE Mentions(s.head["Referer"], s.http.hostport)
  <2>1. client_referrer(s) = Cleaned(s)
    BY <1>2, <1>9 DEF client_referrer, Elsewhere
  <2> QED
    BY <1>3, <1>8, <1>9, <2>1
<1>10. CASE ~Mentions(s.head["Referer"], s.http.hostport)
  <2>1. client_referrer(s) = Crunched(s, "Referer") \/ client_referrer(s) = Forged(s, s.http.hostport)
    BY <1>2, <1>10 DEF client_referrer, Elsewhere
  <2> QED
    BY <1>2, <1>3, <1>5, <1>7, <2>1
<1> QED
  BY <1>9, <1>10

LEMMA CookieDecided == ASSUME NEW s, Shaped(s) PROVE CookieDone(Parsed(s, "Cookie"))
<1> DEFINE t == Parsed(s, "Cookie")
<1>1. Edits(s, t, "Cookie")
  BY ParserEdits, NothingEdits DEF Parsed, When
<1>2. SUFFICES ASSUME On(s, "crunch-outgoing-cookies"), Has(s, "Cookie")
               PROVE  ~Has(t, "Cookie")
  BY <1>1 DEF CookieDone, Edits, Steady, Kept, On, Has, Parsed, When
<1>3. t = Crunched(s, "Cookie")
  BY <1>2 DEF Parsed, When, parser, client_send_cookie
<1>4. Crunched(s, "Cookie").head = Restrict(s.head, DOMAIN s.head \ {"Cookie"})
  BY DEF Crunched, Shaped, CspFields
<1> QED
  BY <1>3, <1>4 DEF Has, Restrict

LEMMA DecidedStays ==
  ASSUME NEW s, NEW t, NEW name, Edits(s, t, name)
  PROVE  /\ name # "Referer" /\ ReferrerDone(s) => ReferrerDone(t)
         /\ name # "Cookie" /\ CookieDone(s) => CookieDone(t)
  BY DEF Edits, Steady, Kept, ReferrerDone, CookieDone, On, Value, Has

LEMMA HandledEdits ==
  ASSUME NEW c, Shaped(c), Settled(c.http, c.head)
  PROVE  /\ Steady(c, Handled(c)) /\ Settled(Handled(c).http, Handled(c).head)
         /\ Referable(c.head) => ReferrerDone(Handled(c)) /\ CookieDone(Handled(c))
<1> DEFINE n == Len(client_patterns)
           Step(g, i) == IF i = 0 THEN c ELSE Parsed(g[i - 1], client_patterns[i])
           IsAfter(g, k) == g = [i \in 0..k |-> Step(g, i)]
<1>1. /\ n \in Nat /\ n >= 5 /\ client_patterns[1] = "Referer" /\ client_patterns[5] = "Cookie"
      /\ \A i \in 1..n : (i > 1 => client_patterns[i] # "Referer") /\ (i > 5 => client_patterns[i] # "Cookie")
  BY DEF client_patterns
<1> HIDE DEF n
<1>2. \E g : IsAfter(g, n)
  <2> DEFINE bad == {k \in Nat : ~ \E g : IsAfter(g, k)}
  <2>1. SUFFICES ASSUME bad # {} PROVE FALSE
    BY <1>1
  <2>2. PICK k \in bad : \A i \in bad : k <= i
    BY <2>1, LeastElement
  <2>3. CASE k = 0
    <3> DEFINE g == [i \in 0..0 |-> c]
    <3>1. IsAfter(g, 0)
      OBVIOUS
    <3> QED
      BY <2>2, <2>3, <3>1
  <2>4. CASE k # 0
    <3>1. k \in Nat /\ k - 1 \in Nat /\ ~(k <= k - 1)
      BY <2>2, <2>4
    <3>2. PICK g : IsAfter(g, k - 1)
      BY <2>2, <3>1
    <3> DEFINE h == [i \in 0..k |-> IF i < k THEN g[i] ELSE Step(g, k)]
    <3>3. DOMAIN g = 0..(k - 1) /\ \A i \in 0..(k - 1) : g[i] = Step(g, i)
      BY <3>2
    <3>4. ASSUME NEW i \in 0..k
          PROVE  h[i] = Step(h, i)
      <4>1. CASE i = 0
        BY <4>1, <3>1, <3>3, <2>4
      <4>2. CASE i # 0 /\ i < k
        <5>1. i - 1 \in 0..k /\ i - 1 < k /\ i \in 0..(k - 1)
          BY <4>2, <3>1
        <5>2. h[i - 1] = g[i - 1] /\ h[i] = g[i]
          BY <4>2, <5>1
        <5> QED
          BY <3>3, <4>2, <5>1, <5>2
      <4>3. CASE i = k
        <5>1. h[k - 1] = g[k - 1]
          BY <3>1
        <5> QED
          BY <4>3, <5>1, <2>4, <3>1
      <4> QED
        BY <4>1, <4>2, <4>3, <3>1
    <3>5. IsAfter(h, k)
      <4> DEFINE hh == [i \in 0..k |-> Step(h, i)]
      <4>1. \A i \in 0..k : h[i] = hh[i]
        BY <3>4
      <4>2. h = hh
        BY <4>1
      <4> QED
        BY <4>2
    <3> QED
      BY <2>2, <3>5
  <2> QED
    BY <2>3, <2>4
<1> DEFINE After[i \in 0..n] == IF i = 0 THEN c ELSE Parsed(After[i - 1], client_patterns[i])
<1>3. Handled(c) = After[n]
  BY DEF Handled, n
<1>4. IsAfter(After, n)
  BY <1>2
<1> HIDE DEF After
<1>5. \A i \in 0..n : After[i] = Step(After, i)
  BY <1>4
<1> HIDE DEF IsAfter
<1> DEFINE Good(i) == /\ Steady(c, After[i]) /\ Settled(After[i].http, After[i].head)
                      /\ i = 0 => After[i] = c
                      /\ Referable(c.head) => (i >= 1 => ReferrerDone(After[i])) /\ (i >= 5 => CookieDone(After[i]))
<1>6. \A i \in 0..n : Good(i)
  <2> DEFINE bad == {i \in 0..n : ~Good(i)}
  <2>1. SUFFICES ASSUME bad # {} PROVE FALSE
    OBVIOUS
  <2>2. bad \subseteq Nat
    BY <1>1
  <2>3. \E i \in bad : \A k \in bad : i <= k
    <3> HIDE DEF bad
    <3> QED
      BY <2>1, <2>2, LeastElement
  <2>4. PICK i \in bad : \A k \in bad : i <= k
    BY <2>3
  <2>5. CASE i = 0
    <3>1. After[0] = c
      BY <1>1, <1>5
    <3>2. Good(0)
      BY <3>1 DEF Steady, Kept
    <3> QED
      BY <2>4, <2>5, <3>2
  <2>6. CASE i # 0
    <3>1. i - 1 \in 0..n /\ ~(i <= i - 1)
      BY <2>4, <2>6, <1>1
    <3>2. Good(i - 1)
      BY <2>4, <3>1
    <3> DEFINE s == After[i - 1]
               t == Parsed(s, client_patterns[i])
    <3>3. After[i] = t
      BY <2>4, <2>6, <1>5
    <3>4. Shaped(s) /\ Settled(s.http, s.head)
      BY <3>2 DEF Steady, Kept
    <3> HIDE DEF s
    <3>5. Edits(s, t, client_patterns[i]) /\ Settled(t.http, t.head)
      BY <3>4, ParsedEdits
    <3>6. ASSUME Referable(c.head)
          PROVE  (i >= 1 => ReferrerDone(t)) /\ (i >= 5 => CookieDone(t))
      <4>1. CASE i = 1
        <5>1. s = c /\ client_patterns[i] = "Referer"
          BY <1>1, <3>2, <4>1 DEF s
        <5> QED
          BY <3>4, <3>6, <4>1, <5>1, ReferrerDecided
      <4>2. CASE i > 1
        <5>1. ReferrerDone(s) /\ (i >= 6 => CookieDone(s))
          BY <3>1, <3>2, <3>6, <4>2, <1>1 DEF s
        <5>2. client_patterns[i] # "Referer" /\ (i >= 6 => client_patterns[i] # "Cookie")
          BY <1>1, <2>4, <4>2
        <5>3. i = 5 => CookieDone(t)
          BY <1>1, <3>4, CookieDecided
        <5> QED
          BY <2>4, <3>5, <5>1, <5>2, <5>3, <1>1, DecidedStays
      <4> QED
        BY <4>1, <4>2, <2>4, <2>6, <1>1
    <3> HIDE DEF t
    <3>7. Steady(c, s)
      BY <3>2 DEF s
    <3>8. Steady(c, t)
      BY <3>5, <3>7 DEF Edits, Steady, Kept
    <3>9. Good(i)
      BY <2>6, <3>3, <3>5, <3>6, <3>8
    <3> QED
      BY <2>4, <3>9
  <2> QED
    BY <2>5, <2>6
<1> QED
  BY <1>1, <1>3, <1>6

-----------------------------------------------------------------------------
(* sed() and what goes with it.                                            *)

LEMMA KeptTwice ==
  ASSUME NEW s, NEW t, NEW u, Kept(s, t), Kept(t, u)
  PROVE  Kept(s, u)
  BY DEF Kept

\* Only the rules that are in force are others.
Rerated(s, t) == Kept(s, t) /\ t.head = s.head /\ t.https = s.https

LEMMA HeadSteady ==
  ASSUME NEW s, Shaped(s), NEW h
  PROVE  Steady(s, [s EXCEPT !.head = h]) /\ [s EXCEPT !.head = h].head = h
  BY DEF Steady, Kept, Shaped, CspFields
LEMMA ActionRerated == ASSUME NEW s, Shaped(s), NEW a PROVE Rerated(s, [s EXCEPT !.action = a])
  BY DEF Rerated, Kept, Shaped, CspFields
LEMMA RatesRerated ==
  ASSUME NEW s, Shaped(s), NEW r
  PROVE  Rerated(s, Rates(s, r)) /\ Rates(s, r).action = r.action /\ Rates(s, r).tags = r.tags
  BY DEF Rerated, Kept, Shaped, CspFields, Rates

\* What was decided stays so: the two headers that may be added by name aside, they are
\* not what they weren't.
Trims(s, t) ==
  /\ Steady(s, t)
  /\ s.action.multi["client-header-filter"] = {} =>
       \A n \in {"Referer", "Cookie"} \ s.action.multi["add-header"] :
         n \in DOMAIN t.head => n \in DOMAIN s.head /\ t.head[n] = s.head[n]

LEMMA TrimsTwice == ASSUME NEW s, NEW t, NEW u, Trims(s, t), Trims(t, u) PROVE Trims(s, u)
<1>1. t.action = s.action
  BY DEF Trims, Steady
<1>2. Steady(s, u)
  BY DEF Trims, Steady, Kept
<1> QED
  BY <1>1, <1>2 DEF Trims

LEMMA EditsTrims ==
  ASSUME NEW s, NEW t, NEW name, Edits(s, t, name), name \notin {"Referer", "Cookie"}
  PROVE  Trims(s, t)
  BY DEF Edits, Trims

LEMMA NothingTrims == ASSUME NEW s, Shaped(s) PROVE Trims(s, s)
  BY DEF Trims, Steady, Kept

LEMMA CrunchedTrims == ASSUME NEW s, Shaped(s), NEW name PROVE Trims(s, Crunched(s, name))
<1>1. Crunched(s, name).head = Restrict(s.head, DOMAIN s.head \ {name})
  BY DEF Crunched, Shaped, CspFields
<1> QED
  BY <1>1, CrunchedEdits DEF Trims, Edits, Restrict

\* Without filters nothing is filtered.
LEMMA NotFiltered ==
  ASSUME NEW head
  PROVE  FoldSet(LAMBDA f, h : Filtered(h, f), head, {}) = head
<1> DEFINE iter[t \in SUBSET {}] ==
             IF t = {} THEN head
             ELSE LET x == CHOOSE x \in t : TRUE IN Filtered(iter[t \ {x}], x)
<1>1. FoldSet(LAMBDA f, h : Filtered(h, f), head, {}) = iter[{}]
  BY DEF FoldSet, MapThenFoldSet
<1> DEFINE g == [t \in SUBSET {} |-> head]
<1>2. \A t \in SUBSET {} : t = {}
  OBVIOUS
<1>3. g = [t \in SUBSET {} |-> IF t = {} THEN head
                              ELSE LET x == CHOOSE x \in t : TRUE IN Filtered(g[t \ {x}], x)]
  BY <1>2
<1>4. iter = [t \in SUBSET {} |-> IF t = {} THEN head
                                 ELSE LET x == CHOOSE x \in t : TRUE IN Filtered(iter[t \ {x}], x)]
  BY <1>3
<1> QED
  BY <1>1, <1>4

LEMMA FilterTrims == ASSUME NEW s, Shaped(s) PROVE Trims(s, filter_header(s))
<1> DEFINE h == FoldSet(LAMBDA f, x : Filtered(x, f), s.head, s.action.multi["client-header-filter"])
<1>1. s.action.multi["client-header-filter"] = {} => h = s.head
  BY NotFiltered
<1>2. filter_header(s) = s \/ filter_header(s) = [s EXCEPT !.head = h]
  BY DEF filter_header, When, h
<1> HIDE DEF h
<1>3. Trims(s, [s EXCEPT !.head = h])
  BY <1>1, HeadSteady DEF Trims
<1> QED
  BY <1>2, <1>3, NothingTrims

LEMMA HostTrims == ASSUME NEW s, Shaped(s) PROVE Trims(s, client_host_adder(s))
<1>1. Trims(s, [s EXCEPT !.failed = TRUE])
  BY DEF Trims, Steady, Kept, Shaped, CspFields
<1>2. \A v : Trims(s, Says(s, "Host", v))
  BY SaysEdits, EditsTrims
<1> QED
  BY <1>1, <1>2, NothingTrims DEF client_host_adder

LEMMA HeadersTrim == ASSUME NEW s, Shaped(s) PROVE Trims(s, add_client_headers(s))
<1> DEFINE t == client_x_forwarded_for_adder(s)
           u == client_xtra_adder(t)
           v == client_connection_header_adder(u)
<1>1. Trims(s, t)
  BY SaysEdits, EditsTrims, NothingTrims DEF client_x_forwarded_for_adder, When
<1> HIDE DEF t
<1>2. Trims(t, u)
  <2> DEFINE added == t.action.multi["add-header"] \ {"line"}
             h == [n \in DOMAIN t.head \cup added |-> IF n \in added THEN "added" ELSE t.head[n]]
  <2>1. u = [t EXCEPT !.head = h]
    BY DEF client_xtra_adder
  <2>2. \A n \in {"Referer", "Cookie"} \ t.action.multi["add-header"] :
          n \in DOMAIN h => n \in DOMAIN t.head /\ h[n] = t.head[n]
    OBVIOUS
  <2> HIDE DEF h
  <2> QED
    BY <1>1, <2>1, <2>2, HeadSteady DEF Trims, Steady, Kept
<1> HIDE DEF u
<1>3. Trims(u, v)
  <2>1. Shaped(u)
    BY <1>2 DEF Trims, Steady, Kept
  <2>2. Trims(u, u) /\ Trims(u, Raised(u, "ClientKeepAlive")) /\ Trims(u, Says(u, "Connection", "close"))
    BY <2>1, FlagEdits, SaysEdits, EditsTrims, NothingTrims
  <2> QED
    BY <2>2 DEF client_connection_header_adder, When
<1> HIDE DEF v
<1>4. Trims(s, v)
  BY <1>1, <1>2, <1>3, TrimsTwice
<1>5. add_client_headers(s) = IF s.failed THEN s ELSE v
  BY DEF add_client_headers, t, u, v
<1> QED
  BY <1>4, <1>5, NothingTrims

\* What follows the handlers of sed().
LEMMA EditedTrims ==
  ASSUME NEW s, Shaped(s)
  PROVE  Trims(s, add_client_headers(client_host_adder(filter_header(crunch_client_header(s)))))
<1> DEFINE s4 == crunch_client_header(s)
           s5 == filter_header(s4)
           s6 == client_host_adder(s5)
           s7 == add_client_headers(s6)
<1>1. \A x, y : Trims(x, y) => Shaped(y)
  BY DEF Trims, Steady, Kept
<1>2. Trims(s, s4)
  BY CrunchedTrims, NothingTrims DEF crunch_client_header, When
<1> HIDE DEF s4
<1>3. Trims(s4, s5)
  BY <1>1, <1>2, FilterTrims
<1> HIDE DEF s5
<1>4. Trims(s5, s6)
  BY <1>1, <1>3, HostTrims
<1> HIDE DEF s6
<1>5. Trims(s6, s7)
  BY <1>1, <1>4, HeadersTrim
<1> HIDE DEF s7
<1>6. Trims(s, s7)
  BY <1>2, <1>3, <1>4, <1>5, TrimsTwice
<1> QED
  BY <1>6 DEF s4, s5, s6, s7

LEMMA TrimsDecided ==
  ASSUME NEW s, NEW t, Trims(s, t), ReferrerDone(s), CookieDone(s)
  PROVE  DecidedHead(t, t.head)
<1>1. t.action = s.action /\ t.http = s.http
  BY DEF Trims, Steady, Kept
<1>2. \A a : (On(t, a) <=> On(s, a)) /\ Value(t, a) = Value(s, a)
  BY <1>1 DEF On, Value
<1> QED
  BY <1>1, <1>2 DEF DecidedHead, Trims, ReferrerDone, CookieDone, Has

\* The rules after the tags of the headers are known.
RatedHead(c) == check_negative_tag_patterns(scan_headers(c))

LEMMA HeadRated == ASSUME NEW c, Shaped(c) PROVE Rerated(c, RatedHead(c))
<1> DEFINE s == scan_headers(c)
<1>1. Rerated(c, s)
  BY RatesRerated DEF scan_headers
<1> HIDE DEF s
<1>2. \A a : Rerated(s, [s EXCEPT !.action = a])
  BY <1>1, ActionRerated DEF Rerated, Kept
<1>3. \A a : Rerated(c, [s EXCEPT !.action = a])
  BY <1>1, <1>2 DEF Rerated, Kept
<1> QED
  BY <1>3 DEF RatedHead, check_negative_tag_patterns, s

\* Whatever the rules, the taggers and the filters are.
LEMMA SedKept ==
  ASSUME NEW c, Shaped(c), Settled(c.http, c.head)
  PROVE  /\ Kept(c, sed(c)) /\ Steady(RatedHead(c), sed(c))
         /\ Referable(c.head) => DecidedHead(sed(c), sed(c).head)
<1> DEFINE s2 == RatedHead(c)
           s3 == Handled(s2)
           s7 == sed(c)
<1>1. Rerated(c, s2)
  BY HeadRated
<1>2. s7 = add_client_headers(client_host_adder(filter_header(crunch_client_header(s3))))
  BY DEF sed, EditedHead, RatedHead
<1> HIDE DEF s2
<1>3. /\ Steady(s2, s3)
      /\ Referable(c.head) => ReferrerDone(s3) /\ CookieDone(s3)
  <2>1. Shaped(s2) /\ Settled(s2.http, s2.head) /\ (Referable(c.head) => Referable(s2.head))
    BY <1>1 DEF Rerated, Kept, Settled
  <2> QED
    BY <2>1, HandledEdits
<1> HIDE DEF s3, s7
<1>4. Trims(s3, s7)
  BY <1>2, <1>3, EditedTrims DEF Steady, Kept
<1>5. Kept(c, s7) /\ Steady(s2, s7)
  BY <1>1, <1>3, <1>4 DEF Rerated, Steady, Kept, Trims
<1>6. Referable(c.head) => DecidedHead(s7, s7.head)
  BY <1>3, <1>4, TrimsDecided
<1> QED
  BY <1>5, <1>6 DEF s2, s7

-----------------------------------------------------------------------------
(* Receiving a request.                                                    *)

\* The host of a header.
LEMMA HostGiven ==
  ASSUME NEW http, IsHttp(http), NEW h, NEW port, NEW url
  PROVE  LET to == WithHost(http, h, port, url)
         IN  /\ IsHttp(to) /\ to.client_ssl = http.client_ssl /\ to.ssl = http.ssl
             /\ to.host = h.host /\ to.port = IF h.port # 0 THEN h.port ELSE port
  BY DEF WithHost, IsHttp, HttpFields

LEMMA MatchedKept == ASSUME NEW s, Shaped(s) PROVE Kept(s, Matched(s)) /\ Kept(s, get_url_actions(s))
<1>1. \A a : Kept(s, [s EXCEPT !.action = a])
  BY ActionRerated DEF Rerated
<1>2. Kept(s, get_url_actions(s))
  BY <1>1 DEF get_url_actions
<1> QED
  BY <1>1, <1>2 DEF Matched

\* The rules are looked at, the tags are left alone.
LEMMA TagsLeft ==
  ASSUME NEW s, Shaped(s), NEW line
  PROVE  Matched(s).tags = s.tags /\ get_url_actions(s).tags = s.tags /\ ForceNoted(s, line).tags = s.tags
<1>1. \A a : [s EXCEPT !.action = a].tags = s.tags
  BY DEF Shaped, CspFields
<1>2. get_url_actions(s).tags = s.tags
  BY <1>1 DEF get_url_actions
<1>3. ForceNoted(s, line).tags = s.tags
  BY DEF ForceNoted, When, Raised, Shaped, CspFields
<1> QED
  BY <1>1, <1>2, <1>3 DEF Matched

LEMMA ForceKept ==
  ASSUME NEW s, Shaped(s), NEW line
  PROVE  Kept(s, ForceNoted(s, line)) /\ ForceNoted(s, line).action = s.action
  BY FlagEdits, NothingEdits DEF ForceNoted, When, Edits, Steady

\* t is c with a request for another place.
For(c, t, http) == /\ Shaped(t) /\ t.http = http /\ t.conn = c.conn
                   /\ t.config = c.config /\ t.files = c.files /\ t.tunnel = c.tunnel

LEMMA ReceivedFor ==
  ASSUME NEW c, Shaped(c), NEW r, NEW http, IsHttp(http)
  PROVE  LET a == Received(c, r, http)
         IN  /\ a.rsp = NoResponse /\ For(c, a.csp, http) /\ a.csp.rewritten = c.rewritten
             /\ a.csp.head = Listed(r.head, http.cmd) /\ a.csp.body = r.body /\ a.csp.tags = c.tags
<1> DEFINE c1 == [c EXCEPT !.http = http, !.body = r.body]
           c2 == ForceNoted(c1, r.line)
           c3 == Matched(c2)
           c4 == [c3 EXCEPT !.head = Listed(r.head, http.cmd)]
<1>1. For(c, c1, http) /\ c1.rewritten = c.rewritten /\ c1.body = r.body /\ c1.tags = c.tags
  BY DEF For, Shaped, CspFields
<1> HIDE DEF c1
<1>2. Kept(c1, c2) /\ c2.tags = c1.tags
  BY <1>1, ForceKept, TagsLeft DEF For
<1> HIDE DEF c2
<1>3. Kept(c2, c3) /\ c3.tags = c2.tags
  BY <1>2, MatchedKept, TagsLeft DEF Kept
<1> HIDE DEF c3
<1>4. Kept(c3, c4) /\ c4.tags = c3.tags
  BY <1>3, HeadSteady DEF Steady, Kept
<1>5. c4.head = Listed(r.head, http.cmd)
  BY <1>3 DEF Kept, Shaped, CspFields
<1> HIDE DEF c4
<1>6. Received(c, r, http) = Goes(c4)
  BY DEF Received, c1, c2, c3, c4
<1> QED
  BY <1>1, <1>2, <1>3, <1>4, <1>5, <1>6 DEF For, Kept, Goes

LEMMA ListedHost ==
  ASSUME NEW head, NEW line
  PROVE  /\ "Host" \in DOMAIN Listed(head, line) <=> "Host" \in DOMAIN head
         /\ "Host" \in DOMAIN head => Listed(head, line)["Host"] = head["Host"]
  BY DEF Listed

SameRules(s, t) == t.config = s.config /\ t.files = s.files

\* A request that is worked on is for the place its client named.
Comes(c, r, a) ==
  /\ Shaped(a.csp) /\ a.csp.conn = c.conn /\ a.csp.rewritten = c.rewritten /\ ~a.csp.http.client_ssl
  /\ SameRules(c, a.csp) /\ a.csp.tags = c.tags
  /\ a.rsp = NoResponse => /\ Settled(a.csp.http, a.csp.head) /\ AsAsked(a.csp.http, r, FALSE)
                           /\ a.csp.body = r.body /\ \E line : a.csp.head = Listed(r.head, line)

LEMMA RequestReceived ==
  ASSUME NEW c, Shaped(c), ~c.http.client_ssl, NEW r \in Requests
  PROVE  Comes(c, r, receive_client_request(c, r))
<1> DEFINE line == Unforced(c, r.line)
           http == parse_http_request(line)
           elsewhere == http.host = NoHost
           dest == IF elsewhere THEN get_destination_from_headers(http, r.head["Host"]) ELSE http
           a == receive_client_request(c, r)
<1>1. \/ a = Tells(c, Error(400, "FTP")) \/ a = Tells(c, Error(400, "bad-request"))
      \/ a = Tells(c, Error(400, "missing-destination"))
      \/ /\ http.ok /\ ~NotConnect(http) /\ (elsewhere => "Host" \in DOMAIN r.head)
         /\ a = Received(c, r, dest)
  BY DEF receive_client_request
<1> HIDE DEF a
<1>2. ASSUME \/ a = Tells(c, Error(400, "FTP")) \/ a = Tells(c, Error(400, "bad-request"))
             \/ a = Tells(c, Error(400, "missing-destination"))
      PROVE  Comes(c, r, a)
  <2>1. a.csp = c /\ a.rsp # NoResponse
    BY <1>2 DEF Tells, Error, Response, NoResponse
  <2> QED
    BY <2>1 DEF Comes, SameRules
<1>3. ASSUME /\ http.ok /\ ~NotConnect(http) /\ (elsewhere => "Host" \in DOMAIN r.head)
             /\ a = Received(c, r, dest)
      PROVE  Comes(c, r, a)
  <2>1. /\ line.method = r.line.method /\ line.url.scheme = r.line.url.scheme
        /\ line.url.host = r.line.url.host /\ line.url.port = r.line.url.port
    BY LineUnforced
  <2> HIDE DEF line
  <2>2. /\ IsHttp(http) /\ ~http.client_ssl /\ http.method = line.method
        /\ Heads(http, line.method, line.url)
    BY <1>3, RequestParsed
  <2>3. IsHttp(dest) /\ ~dest.client_ssl /\ AsAsked(dest, r, FALSE)
        /\ (dest.host = NoHost => elsewhere) /\ (elsewhere => dest.host = r.head["Host"].host)
    <3>1. CASE elsewhere
      <4>1. r.line.url.scheme \in {"path", "*"}
        BY <3>1, <2>1, <2>2 DEF Heads
      <4>2. /\ IsHttp(dest) /\ dest.client_ssl = http.client_ssl /\ dest.host = r.head["Host"].host
            /\ dest.port = IF r.head["Host"].port # 0 THEN r.head["Host"].port ELSE 80
        BY <3>1, <2>2, HostGiven DEF get_destination_from_headers
      <4> HIDE DEF dest, http
      <4> QED
        BY <3>1, <4>1, <4>2, <2>2 DEF AsAsked, Named, InHost, PortWithout
    <3>2. CASE ~elsewhere
      <4>1. dest = http
        BY <3>2
      <4>2. r.line.url.scheme \notin {"path", "*"}
        BY <3>2, <2>1, <2>2 DEF Heads
      <4>3. Tls(line.method, line.url) <=> r.line.method = "CONNECT"
        BY <1>3, <2>1, <2>2 DEF NotConnect, Heads, Tls
      <4> HIDE DEF dest, http
      <4>4. AsAsked(http, r, FALSE)
        BY <4>2, <4>3, <2>1, <2>2 DEF AsAsked, Named, InHost, PortWithout, Heads
      <4> QED
        BY <3>2, <4>1, <4>4, <2>2
    <3> QED
      BY <3>1, <3>2
  <2> HIDE DEF dest, http
  <2>4. /\ a.rsp = NoResponse /\ For(c, a.csp, dest) /\ a.csp.rewritten = c.rewritten
        /\ a.csp.head = Listed(r.head, dest.cmd) /\ a.csp.body = r.body /\ a.csp.tags = c.tags
    BY <1>3, <2>3, ReceivedFor
  <2>5. Settled(a.csp.http, a.csp.head)
    <3>1. CASE elsewhere
      <4>1. a.csp.head["Host"] = r.head["Host"]
        BY <1>3, <3>1, <2>4, ListedHost
      <4> QED
        BY <2>3, <2>4, <3>1, <4>1 DEF Settled, For
    <3>2. CASE ~elsewhere
      BY <2>3, <2>4, <3>2 DEF Settled, For, NoHost
    <3> QED
      BY <3>1, <3>2
  <2> QED
    BY <2>3, <2>4, <2>5 DEF For, Comes, SameRules
<1>4. Comes(c, r, a)
  BY <1>1, <1>2, <1>3
<1> QED
  BY <1>4 DEF a

-----------------------------------------------------------------------------
(* Editing it.                                                             *)

LEMMA PreparedKept == ASSUME NEW c, Shaped(c) PROVE Steady(c, Prepared(c)) /\ Prepared(c).head = c.head
<1> DEFINE n == get_expected_content_length(c.head)
           k == Raised(c, "ClientKeepAlive")
<1>1. \A s : Shaped(s) => Steady(s, [s EXCEPT !.expected = n]) /\ [s EXCEPT !.expected = n].head = s.head
  BY DEF Steady, Kept, Shaped, CspFields
<1>2. Steady(c, k) /\ k.head = c.head /\ Steady(c, c)
  BY DEF Steady, Kept, Shaped, CspFields, Raised
<1>3. \/ Prepared(c) = c \/ Prepared(c) = k \/ Prepared(c) = [c EXCEPT !.expected = n]
      \/ Prepared(c) = [k EXCEPT !.expected = n]
  BY DEF Prepared, When
<1> HIDE DEF n, k
<1>4. Shaped(k) /\ Shaped(c)
  BY <1>2 DEF Steady, Kept
<1>5. Steady(k, [k EXCEPT !.expected = n]) /\ [k EXCEPT !.expected = n].head = k.head
  BY <1>1, <1>4
<1>6. Steady(c, [k EXCEPT !.expected = n])
  BY <1>2, <1>5 DEF Steady, Kept
<1> QED
  BY <1>1, <1>2, <1>3, <1>5, <1>6

\* A request is only for another place if it was rewritten.
Works(c, a) ==
  /\ Shaped(a.csp) /\ a.csp.conn = c.conn /\ ~a.csp.http.client_ssl
  /\ SameRules(c, a.csp) /\ a.csp.body = c.body
  /\ ~a.csp.rewritten => a.csp.http = c.http /\ ~c.rewritten

\* The action and the tags are left alone, everything else is unless it was rewritten.
Reworked(s, t) == t.action = s.action /\ t.tags = s.tags /\ (~t.rewritten => t = s)

LEMMA EditedWorks ==
  ASSUME NEW c, Shaped(c), ~c.http.client_ssl
  PROVE  Works(c, Edited(c)) /\ Reworked(c, Edited(c).csp)
<1> DEFINE http == parse_http_request(c.head["line"])
<1> DEFINE Good(a) == Works(c, a) /\ Reworked(c, a.csp)
<1>1. \A rsp : Good(Tells(c, rsp)) /\ Good(Goes(c))
  BY DEF Works, Reworked, SameRules, Tells, Goes
<1>2. Good(change_request_destination(c, http))
  <2>1. CASE ~http.ok \/ NotConnect(http)
    BY <2>1, <1>1 DEF change_request_destination
  <2>2. CASE http.ok /\ ~NotConnect(http)
    <3>1. IsHttp(http) /\ ~http.client_ssl
      BY <2>2, RequestParsed
    <3> HIDE DEF http
    <3> DEFINE t == [c EXCEPT !.http = http, !.rewritten = TRUE]
    <3>2. /\ Shaped(t) /\ t.http = http /\ t.conn = c.conn /\ t.rewritten
          /\ SameRules(c, t) /\ t.body = c.body /\ t.action = c.action /\ t.tags = c.tags
      BY <3>1 DEF Shaped, CspFields, SameRules
    <3>3. change_request_destination(c, http) = Goes(t)
      BY <2>2 DEF change_request_destination
    <3> HIDE DEF t
    <3> QED
      BY <3>1, <3>2, <3>3 DEF Works, Reworked, Goes
  <2> QED
    BY <2>1, <2>2
<1> HIDE DEF http
<1>3. \/ Edited(c) = Tells(c, Error(400, "bad-request")) \/ Edited(c) = Tells(c, Error(400, "messed-up"))
      \/ Edited(c) = change_request_destination(c, http) \/ Edited(c) = Goes(c)
  BY DEF Edited, http
<1> QED
  BY <1>1, <1>2, <1>3

LEMMA RequestWorks ==
  ASSUME NEW c, Shaped(c), ~c.http.client_ssl, Settled(c.http, c.head)
  PROVE  /\ Works(c, parse_client_request(c))
         /\ Reworked(sed(Prepared(c)), parse_client_request(c).csp)
<1> DEFINE s == Prepared(c)
           t == sed(s)
           a == Edited(t)
<1>1. Steady(c, s) /\ s.head = c.head
  BY PreparedKept
<1> HIDE DEF s
<1>2. Kept(s, t)
  <2>1. Shaped(s) /\ Settled(s.http, s.head)
    BY <1>1 DEF Steady, Kept, Settled
  <2> QED
    BY <2>1, SedKept
<1> HIDE DEF t
<1>3. Works(t, a) /\ Reworked(t, a.csp)
  BY <1>1, <1>2, EditedWorks DEF Steady, Kept
<1> HIDE DEF a
<1>4. Works(c, a)
  BY <1>1, <1>2, <1>3 DEF Works, Steady, Kept, SameRules
<1>5. client_has_unsupported_expectations(a).csp = a.csp
  BY DEF client_has_unsupported_expectations, Tells
<1>6. parse_client_request(c) = client_has_unsupported_expectations(a)
  BY DEF parse_client_request, a, t, s
<1> QED
  BY <1>3, <1>4, <1>5, <1>6 DEF Works, t, s

-----------------------------------------------------------------------------
(* The crunchers.                                                          *)

\* t is s with another answer in sight.
Heard(s, t) == /\ Kept(s, t) /\ t.tunnel = s.tunnel /\ t.action = s.action
               /\ t.head = s.head /\ t.https = s.https /\ t.tags = s.tags

\* b is a after another cruncher was asked.
AfterAsking(a, b) ==
  /\ Heard(a.csp, b.csp)
  /\ b.rsp = NoResponse => a.rsp = NoResponse /\ b.csp.flags = a.csp.flags

LEMMA AskedTwice ==
  ASSUME NEW a, NEW b, NEW d, AfterAsking(a, b), AfterAsking(b, d)
  PROVE  AfterAsking(a, d)
  BY DEF AfterAsking, Heard, Kept

Crunchers == {"direct_response", "block_url", "trust_url", "redirect_url", "dispatch_cgi"}

LEMMA CruncherHeard ==
  ASSUME NEW s, Shaped(s), NEW name \in Crunchers
  PROVE  LET b == cruncher(s, name) IN b = [csp |-> b.csp, rsp |-> b.rsp] /\ Heard(s, b.csp) /\ b.csp.flags = s.flags
<1>1. Heard(s, s)
  BY DEF Heard, Kept
<1>2. \A h : LET t == [s EXCEPT !.appended = h] IN Heard(s, t) /\ t.flags = s.flags
  BY DEF Heard, Kept, Shaped, CspFields
<1>3. trust_url(s).csp = s \/ trust_url(s).csp = [s EXCEPT !.appended = @ \cup {s.http.host}]
  BY DEF trust_url, Answers
<1>4. trust_url(s) = [csp |-> trust_url(s).csp, rsp |-> trust_url(s).rsp]
  BY DEF trust_url, Answers
<1>5. \A rsp : LET b == Answers(s, rsp) IN b = [csp |-> b.csp, rsp |-> b.rsp] /\ b.csp = s
  BY DEF Answers
<1>6. CASE name = "trust_url"
  <2>1. cruncher(s, name) = trust_url(s)
    BY <1>6 DEF cruncher
  <2> QED
    BY <1>1, <1>2, <1>3, <1>4, <2>1
<1>7. CASE name # "trust_url"
  <2>1. \/ cruncher(s, name) = Answers(s, direct_response(s)) \/ cruncher(s, name) = Answers(s, block_url(s))
        \/ cruncher(s, name) = Answers(s, redirect_url(s)) \/ cruncher(s, name) = Answers(s, dispatch_cgi(s))
    BY <1>7 DEF cruncher, Crunchers
  <2> QED
    BY <1>1, <1>5, <2>1
<1> QED
  BY <1>6, <1>7

LEMMA AskFacts ==
  ASSUME NEW a, Shaped(a.csp), NEW name \in Crunchers
  PROVE  /\ AfterAsking(a, Ask(a, name))
         /\ Ask(a, name).rsp = NoResponse /\ Asked(a.csp, name) => cruncher(a.csp, name).rsp = NoResponse
<1> DEFINE b == cruncher(a.csp, name)
           f == IF name \in CountsAsReject THEN {"Crunched", "Rejected"} ELSE {"Crunched"}
           t == [b.csp EXCEPT !.flags = @ \cup f]
           d == [b EXCEPT !.csp.flags = @ \cup f]
<1>1. b = [csp |-> b.csp, rsp |-> b.rsp] /\ Heard(a.csp, b.csp) /\ b.csp.flags = a.csp.flags
  BY CruncherHeard
<1>2. Ask(a, name) = IF a.rsp # NoResponse \/ ~Asked(a.csp, name) THEN a
                     ELSE IF b.rsp = NoResponse THEN b ELSE d
  BY DEF Ask
<1> HIDE DEF b
<1>3. d.csp = t /\ d.rsp = b.rsp
  BY <1>1
<1> HIDE DEF d, f
<1>4. Heard(a.csp, t)
  BY <1>1 DEF Heard, Kept, Shaped, CspFields
<1> HIDE DEF t
<1>5. CASE a.rsp # NoResponse \/ ~Asked(a.csp, name)
  BY <1>2, <1>5 DEF AfterAsking, Heard, Kept
<1>6. CASE ~(a.rsp # NoResponse \/ ~Asked(a.csp, name)) /\ b.rsp = NoResponse
  <2>1. Ask(a, name) = b
    BY <1>2, <1>6
  <2> QED
    BY <1>1, <1>6, <2>1 DEF AfterAsking, b
<1>7. CASE ~(a.rsp # NoResponse \/ ~Asked(a.csp, name)) /\ b.rsp # NoResponse
  <2>1. Ask(a, name) = d
    BY <1>2, <1>7
  <2> QED
    BY <1>3, <1>4, <1>7, <2>1 DEF AfterAsking
<1> QED
  BY <1>5, <1>6, <1>7

\* Without an answer nothing is blocked that should be, and no page of Privoxy was asked for.
Judged(c, a) ==
  /\ Heard(c, a.csp)
  /\ a.rsp = NoResponse => /\ a.csp.flags = c.flags /\ ForAnotherSite(c)
                           /\ Heeded(c) => ~On(c, "block")

LEMMA BlockedAnswered == ASSUME NEW s, block_url(s) = NoResponse PROVE ~On(s, "block")
<1> SUFFICES ASSUME On(s, "block") PROVE FALSE
  OBVIOUS
<1>1. \E status, what : block_url(s) = Response("BLOCKED", status, what)
  BY DEF block_url
<1> QED
  BY <1>1 DEF Response, NoResponse

LEMMA CgiAnswered == ASSUME NEW s, dispatch_cgi(s) = NoResponse PROVE ForAnotherSite(s)
  BY DEF dispatch_cgi, Response, NoResponse

LEMMA CrunchersJudge ==
  ASSUME NEW a, Shaped(a.csp)
  PROVE  /\ AfterAsking(a, crunchers_all(a))
         /\ Judged(a.csp, crunchers_all(a))
<1> DEFINE a1 == Ask(a, "direct_response")
           a2 == Ask(a1, "block_url")
           a3 == Ask(a2, "trust_url")
           a4 == Ask(a3, "redirect_url")
           a5 == Ask(a4, "dispatch_cgi")
<1>1. AfterAsking(a, a1)
  BY AskFacts DEF Crunchers
<1> HIDE DEF a1
<1>2. /\ AfterAsking(a1, a2)
      /\ a2.rsp = NoResponse /\ Asked(a1.csp, "block_url") => cruncher(a1.csp, "block_url").rsp = NoResponse
  <2>1. Shaped(a1.csp)
    BY <1>1 DEF AfterAsking, Heard, Kept
  <2> QED
    BY <2>1, AskFacts DEF Crunchers
<1> HIDE DEF a2
<1>3. AfterAsking(a2, a3)
  <2>1. Shaped(a2.csp)
    BY <1>2 DEF AfterAsking, Heard, Kept
  <2> QED
    BY <2>1, AskFacts DEF Crunchers
<1> HIDE DEF a3
<1>4. AfterAsking(a3, a4)
  <2>1. Shaped(a3.csp)
    BY <1>3 DEF AfterAsking, Heard, Kept
  <2> QED
    BY <2>1, AskFacts DEF Crunchers
<1> HIDE DEF a4
<1>5. /\ AfterAsking(a4, a5)
      /\ a5.rsp = NoResponse /\ Asked(a4.csp, "dispatch_cgi") => cruncher(a4.csp, "dispatch_cgi").rsp = NoResponse
  <2>1. Shaped(a4.csp)
    BY <1>4 DEF AfterAsking, Heard, Kept
  <2> QED
    BY <2>1, AskFacts DEF Crunchers
<1> HIDE DEF a5
<1>6. crunchers_all(a) = a5
  BY DEF crunchers_all, a1, a2, a3, a4, a5
<1>7. AfterAsking(a1, a5) /\ AfterAsking(a, a4) /\ AfterAsking(a, a5) /\ AfterAsking(a2, a5)
  BY <1>1, <1>2, <1>3, <1>4, <1>5, AskedTwice
<1>8. ASSUME a5.rsp = NoResponse
      PROVE  /\ a5.csp.flags = a.csp.flags /\ ForAnotherSite(a.csp)
             /\ Heeded(a.csp) => ~On(a.csp, "block")
  <2>1. a5.csp.flags = a.csp.flags
    BY <1>7, <1>8 DEF AfterAsking
  <2>2. ForAnotherSite(a.csp)
    <3>1. cruncher(a4.csp, "dispatch_cgi") = Answers(a4.csp, dispatch_cgi(a4.csp))
      BY DEF cruncher
    <3>2. Asked(a4.csp, "dispatch_cgi")
      BY DEF Asked, IgnoresForce
    <3>3. dispatch_cgi(a4.csp) = NoResponse
      BY <1>5, <1>8, <3>1, <3>2 DEF Answers
    <3> QED
      BY <1>7, <3>3, CgiAnswered DEF AfterAsking, Heard, Kept, ForAnotherSite
  <2>3. ASSUME Heeded(a.csp) PROVE ~On(a.csp, "block")
    <3>1. a2.rsp = NoResponse /\ a1.rsp = NoResponse /\ a1.csp.flags = a.csp.flags
      BY <1>1, <1>2, <1>7, <1>8 DEF AfterAsking
    <3>2. cruncher(a1.csp, "block_url") = Answers(a1.csp, block_url(a1.csp))
      BY DEF cruncher
    <3>3. Asked(a1.csp, "block_url")
      BY <2>3, <3>1 DEF Asked, Heeded
    <3>4. block_url(a1.csp) = NoResponse
      BY <1>2, <3>1, <3>2, <3>3 DEF Answers
    <3>5. ~On(a1.csp, "block")
      BY <3>4, BlockedAnswered
    <3> QED
      BY <1>1, <3>5 DEF On, AfterAsking, Heard
  <2> QED
    BY <2>1, <2>2, <2>3
<1> QED
  BY <1>6, <1>7, <1>8 DEF Judged, AfterAsking

LEMMA RequestJudged ==
  ASSUME NEW c, Shaped(c)
  PROVE  Judged(c, crunch_response_triggered(c))
<1> DEFINE early == IF Enabled(c, "allow-cgi-request-crunching") THEN NoResponse ELSE dispatch_cgi(c)
           s == When(early # NoResponse, Raised(c, "Crunched"), c)
           a == [Answers(c, early) EXCEPT !.csp = When(early # NoResponse, Raised(@, "Crunched"), @)]
<1>1. crunch_response_triggered(c) = crunchers_all(a)
  BY DEF crunch_response_triggered
<1> HIDE DEF early
<1>2. a.csp = s /\ a.rsp = early
  BY DEF Answers
<1> HIDE DEF a
<1>3. Heard(c, s) /\ (early = NoResponse => s = c)
  <2>1. Heard(c, c) /\ Heard(c, Raised(c, "Crunched"))
    BY DEF Heard, Kept, Shaped, CspFields, Raised
  <2> QED
    BY <2>1 DEF When
<1> HIDE DEF s
<1>4. AfterAsking(a, crunchers_all(a)) /\ Judged(a.csp, crunchers_all(a))
  <2>1. Shaped(a.csp)
    BY <1>2, <1>3 DEF Heard, Kept
  <2> QED
    BY <2>1, CrunchersJudge
<1> QED
  BY <1>1, <1>2, <1>3, <1>4 DEF Judged, AfterAsking, Heard, Kept

-----------------------------------------------------------------------------
(* Requests within an inspected connection.                                *)

\* The head of a request within, in place of the one in csp->headers.
Within(c) == [c EXCEPT !.head = c.https, !.tags = {}]

LEMMA InnerSedKept ==
  ASSUME NEW c, Shaped(c), Settled(c.http, c.https)
  PROVE  /\ Kept(c, Within(c)) /\ Within(c).head = c.https /\ Within(c).tags = {} /\ Within(c).action = c.action
         /\ Kept(c, sed_https(c))
         /\ sed_https(c).action = sed(Within(c)).action /\ sed_https(c).tags = sed(Within(c)).tags
         /\ Referable(c.https) => DecidedHead(sed_https(c), sed_https(c).https)
<1> DEFINE s == Within(c)
           t == sed(s)
           u == [t EXCEPT !.https = t.head, !.head = c.head]
<1>1. Kept(c, s) /\ s.head = c.https /\ s.tags = {} /\ s.action = c.action
  BY DEF Kept, Shaped, CspFields, Within
<1> HIDE DEF s
<1>2. Kept(s, t) /\ (Referable(c.https) => DecidedHead(t, t.head))
  BY <1>1, SedKept DEF Kept
<1> HIDE DEF t
<1>3. Kept(t, u) /\ u.action = t.action /\ u.tags = t.tags /\ u.https = t.head
  BY <1>2 DEF Kept, Shaped, CspFields
<1> HIDE DEF u
<1>4. sed_https(c) = u
  BY DEF sed_https, s, t, u, Within
<1>5. Kept(c, u)
  BY <1>1, <1>2, <1>3 DEF Kept
<1>6. Referable(c.https) => DecidedHead(u, u.https)
  BY <1>2, <1>3 DEF DecidedHead, On, Value, Kept
<1> QED
  BY <1>1, <1>3, <1>4, <1>5, <1>6 DEF s, t

\* What is encrypted stays it; a request is only for another place if it was rewritten.
WorksInside(c, a) ==
  /\ Shaped(a.csp) /\ a.csp.conn = c.conn /\ a.csp.http.client_ssl
  /\ SameRules(c, a.csp)
  /\ ~a.csp.rewritten => a.csp.http = c.http /\ ~c.rewritten

LEMMA EditedInnerWorks ==
  ASSUME NEW c, Shaped(c), c.http.client_ssl
  PROVE  WorksInside(c, EditedInner(c)) /\ Reworked(c, EditedInner(c).csp)
<1> DEFINE http == parse_http_request(c.https["line"])
<1> DEFINE Good(a) == WorksInside(c, a) /\ Reworked(c, a.csp)
<1>1. \A rsp : Good(Tells(c, rsp)) /\ Good(Goes(c))
  BY DEF WorksInside, Reworked, SameRules, Tells, Goes
<1>2. Good(change_encrypted_request_destination(c, http))
  <2>1. CASE ~http.ok
    BY <2>1, <1>1 DEF change_encrypted_request_destination
  <2>2. CASE http.ok
    <3>1. IsHttp(http)
      BY <2>2, RequestParsed
    <3> HIDE DEF http
    <3> DEFINE same  == http.host = NoHost
               moved == [http EXCEPT !.host = IF same THEN c.http.host ELSE @,
                                     !.port = IF same THEN c.http.port ELSE @,
                                     !.hostport = IF same THEN [host |-> c.http.host, port |-> c.http.port] ELSE @,
                                     !.ssl = same \/ @, !.server_ssl = same \/ http.ssl, !.client_ssl = TRUE,
                                     !.version = IF On(c, "downgrade-http-version") THEN "1.0" ELSE @]
               inner == [c.https EXCEPT !["line"] = NewLine(moved)]
               t == [c EXCEPT !.http = moved, !.https = inner, !.rewritten = TRUE]
               u == [c EXCEPT !.http = moved, !.head = inner, !.https = <<>>, !.rewritten = TRUE]
    <3>2. IsHttp(moved) /\ moved.client_ssl
      BY <3>1 DEF IsHttp, HttpFields
    <3>3. change_encrypted_request_destination(c, http) = IF moved.server_ssl THEN Goes(t) ELSE Goes(u)
      BY <2>2 DEF change_encrypted_request_destination, Moved
    <3> HIDE DEF moved, inner
    <3>4. /\ Shaped(t) /\ t.http = moved /\ t.conn = c.conn /\ t.rewritten
          /\ SameRules(c, t) /\ t.action = c.action /\ t.tags = c.tags
      BY <3>2 DEF Shaped, CspFields, SameRules
    <3>5. /\ Shaped(u) /\ u.http = moved /\ u.conn = c.conn /\ u.rewritten
          /\ SameRules(c, u) /\ u.action = c.action /\ u.tags = c.tags
      BY <3>2 DEF Shaped, CspFields, SameRules
    <3> HIDE DEF t, u
    <3> QED
      BY <3>2, <3>3, <3>4, <3>5 DEF WorksInside, Reworked, Goes
  <2> QED
    BY <2>1, <2>2
<1> HIDE DEF http
<1>3. \/ EditedInner(c) = Tells(c, Error(400, "bad-request")) \/ EditedInner(c) = Tells(c, Error(400, "messed-up"))
      \/ EditedInner(c) = change_encrypted_request_destination(c, http) \/ EditedInner(c) = Goes(c)
  BY DEF EditedInner, http
<1> QED
  BY <1>1, <1>2, <1>3

\* A request within before it is edited.
Inner(c, r, s) ==
  /\ Shaped(s) /\ SameRules(c, s) /\ s.tunnel = c.tunnel /\ s.http.client_ssl /\ s.http.ssl /\ s.body = r.body
  /\ Settled(s.http, s.https) /\ \E line : s.https = Listed(r.head, line)
  /\ \E t : Shaped(t) /\ SameRules(c, t) /\ s.action \in {c.action, get_url_actions(t).action}

\* A request within is for the host of its header.
ComesInside(c, r, a) ==
  /\ Shaped(a.csp) /\ a.csp.conn = c.conn
  /\ SameRules(c, a.csp)
  /\ a.csp.http.client_ssl \/ a.csp = c
  /\ a.rsp = NoResponse => a.csp.http.client_ssl
  /\ a.rsp = NoResponse /\ ~a.csp.rewritten => AsAsked(a.csp.http, r, TRUE)
  /\ a.rsp = NoResponse => \E s : Inner(c, r, s) /\ Reworked(sed_https(s), a.csp)

LEMMA InnerReceivedComes ==
  ASSUME NEW c, Shaped(c), NEW r, "Host" \in DOMAIN r.head, NEW parsed, IsHttp(parsed)
  PROVE  LET a == InnerReceived(c, r, get_destination_from_https_headers(parsed, r.head["Host"]))
         IN  /\ Shaped(a.csp) /\ a.csp.conn = c.conn /\ a.csp.http.client_ssl
             /\ ~a.csp.rewritten => AsAsked(a.csp.http, r, TRUE)
             /\ SameRules(c, a.csp) /\ \E s : Inner(c, r, s) /\ Reworked(sed_https(s), a.csp)
<1> DEFINE http == get_destination_from_https_headers(parsed, r.head["Host"])
           dest == [http EXCEPT !.client_ssl = TRUE, !.server_ssl = TRUE]
           c1 == [c EXCEPT !.http = dest, !.body = r.body, !.rewritten = FALSE]
           c2 == ForceNoted(c1, r.line)
           c3 == IF "ToggledOn" \in c.flags THEN get_url_actions(c2) ELSE c2
           c4 == [c3 EXCEPT !.https = Listed(r.head, http.cmd), !.http.ssl = TRUE]
           c5 == sed_https(c4)
<1>1. /\ IsHttp(http) /\ http.host = r.head["Host"].host
      /\ http.port = IF r.head["Host"].port # 0 THEN r.head["Host"].port ELSE 443
  BY HostGiven DEF get_destination_from_https_headers
<1> HIDE DEF http
<1>2. /\ IsHttp(dest) /\ dest.host = http.host /\ dest.port = http.port /\ dest.client_ssl
  BY <1>1 DEF IsHttp, HttpFields
<1> HIDE DEF dest
<1>3. For(c, c1, dest) /\ c1.body = r.body /\ c1.action = c.action
  BY <1>2 DEF For, Shaped, CspFields
<1> HIDE DEF c1
<1>4. Kept(c1, c2) /\ c2.action = c1.action
  BY <1>3, ForceKept DEF For
<1> HIDE DEF c2
<1>5. Kept(c2, c3) /\ c3.action \in {c2.action, get_url_actions(c2).action}
  <2>1. Shaped(c2)
    BY <1>4 DEF Kept
  <2>2. Kept(c2, get_url_actions(c2)) /\ Kept(c2, c2)
    BY <2>1, MatchedKept DEF Kept
  <2> QED
    BY <2>2
<1> HIDE DEF c3
<1>6. /\ Shaped(c4) /\ c4.conn = c3.conn /\ c4.https = Listed(r.head, http.cmd)
      /\ c4.http.host = c3.http.host /\ c4.http.port = c3.http.port /\ c4.http.client_ssl = c3.http.client_ssl
      /\ c4.http.ssl /\ SameRules(c3, c4) /\ c4.tunnel = c3.tunnel /\ c4.body = c3.body /\ c4.action = c3.action
  BY <1>5 DEF Kept, Shaped, CspFields, IsHttp, HttpFields, SameRules
<1> HIDE DEF c4
<1>7. c4.http.host = r.head["Host"].host /\ c4.http.port = http.port /\ c4.http.client_ssl /\ c4.conn = c.conn
  BY <1>1, <1>2, <1>3, <1>4, <1>5, <1>6 DEF For, Kept
<1>8. Kept(c4, c5) /\ Settled(c4.http, c4.https)
  <2>1. Settled(c4.http, c4.https)
    <3>1. "Host" \in DOMAIN c4.https => c4.https["Host"] = r.head["Host"]
      BY <1>6, ListedHost
    <3> QED
      BY <1>7, <3>1, Zenon DEF Settled
  <2> QED
    BY <1>6, <2>1, InnerSedKept
<1>12. Inner(c, r, c4)
  <2>1. Shaped(c2) /\ SameRules(c, c2) /\ c4.action \in {c.action, get_url_actions(c2).action}
    BY <1>3, <1>4, <1>5, <1>6 DEF For, Kept, SameRules
  <2> QED
    BY <2>1, <1>3, <1>4, <1>5, <1>6, <1>7, <1>8 DEF Inner, For, Kept, SameRules
<1> HIDE DEF c5
<1>9. WorksInside(c5, EditedInner(c5)) /\ Reworked(c5, EditedInner(c5).csp)
  BY <1>7, <1>8, EditedInnerWorks DEF Kept
<1>10. AsAsked(c4.http, r, TRUE)
  BY <1>1, <1>7 DEF AsAsked, Named, InHost, PortWithout
<1>11. InnerReceived(c, r, http) = EditedInner(c5)
  BY DEF InnerReceived, c1, c2, c3, c4, c5, dest
<1>13. SameRules(c, EditedInner(c5).csp)
  BY <1>8, <1>9, <1>12 DEF WorksInside, Kept, Inner, SameRules
<1>14. Reworked(sed_https(c4), EditedInner(c5).csp)
  BY <1>9 DEF c5
<1> QED
  BY <1>7, <1>8, <1>9, <1>10, <1>11, <1>12, <1>13, <1>14 DEF WorksInside, Kept, http

LEMMA InnerComes ==
  ASSUME NEW c, Shaped(c), NEW r \in InnerRequests
  PROVE  ComesInside(c, r, process_encrypted_request_headers(c, r))
<1> DEFINE parsed == parse_http_request(Unforced(c, r.line))
           s == When(Enabled(c, "keep-alive-timeout"), Raised(c, "ClientKeepAlive"), c)
           inner == InnerReceived(s, r, get_destination_from_https_headers(parsed, r.head["Host"]))
           a == process_encrypted_request_headers(c, r)
<1>1. \/ a = Tells(c, Error(400, "FTP")) \/ a = Tells(c, Error(400, "bad-request"))
      \/ parsed.ok /\ "Host" \in DOMAIN r.head /\ a = inner
  BY DEF process_encrypted_request_headers
<1> HIDE DEF a
<1>2. Kept(c, s) /\ s.action = c.action
  BY FlagEdits, NothingEdits DEF When, Edits, Steady
<1> HIDE DEF s
<1>3. ASSUME a = Tells(c, Error(400, "FTP")) \/ a = Tells(c, Error(400, "bad-request"))
      PROVE  ComesInside(c, r, a)
  <2>1. a.csp = c /\ a.rsp # NoResponse
    BY <1>3 DEF Tells, Error, Response, NoResponse
  <2> QED
    BY <2>1 DEF ComesInside, SameRules
<1>4. ASSUME parsed.ok, "Host" \in DOMAIN r.head, a = inner
      PROVE  ComesInside(c, r, a)
  <2>1. IsHttp(parsed)
    BY <1>4, RequestParsed
  <2> HIDE DEF parsed
  <2>2. /\ Shaped(inner.csp) /\ inner.csp.conn = s.conn /\ inner.csp.http.client_ssl
        /\ ~inner.csp.rewritten => AsAsked(inner.csp.http, r, TRUE)
        /\ SameRules(s, inner.csp) /\ \E x : Inner(s, r, x) /\ Reworked(sed_https(x), inner.csp)
    BY <1>2, <1>4, <2>1, InnerReceivedComes DEF Kept
  <2> HIDE DEF inner
  <2>3. SameRules(c, inner.csp) /\ \A x : Inner(s, r, x) => Inner(c, r, x)
    BY <1>2, <2>2 DEF Inner, Kept, SameRules
  <2> QED
    BY <1>2, <1>4, <2>2, <2>3 DEF ComesInside, Kept
<1>5. ComesInside(c, r, a)
  BY <1>1, <1>3, <1>4
<1> QED
  BY <1>5 DEF a

-----------------------------------------------------------------------------
(* The invariant is kept.                                                  *)

LEMMA FreshShaped ==
  ASSUME NEW c, Shaped(c), NEW toggled
  PROVE  LET t == Fresh(c, toggled)
         IN  /\ Shaped(t) /\ t.conn = c.conn /\ ~t.rewritten /\ ~t.http.client_ssl
             /\ SameRules(c, t) /\ t.tags = {} /\ ~t.tunnel
<1>1. IsHttp(NoHttp) /\ ~NoHttp.client_ssl
  BY DEF NoHttp, IsHttp, HttpFields
<1> QED
  BY <1>1 DEF Fresh, Shaped, CspFields, SameRules

LEMMA NoConnShaped == IsConn(NoConn) /\ ~NoConn.tls
  BY DEF NoConn, IsConn, ConnFields

LEMMA InitRequest == Init => IInv
<1> SUFFICES ASSUME Init PROVE IInv
  OBVIOUS
<1>1. IsHttp(NoHttp) /\ ~NoHttp.client_ssl
  BY DEF NoHttp, IsHttp, HttpFields
<1>2. Shaped(Csp) /\ Csp.http = NoHttp /\ Csp.conn = NoConn
  BY <1>1, NoConnShaped DEF Csp, Shaped, CspFields
<1>3. csp = Csp /\ at = "starting"
  BY DEF Init
<1> QED
  BY <1>1, <1>2, <1>3, NoConnShaped DEF IInv, Approved, Connecting

\* Where little is promised.
LEMMA IdleKeeps ==
  ASSUME Shaped(csp'), ~csp'.conn.tls, ~csp'.http.client_ssl, ~csp'.rewritten, at' = "idle"
  PROVE  IInv'
  BY DEF IInv, Approved, Connecting

LEMMA EndKeeps ==
  ASSUME Shaped(csp'), csp'.conn.tls => csp'.http.client_ssl,
         at' \in {"exited", "handshake", "encrypted", "waiting", "answered", "closed"}
  PROVE  IInv'
  BY DEF IInv, Approved, Connecting

LEMMA LoadFilesStep == ASSUME IInv, LoadFiles PROVE IInv'
<1>1. Shaped(csp) /\ at = "starting" /\ ~csp.conn.tls
  BY DEF LoadFiles, IInv
<1>2. PICK config \in {load_config(disk.config)} : Loads(config, ActionsFiles(config), TrustFile(config))
  BY DEF LoadFiles
<1> DEFINE read == ActionsFiles(config)
           trust == TrustFile(config)
           Loaded(toggled) ==
             [Fresh(csp, toggled) EXCEPT !.config = config, !.files = read.list, !.trust = trust,
                                         !.keepAliveTimeout = config.number["keep-alive-timeout"]]
<1>3. \/ at' = "idle" /\ \E toggled \in BOOLEAN : csp' = Loaded(toggled)
      \/ at' = "exited" /\ csp' = csp
  BY <1>2 DEF Loads
<1> HIDE DEF read, trust
<1>4. CASE at' = "idle" /\ \E toggled \in BOOLEAN : csp' = Loaded(toggled)
  <2>1. PICK toggled \in BOOLEAN : csp' = Loaded(toggled)
    BY <1>4
  <2> DEFINE fresh == Fresh(csp, toggled)
  <2>2. Shaped(fresh) /\ fresh.conn = csp.conn /\ ~fresh.rewritten /\ ~fresh.http.client_ssl
    BY <1>1, FreshShaped
  <2>3. csp' = [fresh EXCEPT !.config = config, !.files = read.list, !.trust = trust,
                             !.keepAliveTimeout = config.number["keep-alive-timeout"]]
    BY <2>1
  <2> HIDE DEF fresh
  <2>4. Shaped(csp') /\ csp'.conn = csp.conn /\ ~csp'.rewritten /\ ~csp'.http.client_ssl
    BY <2>2, <2>3 DEF Shaped, CspFields
  <2> QED
    BY <1>1, <1>4, <2>4, IdleKeeps
<1>5. CASE at' = "exited" /\ csp' = csp
  BY <1>1, <1>5, EndKeeps
<1> QED
  BY <1>3, <1>4, <1>5

\* What a step of chat() leads to.
LEMMA DoesOne ==
  ASSUME NEW a, NEW where, Does(a, where)
  PROVE  csp' = a.csp /\ at' = IF a.rsp = NoResponse THEN where ELSE "closed"
  BY DEF Does, Ends
LEMMA CrunchOne ==
  ASSUME NEW a, NEW where, Crunch(a, where)
  PROVE  csp' = a.csp /\ at' = IF a.rsp = NoResponse THEN where ELSE "answered"
  BY DEF Crunch, Ends

LEMMA ReceiveRequestStep == ASSUME IInv, ReceiveRequest PROVE IInv'
<1>1. Shaped(csp) /\ at = "idle" /\ ~csp.conn.tls /\ ~csp.http.client_ssl /\ ~csp.rewritten
  BY DEF ReceiveRequest, IInv
<1>2. PICK r \in Requests, tags \in ClientTagSets :
        /\ asked' = r
        /\ Does(receive_client_request([csp EXCEPT !.clientTags = tags, !.clientAddress = TRUE], r), "received")
  BY DEF ReceiveRequest
<1> DEFINE c == [csp EXCEPT !.clientTags = tags, !.clientAddress = TRUE]
           a == receive_client_request(c, r)
<1>3. Kept(csp, c)
  BY <1>1 DEF Kept, Shaped, CspFields
<1>4. csp' = a.csp /\ at' = IF a.rsp = NoResponse THEN "received" ELSE "closed"
  BY <1>2, DoesOne
<1> HIDE DEF c
<1>5. Comes(c, r, a)
  BY <1>1, <1>3, RequestReceived DEF Kept
<1> HIDE DEF a
<1>6. Shaped(csp') /\ csp'.conn = csp.conn /\ ~csp'.rewritten /\ ~csp'.http.client_ssl
  BY <1>1, <1>3, <1>4, <1>5 DEF Comes, Kept
<1>7. CASE a.rsp = NoResponse
  <2>1. Settled(csp'.http, csp'.head) /\ AsAsked(csp'.http, asked', FALSE) /\ at' = "received"
    BY <1>2, <1>4, <1>5, <1>7 DEF Comes
  <2>2. csp'.http.client_ssl = FALSE
    BY <1>6 DEF Shaped, IsHttp
  <2> QED
    BY <1>1, <1>6, <2>1, <2>2 DEF IInv, Approved, Connecting
<1>8. CASE a.rsp # NoResponse
  BY <1>1, <1>4, <1>6, <1>8, EndKeeps
<1> QED
  BY <1>7, <1>8

LEMMA ParseRequestStep == ASSUME IInv, ParseRequest PROVE IInv'
<1> DEFINE a == parse_client_request(csp)
<1>1. /\ Shaped(csp) /\ at = "received" /\ ~csp.conn.tls /\ ~csp.http.client_ssl /\ ~csp.rewritten
      /\ Settled(csp.http, csp.head) /\ AsAsked(csp.http, asked, csp.http.client_ssl)
  BY DEF ParseRequest, IInv
<1>2. csp' = a.csp /\ at' = (IF a.rsp = NoResponse THEN "parsed" ELSE "closed") /\ asked' = asked
  BY DoesOne DEF ParseRequest, Same
<1>3. Works(csp, a)
  BY <1>1, RequestWorks
<1> HIDE DEF a
<1>4. /\ Shaped(csp') /\ csp'.conn = csp.conn /\ ~csp'.http.client_ssl
      /\ ~csp'.rewritten => csp'.http = csp.http
  BY <1>2, <1>3 DEF Works
<1>5. CASE a.rsp = NoResponse
  BY <1>1, <1>2, <1>4, <1>5 DEF IInv, Approved, Connecting
<1>6. CASE a.rsp # NoResponse
  BY <1>1, <1>2, <1>4, <1>6, EndKeeps
<1> QED
  BY <1>5, <1>6

\* t is s on its way to the same place, with TLS or not.
Adjusted(s, t) ==
  /\ Shaped(t) /\ t.conn = s.conn /\ t.rewritten = s.rewritten
  /\ t.http.host = s.http.host /\ t.http.port = s.http.port /\ t.http.hostport = s.http.hostport
  /\ Inspects(t) => t.http.client_ssl
  /\ SameRules(s, t) /\ t.head = s.head /\ t.tags = s.tags /\ t.body = s.body
  /\ t.action \in {s.action, [s.action EXCEPT !.flags = @ \cup {"block"}]}

LEMMA InspectionAdjusts ==
  ASSUME NEW c, Shaped(c)
  PROVE  Adjusted(c, Inspection(c)) /\ (Inspection(c).http.client_ssl => ~Inspection(c).tunnel)
<1> DEFINE tunnel == c.http.ssl /\ ~On(c, "https-inspection") /\ ~cgi_page_requested(c.http.host)
           ours == c.http.ssl /\ ~tunnel
           verify == c.dontVerify \/ (c.http.ssl /\ On(c, "ignore-certificate-errors"))
           t == [c EXCEPT !.tunnel = tunnel, !.http.client_ssl = ours, !.http.server_ssl = ours,
                          !.dontVerify = verify]
<1>1. Inspection(c) = t
  BY DEF Inspection
<1>2. ours \in BOOLEAN /\ (c.http.ssl /\ ~tunnel => ours) /\ (ours => ~tunnel)
  OBVIOUS
<1> HIDE DEF tunnel, ours, verify
<1>3. /\ Shaped(t) /\ t.conn = c.conn /\ t.rewritten = c.rewritten /\ t.tunnel = tunnel
      /\ t.http.host = c.http.host /\ t.http.port = c.http.port /\ t.http.hostport = c.http.hostport /\ t.http.ssl = c.http.ssl
      /\ t.http.client_ssl = ours
      /\ SameRules(c, t) /\ t.head = c.head /\ t.tags = c.tags /\ t.body = c.body /\ t.action = c.action
  BY <1>2 DEF Shaped, CspFields, IsHttp, HttpFields, SameRules
<1> HIDE DEF t
<1> QED
  BY <1>1, <1>2, <1>3 DEF Adjusted, Inspects

LEMMA PortAdjusts ==
  ASSUME NEW c, Shaped(c), Inspects(c) => c.http.client_ssl
  PROVE  Adjusted(c, PortChecked(c)) /\ (PortChecked(c).http.client_ssl => PortChecked(c) = c)
<1> DEFINE t == [c EXCEPT !.action.flags = @ \cup {"block"}, !.http.ssl = FALSE,
                          !.http.client_ssl = FALSE, !.http.server_ssl = FALSE]
<1>1. PortChecked(c) = c \/ PortChecked(c) = t
  BY DEF PortChecked
<1>2. Adjusted(c, c)
  BY DEF Adjusted, SameRules
<1>3. /\ Shaped(t) /\ t.conn = c.conn /\ t.rewritten = c.rewritten
      /\ t.http.host = c.http.host /\ t.http.port = c.http.port /\ t.http.hostport = c.http.hostport /\ ~t.http.ssl
      /\ ~t.http.client_ssl
      /\ SameRules(c, t) /\ t.head = c.head /\ t.tags = c.tags /\ t.body = c.body
      /\ t.action = [c.action EXCEPT !.flags = @ \cup {"block"}]
  BY DEF Shaped, CspFields, IsHttp, HttpFields, SameRules
<1> HIDE DEF t
<1>4. Adjusted(c, t)
  BY <1>3 DEF Adjusted, Inspects
<1> QED
  BY <1>1, <1>2, <1>3, <1>4

\* The crunchers let it pass.
LEMMA JudgedPasses ==
  ASSUME NEW c, NEW a, Judged(c, a), a.rsp = NoResponse, Inspects(c) => c.http.client_ssl
  PROVE  Passed(a.csp)
  BY DEF Judged, Heard, Kept, Passed, Heeded, On, Inspects, ForAnotherSite

LEMMA DecideStep == ASSUME IInv, Decide PROVE IInv'
<1> DEFINE i == Inspection(csp)
           c == PortChecked(i)
           a == crunch_response_triggered(c)
<1>1. /\ Shaped(csp) /\ at = "parsed" /\ ~csp.conn.tls /\ ~csp.http.client_ssl
      /\ ~csp.rewritten => AsAsked(csp.http, asked, FALSE)
  <2>1. Shaped(csp) /\ at = "parsed" /\ ~csp.conn.tls /\ ~csp.http.client_ssl
    BY DEF Decide, IInv
  <2>2. csp.http.client_ssl = FALSE
    BY <2>1 DEF Shaped, IsHttp
  <2>3. ~csp.rewritten => AsAsked(csp.http, asked, csp.http.client_ssl)
    BY <2>1 DEF IInv
  <2> QED
    BY <2>1, <2>2, <2>3
<1>2. Decided(c) /\ asked' = asked
  BY DEF Decide, Same
<1>3. Adjusted(csp, i)
  BY <1>1, InspectionAdjusts
<1> HIDE DEF i
<1>4. Adjusted(i, c)
  BY <1>3, PortAdjusts DEF Adjusted
<1> HIDE DEF c
<1>5. Judged(c, a)
  BY <1>4, RequestJudged DEF Adjusted
<1> HIDE DEF a
<1>6. CASE c.http.client_ssl
  <2>1. csp' = c /\ at' = "handshake"
    BY <1>2, <1>6 DEF Decided, Ends
  <2> QED
    BY <1>4, <1>6, <2>1, EndKeeps DEF Adjusted
<1>7. CASE ~c.http.client_ssl
  <2>1. csp' = a.csp /\ at' = IF a.rsp = NoResponse THEN "body" ELSE "answered"
    BY <1>2, <1>7, CrunchOne DEF Decided, a
  <2>2. /\ Shaped(csp') /\ csp'.conn = csp.conn /\ csp'.http = c.http /\ csp'.rewritten = csp.rewritten
        /\ csp'.http.host = csp.http.host /\ csp'.http.port = csp.http.port
    BY <1>3, <1>4, <1>5, <2>1 DEF Judged, Heard, Kept, Adjusted
  <2>3. csp'.http.client_ssl = FALSE
    BY <1>7, <2>2 DEF Shaped, IsHttp
  <2>4. ~csp'.conn.tls
    BY <1>1, <2>2
  <2>5. CASE a.rsp = NoResponse
    <3>1. Passed(csp')
      BY <1>4, <1>5, <2>1, <2>5, JudgedPasses DEF Adjusted
    <3>2. ~csp'.rewritten => AsAsked(csp'.http, asked', csp'.http.client_ssl)
      BY <1>1, <1>2, <2>2, <2>3 DEF AsAsked
    <3>3. at' = "body"
      BY <2>1, <2>5
    <3> QED
      BY <2>2, <2>3, <2>4, <3>1, <3>2, <3>3 DEF IInv, Approved, Connecting
  <2>6. CASE a.rsp # NoResponse
    BY <2>1, <2>2, <2>4, <2>6, EndKeeps
  <2> QED
    BY <2>5, <2>6
<1> QED
  BY <1>6, <1>7

LEMMA HandshakeStep == ASSUME IInv, Handshake PROVE IInv'
<1>1. csp' = csp /\ at' \in {"encrypted", "closed"}
  BY DEF Handshake, Ends
<1> QED
  BY <1>1, EndKeeps DEF IInv

LEMMA ReceiveInnerStep == ASSUME IInv, ReceiveInner PROVE IInv'
<1> DEFINE where == CASE at = "encrypted" -> "body" [] Opened(csp) -> "body-again" [] OTHER -> "closed"
           With(tags) == [csp EXCEPT !.clientAddress = TRUE, !.clientTags = IF csp.clientAddress THEN @ ELSE tags]
<1>1. Shaped(csp) /\ (csp.conn.tls => csp.http.client_ssl)
  BY DEF IInv
<1>2. PICK r \in InnerRequests, tags \in ClientTagSets :
        asked' = r /\ Asks(process_encrypted_request_headers(With(tags), r), where)
  BY DEF ReceiveInner
<1>3. where \in {"body", "body-again", "closed"}
  OBVIOUS
<1> HIDE DEF where
<1> DEFINE c == With(tags)
           a == process_encrypted_request_headers(c, r)
           b == crunch_response_triggered(a.csp)
<1>4. Kept(csp, c)
  BY <1>1 DEF Kept, Shaped, CspFields
<1> HIDE DEF With
<1> HIDE DEF c
<1>5. ComesInside(c, r, a)
  BY <1>4, InnerComes DEF Kept
<1>6. Asks(a, where)
  BY <1>2 DEF c
<1> HIDE DEF a
<1>7. a.csp.conn.tls => a.csp.http.client_ssl
  BY <1>1, <1>4, <1>5 DEF Kept, ComesInside
<1>8. CASE a.rsp # NoResponse
  <2>1. csp' = a.csp /\ at' = "closed"
    BY <1>6, <1>8 DEF Asks, Ends
  <2> QED
    BY <1>5, <1>7, <2>1, EndKeeps DEF ComesInside
<1>9. CASE a.rsp = NoResponse
  <2>1. csp' = b.csp /\ at' = IF b.rsp = NoResponse THEN where ELSE "answered"
    BY <1>6, <1>9, CrunchOne DEF Asks
  <2>2. Judged(a.csp, b)
    BY <1>5, RequestJudged DEF ComesInside
  <2> HIDE DEF b
  <2>3. Shaped(csp') /\ csp'.http = a.csp.http /\ csp'.conn = a.csp.conn /\ csp'.rewritten = a.csp.rewritten
    BY <2>1, <2>2 DEF Judged, Heard, Kept
  <2>4. a.csp.http.client_ssl = TRUE
    BY <1>5, <1>9 DEF ComesInside, Shaped, IsHttp
  <2>5. CASE b.rsp = NoResponse /\ where # "closed"
    <3>1. Passed(csp')
      BY <2>1, <2>2, <2>4, <2>5, JudgedPasses
    <3>2. ~csp'.rewritten => AsAsked(csp'.http, asked', csp'.http.client_ssl)
      BY <1>2, <1>5, <1>9, <2>3, <2>4 DEF ComesInside
    <3>3. at' \in {"body", "body-again"}
      BY <1>3, <2>1, <2>5
    <3> QED
      BY <1>7, <2>3, <3>1, <3>2, <3>3 DEF IInv, Approved, Connecting
  <2>6. CASE ~(b.rsp = NoResponse /\ where # "closed")
    <3>1. at' \in {"answered", "closed"}
      BY <2>1, <2>6
    <3> QED
      BY <1>7, <2>3, <3>1, EndKeeps
  <2> QED
    BY <2>5, <2>6
<1> QED
  BY <1>8, <1>9

\* t is s with another body or another head.
Stays(s, t) == /\ Shaped(t)
               /\ t.http = s.http /\ t.conn = s.conn /\ t.rewritten = s.rewritten
               /\ t.config = s.config /\ t.files = s.files /\ t.tunnel = s.tunnel
Passes(s, t) == Stays(s, t) /\ t.action = s.action /\ t.flags = s.flags /\ t.tags = s.tags

LEMMA PassesOn == ASSUME NEW s, NEW t, Passes(s, t), Passed(s) PROVE Passed(t)
  BY DEF Passes, Stays, Passed, Heeded, On, Inspects, ForAnotherSite

\* A step of a request that passed.
LEMMA PassedKeeps ==
  ASSUME IInv, at \in Approved, NEW t, Passed(t), Stays(csp, t), csp' = t, asked' = asked,
         at' \in {"body", "body-again", "forward", "continue"}
  PROVE  IInv'
  BY DEF IInv, Approved, Connecting, Stays

LEMMA ApprovedFacts ==
  ASSUME IInv, at \in Approved
  PROVE  /\ Shaped(csp) /\ Passed(csp) /\ (csp.conn.tls => csp.http.client_ssl)
         /\ ~csp.rewritten => AsAsked(csp.http, asked, csp.http.client_ssl)
  BY DEF IInv

LEMMA StaysEnds ==
  ASSUME IInv, Stays(csp, csp'),
         at' \in {"exited", "handshake", "encrypted", "waiting", "answered", "closed"}
  PROVE  IInv'
  BY EndKeeps DEF IInv, Stays

LEMMA SkipBodyStep == ASSUME IInv, SkipBody PROVE IInv'
<1>1. at \in Approved /\ csp' = csp /\ asked' = asked /\ at' \in {"forward", "continue"}
  BY DEF SkipBody, Ends, Same, AfterBody, Approved
<1>2. Passed(csp) /\ Stays(csp, csp)
  BY <1>1, ApprovedFacts DEF Stays
<1> QED
  BY <1>1, <1>2, PassedKeeps

LEMMA BodyLostStep == ASSUME IInv, BodyLost PROVE IInv'
<1>1. csp' = csp /\ at' = "closed"
  BY DEF BodyLost, Ends
<1>2. Stays(csp, csp')
  BY <1>1 DEF IInv, Stays
<1> QED
  BY <1>1, <1>2, StaysEnds

LEMMA RefilledPasses ==
  ASSUME NEW c, Shaped(c), NEW body
  PROVE  Passes(c, Refilled(c, body).csp)
<1> DEFINE s == [c EXCEPT !.body = body, !.expected = 0]
           t == [s EXCEPT !.https["Content-Length"] = body.size]
           u == Says(s, "Content-Length", body.size)
<1>1. Passes(c, s)
  BY DEF Passes, Stays, Shaped, CspFields
<1>2. Refilled(c, body) = Goes(s) \/ Refilled(c, body) = update_client_headers(s, body.size)
  BY DEF Refilled
<1> HIDE DEF s
<1>3. Passes(s, t)
  BY <1>1 DEF Passes, Stays, Shaped, CspFields
<1>4. Passes(s, u)
  BY <1>1 DEF Passes, Stays, Shaped, CspFields, Says
<1>5. \/ update_client_headers(s, body.size) = Goes(t) \/ update_client_headers(s, body.size) = Goes(u)
      \/ update_client_headers(s, body.size) = Tells(s, Error(0, "nothing"))
  BY DEF update_client_headers
<1> HIDE DEF t, u
<1>6. \A x, rsp : Goes(x).csp = x /\ Tells(x, rsp).csp = x
  BY DEF Goes, Tells
<1>7. Refilled(c, body).csp = s \/ Refilled(c, body).csp = t \/ Refilled(c, body).csp = u
  BY <1>2, <1>5, <1>6
<1>8. Passes(c, t) /\ Passes(c, u)
  BY <1>1, <1>3, <1>4 DEF Passes, Stays
<1> QED
  BY <1>1, <1>7, <1>8

\* After the body taggers the crunchers are asked again.
LEMMA TaggedPasses ==
  ASSUME NEW c, Shaped(c), Passed(c)
  PROVE  /\ Kept(c, BodyTagged(c).csp)
         /\ BodyTagged(c).rsp = NoResponse => Passed(BodyTagged(c).csp)
<1> DEFINE t == execute_client_body_taggers(c, c.body)
           a == crunch_response_triggered(t)
<1>1. Kept(c, t) /\ t.tunnel = c.tunnel
  BY DEF execute_client_body_taggers, Rates, Kept, Shaped, CspFields
<1> HIDE DEF t
<1>2. Judged(t, a)
  BY <1>1, RequestJudged DEF Kept
<1> HIDE DEF a
<1>3. Inspects(t) => t.http.client_ssl
  BY <1>1 DEF Kept, Passed, Inspects
<1>4. a.rsp = NoResponse => Passed(a.csp)
  BY <1>2, <1>3, JudgedPasses
<1>5. Kept(c, a.csp)
  BY <1>1, <1>2 DEF Judged, Heard, Kept
<1>6. BodyTagged(c) = Goes(c) \/ BodyTagged(c) = a
  BY DEF BodyTagged, TaggersHeeded, a, t
<1> QED
  BY <1>4, <1>5, <1>6 DEF Goes, Kept

LEMMA ReadBodyStep == ASSUME IInv, ReadBody PROVE IInv'
<1> DEFINE a == BodyTagged(csp)
           b == BodyFiltered(a.csp)
<1>1. at \in Approved /\ asked' = asked /\ AfterBody \in {"forward", "continue"} /\ Filters(a)
  BY DEF ReadBody, Same, AfterBody, Approved
<1>2. Shaped(csp) /\ Passed(csp)
  BY <1>1, ApprovedFacts
<1>3. Kept(csp, a.csp) /\ (a.rsp = NoResponse => Passed(a.csp))
  BY <1>2, TaggedPasses
<1> HIDE DEF a
<1>4. CASE a.rsp # NoResponse
  <2>1. csp' = a.csp /\ at' = "answered"
    BY <1>1, <1>4, CrunchOne DEF Filters
  <2> QED
    BY <1>3, <2>1, StaysEnds DEF Kept, Stays
<1>5. CASE a.rsp = NoResponse
  <2>1. csp' = b.csp /\ at' = IF b.rsp = NoResponse THEN AfterBody ELSE "closed"
    BY <1>1, <1>5, DoesOne DEF Filters
  <2>2. Passes(a.csp, b.csp)
    BY <1>3, RefilledPasses DEF BodyFiltered, Kept
  <2> HIDE DEF b
  <2>3. Stays(csp, b.csp) /\ Passed(b.csp)
    BY <1>3, <1>5, <2>2, PassesOn DEF Passes, Stays, Kept
  <2>4. CASE b.rsp = NoResponse
    BY <1>1, <2>1, <2>3, <2>4, PassedKeeps
  <2>5. CASE b.rsp # NoResponse
    BY <2>1, <2>3, <2>5, StaysEnds
  <2> QED
    BY <2>4, <2>5
<1> QED
  BY <1>4, <1>5

-----------------------------------------------------------------------------
(* On the way to a server.                                                 *)

LEMMA LineBuilt ==
  ASSUME NEW c, Shaped(c), NEW fwd
  PROVE  LET t == build_request_line(c, fwd)
         IN  /\ Shaped(t) /\ t.conn = c.conn /\ t.rewritten = c.rewritten
             /\ t.tunnel = c.tunnel /\ t.action = c.action /\ t.flags = c.flags
             /\ t.http.host = c.http.host /\ t.http.port = c.http.port /\ t.http.path = c.http.path
             /\ t.http.ssl = c.http.ssl /\ t.http.hostport = c.http.hostport /\ t.http.client_ssl = c.http.client_ssl
             /\ SameRules(c, t) /\ t.https = c.https /\ t.tags = c.tags
             /\ \E line : t.head = Listed(c.head, line)
<1> DEFINE version == IF On(c, "downgrade-http-version") THEN "1.0" ELSE c.http.version
           s == [c EXCEPT !.http.version = version]
<1>1. /\ Shaped(s) /\ s.conn = c.conn /\ s.rewritten = c.rewritten
      /\ s.tunnel = c.tunnel /\ s.action = c.action /\ s.flags = c.flags
      /\ s.http.host = c.http.host /\ s.http.port = c.http.port /\ s.http.path = c.http.path
      /\ s.http.ssl = c.http.ssl /\ s.http.hostport = c.http.hostport /\ s.http.client_ssl = c.http.client_ssl
      /\ SameRules(c, s) /\ s.https = c.https /\ s.tags = c.tags /\ s.head = c.head
  BY DEF Shaped, CspFields, IsHttp, HttpFields, SameRules
<1>2. \E line : build_request_line(c, fwd) = Says(s, "line", line)
  BY DEF build_request_line
<1> HIDE DEF s
<1>3. PICK line : build_request_line(c, fwd) = Says(s, "line", line)
  BY <1>2
<1> DEFINE t == Says(s, "line", line)
<1>4. /\ Shaped(t) /\ t.conn = s.conn /\ t.rewritten = s.rewritten /\ t.http = s.http
      /\ t.tunnel = s.tunnel /\ t.action = s.action /\ t.flags = s.flags
      /\ SameRules(s, t) /\ t.https = s.https /\ t.tags = s.tags
      /\ t.head = Listed(s.head, line)
  BY <1>1 DEF Shaped, CspFields, Says, Listed, SameRules
<1> HIDE DEF t
<1> QED
  BY <1>1, <1>3, <1>4 DEF t, SameRules

\* What is needed of a connection that is used.
LEMMA ConnectingKeeps ==
  ASSUME Shaped(csp'), csp'.conn.tls => csp'.http.client_ssl, Passed(csp'), ToItsHost(csp'),
         ~csp'.rewritten => AsAsked(csp'.http, asked', csp'.http.client_ssl),
         at' \in Connecting,
         at' \in {"ask-parent", "server-handshake"} => csp'.http.client_ssl
  PROVE  IInv'
  BY DEF IInv, Approved, Connecting

LEMMA ConnectStep == ASSUME IInv, Connect PROVE IInv'
<1>1. at \in Approved /\ asked' = asked
  BY DEF Connect, Same, Approved
<1>2. PICK fwd \in {forward_url(csp)} : Reaches(build_request_line(csp, fwd), fwd)
  BY DEF Connect
<1> DEFINE c == build_request_line(csp, fwd)
<1>3. /\ Shaped(csp) /\ Passed(csp) /\ (csp.conn.tls => csp.http.client_ssl)
      /\ ~csp.rewritten => AsAsked(csp.http, asked, csp.http.client_ssl)
  BY <1>1, ApprovedFacts
<1>4. /\ Shaped(c) /\ c.conn = csp.conn /\ c.rewritten = csp.rewritten
      /\ c.tunnel = csp.tunnel /\ c.action = csp.action /\ c.flags = csp.flags
      /\ c.http.host = csp.http.host /\ c.http.port = csp.http.port /\ c.http.path = csp.http.path
      /\ c.http.ssl = csp.http.ssl /\ c.http.client_ssl = csp.http.client_ssl
  BY <1>3, LineBuilt
<1> HIDE DEF c
<1>5. Passed(c) /\ (c.conn.tls => c.http.client_ssl)
  BY <1>3, <1>4 DEF Passed, Heeded, On, Inspects, ForAnotherSite
<1>6. ~c.rewritten => AsAsked(c.http, asked', c.http.client_ssl)
  BY <1>1, <1>3, <1>4 DEF AsAsked
<1>7. CASE c.conn.open /\ connection_destination_matches(c.conn, c.http, fwd)
  <2>1. csp' = c /\ at' = "send"
    BY <1>2, <1>7 DEF Reaches, Ends, c
  <2>2. ToItsHost(c)
    BY <1>7 DEF connection_destination_matches, ToItsHost
  <2> QED
    BY <1>4, <1>5, <1>6, <2>1, <2>2, ConnectingKeeps DEF Connecting
<1>8. CASE ~(c.conn.open /\ connection_destination_matches(c.conn, c.http, fwd))
  <2>1. Connects(c, fwd)
    BY <1>2, <1>8 DEF Reaches, c
  <2> DEFINE t == Connected(c, fwd, FALSE)
             u == [c EXCEPT !.conn = NoConn]
             where == CASE Inspects(c) /\ Parent(fwd) -> "ask-parent"
                        [] Inspects(c) /\ ~Parent(fwd) -> "server-handshake"
                        [] OTHER -> "send"
  <2>2. \/ csp' = t /\ at' = where
        \/ csp' = u /\ at' = "closed"
    BY <2>1 DEF Connects, Ends
  <2>3. where \in Connecting /\ (where \in {"ask-parent", "server-handshake"} => Inspects(c))
    BY DEF Connecting
  <2> HIDE DEF where
  <2>4. CASE csp' = t /\ at' = where
    <3> DEFINE conn == [open |-> TRUE, tls |-> FALSE, host |-> c.http.host, port |-> c.http.port, fwd |-> fwd]
    <3>1. IsConn(conn) /\ ~conn.tls /\ conn.host = c.http.host /\ conn.port = c.http.port
      BY DEF IsConn, ConnFields
    <3>2. t = [c EXCEPT !.conn = conn]
      BY DEF Connected
    <3> HIDE DEF conn, t
    <3>3. /\ Shaped(t) /\ t.conn = conn /\ t.http = c.http /\ t.rewritten = c.rewritten
          /\ t.tunnel = c.tunnel /\ t.action = c.action /\ t.flags = c.flags
      BY <1>4, <3>1, <3>2 DEF Shaped, CspFields
    <3>4. Passed(t) /\ ToItsHost(t) /\ ~t.conn.tls
      BY <1>5, <3>1, <3>3 DEF Passed, Heeded, On, Inspects, ToItsHost, ForAnotherSite
    <3>5. where \in {"ask-parent", "server-handshake"} => t.http.client_ssl
      BY <1>5, <2>3, <3>3 DEF Passed
    <3>6. ~t.rewritten => AsAsked(t.http, asked', t.http.client_ssl)
      BY <1>6, <3>3
    <3> QED
      BY <2>3, <2>4, <3>3, <3>4, <3>5, <3>6, ConnectingKeeps
  <2>5. CASE csp' = u /\ at' = "closed"
    <3>1. Shaped(u) /\ u.conn = NoConn
      BY <1>4, NoConnShaped DEF Shaped, CspFields
    <3> QED
      BY <2>5, <3>1, NoConnShaped, EndKeeps
  <2> QED
    BY <2>2, <2>4, <2>5
<1> QED
  BY <1>7, <1>8

LEMMA AskParentStep == ASSUME IInv, AskParent PROVE IInv'
<1> DEFINE t == [csp EXCEPT !.head = <<>>]
<1>1. /\ at = "ask-parent" /\ csp' = t /\ asked' = asked
      /\ at' \in {"server-handshake", "closed"}
  BY DEF AskParent, Ends, Same
<1>2. at \in Approved
  BY <1>1 DEF Approved, Connecting
<1>3. /\ Shaped(csp) /\ Passed(csp) /\ (csp.conn.tls => csp.http.client_ssl)
      /\ ~csp.rewritten => AsAsked(csp.http, asked, csp.http.client_ssl)
  BY <1>2, ApprovedFacts
<1>4. Passes(csp, t)
  BY <1>3 DEF Passes, Stays, Shaped, CspFields
<1> HIDE DEF t
<1>5. Passed(t)
  BY <1>3, <1>4, PassesOn
<1>6. ToItsHost(csp) /\ csp.http.client_ssl
  BY <1>1 DEF IInv, Connecting
<1>7. CASE at' = "server-handshake"
  BY <1>1, <1>3, <1>4, <1>5, <1>6, <1>7, ConnectingKeeps DEF Passes, Stays, ToItsHost, Connecting
<1>8. CASE at' = "closed"
  BY <1>1, <1>4, <1>8, StaysEnds DEF Passes
<1> QED
  BY <1>1, <1>7, <1>8

LEMMA ServerHandshakeStep == ASSUME IInv, ServerHandshake PROVE IInv'
<1> DEFINE t == [csp EXCEPT !.conn.tls = TRUE]
<1>1. /\ at = "server-handshake" /\ asked' = asked
      /\ \/ csp' = csp /\ at' = "closed"
         \/ csp' = t /\ at' = "send"
  BY DEF ServerHandshake, Ends, Same
<1>2. at \in Approved
  BY <1>1 DEF Approved, Connecting
<1>3. /\ Shaped(csp) /\ Passed(csp)
      /\ ~csp.rewritten => AsAsked(csp.http, asked, csp.http.client_ssl)
  BY <1>2, ApprovedFacts
<1>4. ToItsHost(csp) /\ csp.http.client_ssl
  BY <1>1 DEF IInv, Connecting
<1>5. CASE csp' = csp /\ at' = "closed"
  BY <1>3, <1>5, StaysEnds DEF Stays
<1>6. CASE csp' = t /\ at' = "send"
  <2>1. /\ Shaped(t) /\ t.http = csp.http /\ t.rewritten = csp.rewritten /\ t.tunnel = csp.tunnel
        /\ t.action = csp.action /\ t.flags = csp.flags
        /\ t.conn.host = csp.conn.host /\ t.conn.port = csp.conn.port
    BY <1>3 DEF Shaped, CspFields, IsConn, ConnFields
  <2> HIDE DEF t
  <2>2. Passed(t) /\ ToItsHost(t)
    BY <1>3, <1>4, <2>1 DEF Passed, Heeded, On, Inspects, ToItsHost, ForAnotherSite
  <2> QED
    BY <1>1, <1>3, <1>4, <1>6, <2>1, <2>2, ConnectingKeeps DEF Connecting
<1> QED
  BY <1>1, <1>5, <1>6

\* What was sent.
LEMMA SentKeeps ==
  ASSUME Shaped(csp'), csp'.conn.tls => csp'.http.client_ssl, Passed(csp'),
         ~csp'.rewritten => AsAsked(csp'.http, asked', csp'.http.client_ssl),
         wire'.host = csp'.http.host, wire'.port = csp'.http.port,
         wire'.tls => csp'.http.client_ssl, at' = "sent"
  PROVE  IInv'
  BY DEF IInv, Approved, Connecting

LEMMA SendsFacts ==
  ASSUME NEW c, NEW head, Sends(c, head)
  PROVE  wire'.host = c.conn.host /\ wire'.port = c.conn.port /\ wire'.tls = c.conn.tls
  BY DEF Sends

LEMMA SendStep == ASSUME IInv, Send PROVE IInv'
<1> DEFINE t == [csp EXCEPT !.head = <<>>]
<1>1. at = "send" /\ at' = "sent" /\ asked' = asked /\ (csp' = t \/ csp' = csp)
  BY DEF Send
<1>2. wire'.host = csp.conn.host /\ wire'.port = csp.conn.port /\ wire'.tls = csp.conn.tls
  BY SendsFacts DEF Send
<1>3. at \in Approved
  BY <1>1 DEF Approved, Connecting
<1>4. /\ Shaped(csp) /\ Passed(csp) /\ (csp.conn.tls => csp.http.client_ssl)
      /\ ~csp.rewritten => AsAsked(csp.http, asked, csp.http.client_ssl)
  BY <1>3, ApprovedFacts
<1>5. Passes(csp, t) /\ Passes(csp, csp)
  BY <1>4 DEF Passes, Stays, Shaped, CspFields
<1> HIDE DEF t
<1>6. Passes(csp, csp') /\ Passed(csp')
  BY <1>1, <1>4, <1>5, PassesOn
<1>7. csp.conn.host = csp.http.host /\ csp.conn.port = csp.http.port
  BY <1>1 DEF IInv, Connecting, ToItsHost
<1> QED
  BY <1>1, <1>2, <1>4, <1>6, <1>7, SentKeeps DEF Passes, Stays

LEMMA SendFailsStep == ASSUME IInv, SendFails PROVE IInv'
<1>1. csp' = csp /\ at' = "closed"
  BY DEF SendFails, Ends
<1>2. Stays(csp, csp')
  BY <1>1 DEF IInv, Stays
<1> QED
  BY <1>1, <1>2, StaysEnds

LEMMA ContinueInnerStep == ASSUME IInv, ContinueInner PROVE IInv'
<1>1. at = "continue" /\ asked' = asked /\ csp' = csp
  BY DEF ContinueInner
<1>2. at \in Approved
  BY <1>1 DEF Approved
<1>3. /\ Shaped(csp) /\ Passed(csp) /\ (csp.conn.tls => csp.http.client_ssl)
      /\ ~csp.rewritten => AsAsked(csp.http, asked, csp.http.client_ssl)
  BY <1>2, ApprovedFacts
<1>4. CASE connection_destination_matches(csp.conn, csp.http, forward_url(csp))
  <2>1. at' = "sent" /\ wire'.host = csp.conn.host /\ wire'.port = csp.conn.port /\ wire'.tls = csp.conn.tls
    BY <1>4, SendsFacts DEF ContinueInner
  <2>2. csp.conn.host = csp.http.host /\ csp.conn.port = csp.http.port
    BY <1>4 DEF connection_destination_matches
  <2> QED
    BY <1>1, <1>3, <2>1, <2>2, SentKeeps
<1>5. CASE ~connection_destination_matches(csp.conn, csp.http, forward_url(csp))
  <2>1. at' = "closed"
    BY <1>5 DEF ContinueInner
  <2> QED
    BY <1>1, <1>3, <2>1, StaysEnds DEF Stays
<1> QED
  BY <1>4, <1>5

LEMMA AnswerStep == ASSUME IInv, Answer PROVE IInv'
<1>1. PICK conn \in {csp.conn, NoConn} : csp' = [csp EXCEPT !.conn = conn, !.dontVerify = FALSE]
  BY DEF Answer
<1>2. Shaped(csp) /\ (csp.conn.tls => csp.http.client_ssl)
  BY DEF IInv
<1>3. IsConn(conn) /\ (conn.tls => csp.http.client_ssl)
  BY <1>2, NoConnShaped DEF Shaped
<1>4. Shaped(csp') /\ csp'.conn = conn /\ csp'.http = csp.http
  BY <1>1, <1>2, <1>3 DEF Shaped, CspFields
<1>5. at' = "answered"
  BY DEF Answer
<1> QED
  BY <1>3, <1>4, <1>5, EndKeeps

LEMMA NextRequestStep == ASSUME IInv, NextRequest PROVE IInv'
<1>1. Shaped(csp) /\ (csp.conn.tls => csp.http.client_ssl)
  BY DEF IInv
<1>2. PICK toggled \in BOOLEAN : csp' = [Fresh(csp, toggled) EXCEPT !.http.client_ssl = csp.http.client_ssl]
  BY DEF NextRequest
<1> DEFINE fresh == Fresh(csp, toggled)
<1>3. Shaped(fresh) /\ fresh.conn = csp.conn /\ ~fresh.rewritten
  BY <1>1, FreshShaped
<1>4. csp' = [fresh EXCEPT !.http.client_ssl = csp.http.client_ssl]
  BY <1>2
<1> HIDE DEF fresh
<1>5. /\ Shaped(csp') /\ csp'.conn = csp.conn /\ ~csp'.rewritten
      /\ csp'.http.client_ssl = csp.http.client_ssl
  BY <1>1, <1>3, <1>4 DEF Shaped, CspFields, IsHttp, HttpFields
<1>6. at' = IF csp.http.client_ssl THEN "waiting" ELSE "idle"
  BY DEF NextRequest
<1>7. CASE csp.http.client_ssl
  BY <1>1, <1>5, <1>6, <1>7, EndKeeps
<1>8. CASE ~csp.http.client_ssl
  BY <1>1, <1>5, <1>6, <1>8, IdleKeeps
<1> QED
  BY <1>7, <1>8

LEMMA NextClientStep == ASSUME IInv, NextClient PROVE IInv'
<1>1. Shaped(csp) /\ at' = "idle"
  BY DEF IInv, NextClient
<1>2. PICK toggled \in BOOLEAN : csp' = [Fresh(csp, toggled) EXCEPT !.conn = NoConn, !.dontVerify = FALSE]
  BY DEF NextClient
<1> DEFINE fresh == Fresh(csp, toggled)
<1>3. Shaped(fresh) /\ ~fresh.rewritten /\ ~fresh.http.client_ssl
  BY <1>1, FreshShaped
<1>4. csp' = [fresh EXCEPT !.conn = NoConn, !.dontVerify = FALSE]
  BY <1>2
<1> HIDE DEF fresh
<1>5. /\ Shaped(csp') /\ csp'.conn = NoConn /\ ~csp'.rewritten /\ ~csp'.http.client_ssl
  BY <1>3, <1>4, NoConnShaped DEF Shaped, CspFields
<1> QED
  BY <1>1, <1>5, NoConnShaped, IdleKeeps

LEMMA RequestStep == IInv /\ [Next]_vars => IInv'
<1> SUFFICES ASSUME IInv, [Next]_vars PROVE IInv'
  OBVIOUS
<1>1. CASE LoadFiles        BY <1>1, LoadFilesStep
<1>2. CASE ReceiveRequest   BY <1>2, ReceiveRequestStep
<1>3. CASE ParseRequest     BY <1>3, ParseRequestStep
<1>4. CASE Decide           BY <1>4, DecideStep
<1>5. CASE Handshake        BY <1>5, HandshakeStep
<1>6. CASE ReceiveInner     BY <1>6, ReceiveInnerStep
<1>7. CASE SkipBody         BY <1>7, SkipBodyStep
<1>8. CASE BodyLost         BY <1>8, BodyLostStep
<1>9. CASE ReadBody         BY <1>9, ReadBodyStep
<1>10. CASE Connect         BY <1>10, ConnectStep
<1>11. CASE AskParent       BY <1>11, AskParentStep
<1>12. CASE ServerHandshake BY <1>12, ServerHandshakeStep
<1>13. CASE Send            BY <1>13, SendStep
<1>14. CASE SendFails       BY <1>14, SendFailsStep
<1>15. CASE ContinueInner   BY <1>15, ContinueInnerStep
<1>16. CASE Answer          BY <1>16, AnswerStep
<1>17. CASE NextRequest     BY <1>17, NextRequestStep
<1>18. CASE NextClient      BY <1>18, NextClientStep
<1>19. CASE UNCHANGED vars
  BY <1>19 DEF vars, IInv
<1> QED
  BY <1>1, <1>2, <1>3, <1>4, <1>5, <1>6, <1>7, <1>8, <1>9, <1>10, <1>11, <1>12, <1>13, <1>14, <1>15,
     <1>16, <1>17, <1>18, <1>19 DEF Next

-----------------------------------------------------------------------------
(* What it is good for.                                                    *)

\* Every request that is worked on is the one its client sent, and what was approved of it
\* stays so until it is sent (chat(), continue_https_chat()).
THEOREM RequestInvariant == Spec => []IInv
<1>1. Init => IInv
  BY InitRequest
<1>2. IInv /\ [Next]_vars => IInv'
  BY RequestStep
<1> QED
  BY <1>1, <1>2, PTL DEF Spec

\* Nothing that the action in force blocks is sent, whatever the rules, taggers and filters
\* (crunch_response_triggered(), block_url()).
THEOREM BlockedStaysUnsent == Spec => []BlockedNotFetched
<1>1. IInv => BlockedNotFetched
  BY DEF IInv, BlockedNotFetched, Approved, Passed
<1> QED
  BY <1>1, RequestInvariant, PTL

\* A page of Privoxy itself is never asked of a server; what is passed on for its hosts is
\* no page, but "*" (dispatch_cgi()).
THEOREM CgiNeverAskedElsewhere == Spec => []CgiStaysInside
<1>1. IInv => CgiStaysInside
  BY DEF IInv, CgiStaysInside, Approved, Passed, ForAnotherSite
<1> QED
  BY <1>1, RequestInvariant, PTL

\* Every request goes where its client wanted, unless a filter changed that
\* (get_request_destination_elsewhere(), connection_destination_matches()).
THEOREM AlwaysSentWhereAsked == Spec => []SentWhereAsked
<1>1. ASSUME IInv PROVE SentWhereAsked
  <2> SUFFICES ASSUME at = "sent", ~csp.rewritten
               PROVE  /\ wire.host = Named(asked, csp.http.client_ssl).host
                      /\ wire.port = IF Named(asked, csp.http.client_ssl).port # 0
                                     THEN Named(asked, csp.http.client_ssl).port
                                     ELSE PortWithout(asked, csp.http.client_ssl)
                      /\ wire.tls => csp.http.client_ssl
    BY DEF SentWhereAsked, Named, InHost, PortWithout
  <2>1. AsAsked(csp.http, asked, csp.http.client_ssl)
    BY <1>1 DEF IInv, Approved
  <2>2. wire.host = csp.http.host /\ wire.port = csp.http.port /\ (wire.tls => csp.http.client_ssl)
    BY <1>1 DEF IInv
  <2> QED
    BY <2>1, <2>2 DEF AsAsked
<1>2. IInv => SentWhereAsked
  BY <1>1
<1> QED
  BY <1>2, RequestInvariant, PTL

-----------------------------------------------------------------------------
(* The loops of the loaders.                                               *)

IsList(s) == \E S : s \in Seq(S)

LEMMA Appended ==
  ASSUME NEW s, IsList(s), NEW e
  PROVE  IsList(Append(s, e)) /\ Len(Append(s, e)) = Len(s) + 1 /\ Len(s) \in Nat
<1>1. PICK S : s \in Seq(S)
  BY DEF IsList
<1>2. s \in Seq(S \cup {e})
  BY <1>1
<1>3. Append(s, e) \in Seq(S \cup {e})
  BY <1>2
<1> QED
  BY <1>2, <1>3 DEF IsList

LEMMA Listing == ASSUME NEW s, IsList(s) PROVE Len(s) \in Nat /\ DOMAIN s = 1..Len(s)
  BY DEF IsList

\* load_one_actions_file(), line by line.
LEMMA FileLoop ==
  ASSUME NEW lines, IsList(lines)
  PROVE  \E g : /\ load_one_actions_file(lines) = g[Len(lines)]
               /\ \A i \in 0..Len(lines) : g[i] = IF i = 0 THEN StartOfFile ELSE ReadLine(g[i - 1], lines[i])
<1> DEFINE n == Len(lines)
           Step(g, i) == IF i = 0 THEN StartOfFile ELSE ReadLine(g[i - 1], lines[i])
           IsAfter(g, k) == g = [i \in 0..k |-> Step(g, i)]
<1>1. n \in Nat
  BY Listing
<1> HIDE DEF n
<1>2. \E g : IsAfter(g, n)
  <2> DEFINE bad == {k \in Nat : ~ \E g : IsAfter(g, k)}
  <2>1. SUFFICES ASSUME bad # {} PROVE FALSE
    BY <1>1
  <2>2. PICK k \in bad : \A i \in bad : k <= i
    BY <2>1, LeastElement
  <2>3. CASE k = 0
    <3> DEFINE g == [i \in 0..0 |-> StartOfFile]
    <3>1. IsAfter(g, 0)
      OBVIOUS
    <3> QED
      BY <2>2, <2>3, <3>1
  <2>4. CASE k # 0
    <3>1. k \in Nat /\ k - 1 \in Nat /\ ~(k <= k - 1)
      BY <2>2, <2>4
    <3>2. PICK g : IsAfter(g, k - 1)
      BY <2>2, <3>1
    <3> DEFINE h == [i \in 0..k |-> IF i < k THEN g[i] ELSE Step(g, k)]
    <3>3. DOMAIN g = 0..(k - 1) /\ \A i \in 0..(k - 1) : g[i] = Step(g, i)
      BY <3>2
    <3>4. ASSUME NEW i \in 0..k
          PROVE  h[i] = Step(h, i)
      <4>1. CASE i = 0
        BY <4>1, <3>1, <3>3, <2>4
      <4>2. CASE i # 0 /\ i < k
        <5>1. i - 1 \in 0..k /\ i - 1 < k /\ i \in 0..(k - 1)
          BY <4>2, <3>1
        <5>2. h[i - 1] = g[i - 1] /\ h[i] = g[i]
          BY <4>2, <5>1
        <5> QED
          BY <3>3, <4>2, <5>1, <5>2
      <4>3. CASE i = k
        <5>1. h[k - 1] = g[k - 1]
          BY <3>1
        <5> QED
          BY <4>3, <5>1, <2>4, <3>1
      <4> QED
        BY <4>1, <4>2, <4>3, <3>1
    <3>5. IsAfter(h, k)
      <4> DEFINE hh == [i \in 0..k |-> Step(h, i)]
      <4>1. \A i \in 0..k : h[i] = hh[i]
        BY <3>4
      <4>2. h = hh
        BY <4>1
      <4> QED
        BY <4>2
    <3> QED
      BY <2>2, <3>5
  <2> QED
    BY <2>3, <2>4
<1> DEFINE After[i \in 0..n] == IF i = 0 THEN StartOfFile ELSE ReadLine(After[i - 1], lines[i])
<1>3. load_one_actions_file(lines) = After[n]
  BY DEF load_one_actions_file, n
<1>4. IsAfter(After, n)
  BY <1>2
<1> HIDE DEF After
<1>5. \A i \in 0..n : After[i] = Step(After, i)
  BY <1>4
<1> QED
  BY <1>1, <1>3, <1>5 DEF n

\* What is read of an actions file is a list of sections.
IsFile(f) == DOMAIN f = {"ok", "mode", "aliases", "spec", "sections"} /\ IsList(f.sections)

LEMMA LineRead == ASSUME NEW f, IsFile(f), NEW line, IsLine(line) PROVE IsFile(ReadLine(f, line))
<1>1. IsFile(Fatal(f))
  BY DEF IsFile, Fatal
<1>2. \A name : IsFile(ReadHeading(f, name))
  BY <1>1 DEF IsFile, ReadHeading
<1>3. \A words : IsFile(ReadSection(f, words))
  BY <1>1 DEF IsFile, ReadSection
<1>4. \A name, words : IsFile(ReadAlias(f, name, words))
  BY <1>1 DEF IsFile, ReadAlias
<1>5. \A p : IsFile(ReadPattern(f, p))
  BY <1>1, Appended DEF IsFile, ReadPattern
<1> QED
  BY <1>1, <1>2, <1>3, <1>4, <1>5 DEF ReadLine, ReadText, IsLine

LEMMA FileRead ==
  ASSUME NEW lines, IsList(lines), \A i \in DOMAIN lines : IsLine(lines[i])
  PROVE  IsList(load_one_actions_file(lines).sections)
<1> DEFINE n == Len(lines)
<1>1. n \in Nat
  BY Listing
<1>2. PICK g : /\ load_one_actions_file(lines) = g[n]
               /\ \A i \in 0..n : g[i] = IF i = 0 THEN StartOfFile ELSE ReadLine(g[i - 1], lines[i])
  BY FileLoop
<1> HIDE DEF n
<1> DEFINE Good(i) == IsFile(g[i])
<1>4. \A i \in 0..n : Good(i)
  <2> DEFINE bad == {i \in 0..n : ~Good(i)}
  <2>1. SUFFICES ASSUME bad # {} PROVE FALSE
    OBVIOUS
  <2>2. bad \subseteq Nat
    BY <1>1
  <2>3. \E i \in bad : \A k \in bad : i <= k
    <3> HIDE DEF bad
    <3> QED
      BY <2>1, <2>2, LeastElement
  <2>4. PICK i \in bad : \A k \in bad : i <= k
    BY <2>3
  <2>5. CASE i = 0
    <3>1. Good(0)
      <4>1. g[0] = StartOfFile
        BY <1>1, <1>2
      <4>2. <<>> \in Seq({})
        OBVIOUS
      <4> QED
        BY <4>1, <4>2 DEF IsFile, IsList, StartOfFile
    <3> QED
      BY <2>4, <2>5, <3>1
  <2>6. CASE i # 0
    <3>1. i \in 1..n /\ i - 1 \in 0..n /\ ~(i <= i - 1)
      BY <2>4, <2>6, <1>1
    <3>2. Good(i - 1)
      BY <2>4, <3>1
    <3>3. g[i] = ReadLine(g[i - 1], lines[i])
      BY <1>2, <2>4, <2>6
    <3>4. IsLine(lines[i])
      BY <3>1, Listing DEF n
    <3>9. Good(i)
      BY <3>2, <3>3, <3>4, LineRead
    <3> QED
      BY <2>4, <3>9
  <2> QED
    BY <2>5, <2>6
<1> QED
  BY <1>1, <1>2, <1>4 DEF IsFile

-----------------------------------------------------------------------------
(* load_config().                                                          *)

ConfigFields == {"ok", "on", "number", "text", "debug", "toggle", "actions_file", "re_filterfile", "haddr",
                 "forward", "acl", "client_tags", "trust_info", "client_headers", "proxy_args"}
IsConfig(c) == DOMAIN c = ConfigFields
\* A directive that has nothing to do with actions files and forwarders.
Leaves(c, t) == IsConfig(t) /\ t.actions_file = c.actions_file /\ t.forward = c.forward

LEMMA FatalLeaves == ASSUME NEW c, IsConfig(c) PROVE Leaves(c, Fatal(c))
  BY DEF Leaves, IsConfig, ConfigFields, Fatal
LEMMA WarnedLeaves == ASSUME NEW c, IsConfig(c) PROVE Leaves(c, Warned(c))
  BY DEF Leaves, IsConfig, ConfigFields, Warned
LEMMA SwitchedLeaves == ASSUME NEW c, IsConfig(c), NEW d, NEW on PROVE Leaves(c, Switched(c, d, on))
  BY DEF Leaves, IsConfig, ConfigFields, Switched
LEMMA ToggleLeaves == ASSUME NEW c, IsConfig(c), NEW d PROVE Leaves(c, Toggle(c, d))
  BY FatalLeaves, SwitchedLeaves DEF Toggle
LEMMA NumberLeaves == ASSUME NEW c, IsConfig(c), NEW d, NEW valid PROVE Leaves(c, Number(c, d, valid))
<1>1. Leaves(c, [c EXCEPT !.number[d.cmd] = d.args[1]])
  BY DEF Leaves, IsConfig, ConfigFields
<1> QED
  BY <1>1, FatalLeaves DEF Number
LEMMA StoredLeaves == ASSUME NEW c, IsConfig(c), NEW cmd, NEW text PROVE Leaves(c, Stored(c, cmd, text))
  BY DEF Leaves, IsConfig, ConfigFields, Stored
LEMMA NeededLeaves == ASSUME NEW c, IsConfig(c), NEW d PROVE Leaves(c, Needed(c, d))
  BY FatalLeaves, StoredLeaves DEF Needed
LEMMA SlotLeaves ==
  ASSUME NEW c, IsConfig(c), NEW array \in {"re_filterfile", "haddr"}, NEW n, NEW value
  PROVE  Leaves(c, Slot(c, array, n, value))
<1>1. Leaves(c, [c EXCEPT ![array] = Append(@, value)])
  BY DEF Leaves, IsConfig, ConfigFields
<1> QED
  BY <1>1, FatalLeaves DEF Slot
LEMMA AccessLeaves == ASSUME NEW c, IsConfig(c), NEW d, NEW action PROVE Leaves(c, Access(c, d, action))
<1>1. \A acl : Leaves(c, [c EXCEPT !.acl = acl])
  BY DEF Leaves, IsConfig, ConfigFields
<1> QED
  BY <1>1, WarnedLeaves DEF Access

LEMMA TolerateLeaves == ASSUME NEW c, IsConfig(c), NEW d PROVE Leaves(c, TolerateToTrustedCas(c, d))
<1>1. Leaves(c, [c EXCEPT !.toggle = d.args[1]]) /\ Leaves(c, [c EXCEPT !.trust_info = Append(@, d.args[1])])
  BY DEF Leaves, IsConfig, ConfigFields
<1> QED
  BY <1>1, FatalLeaves, WarnedLeaves, ToggleLeaves, StoredLeaves, NeededLeaves DEF TolerateToTrustedCas

LEMMA PermitLeaves == ASSUME NEW c, IsConfig(c), NEW d PROVE Leaves(c, PermitToTemporary(c, d))
  BY AccessLeaves, StoredLeaves, NumberLeaves, ToggleLeaves, TolerateLeaves DEF PermitToTemporary

LEMMA RetriesLeaves == ASSUME NEW c, IsConfig(c), NEW d PROVE Leaves(c, RetriesToMaxClients(c, d))
<1>1. Leaves(c, Switched(Number(c, d, Positive), d, TRUE))
  <2> DEFINE t == Number(c, d, Positive)
  <2>1. Leaves(c, t)
    BY NumberLeaves
  <2> HIDE DEF t
  <2>2. Leaves(t, Switched(t, d, TRUE))
    BY <2>1, SwitchedLeaves DEF Leaves
  <2> QED
    BY <2>1, <2>2 DEF Leaves, t
<1>2. Leaves(c, Slot(c, "haddr", MaxListening, d.args[1]))
  BY SlotLeaves
<1> QED
  BY <1>1, <1>2, StoredLeaves, NumberLeaves, ToggleLeaves, SwitchedLeaves, PermitLeaves DEF RetriesToMaxClients

LEMMA SocksRead ==
  ASSUME NEW c, IsConfig(c), NEW d
  PROVE  IF d.cmd \in DOMAIN SocksTypes THEN ForwardSocks(c, d) = Forwarder(c, d, 3, Said(d))
         ELSE Leaves(c, ForwardSocks(c, d))
<1>1. DOMAIN SocksTypes = {"forward-socks4", "forward-socks4a", "forward-socks5", "forward-socks5t"}
      /\ SocksTypes["forward-socks4"] = "socks4" /\ SocksTypes["forward-socks4a"] = "socks4a"
      /\ SocksTypes["forward-socks5"] = "socks5" /\ SocksTypes["forward-socks5t"] = "socks5t"
  BY DEF SocksTypes
<1> QED
  BY <1>1, RetriesLeaves DEF ForwardSocks, Said

Forwarded(c, d) == Forwarder(c, d, IF d.cmd = "forward" THEN 2 ELSE 3, Said(d))

LEMMA CompressionRead ==
  ASSUME NEW c, IsConfig(c), NEW d
  PROVE  IF IsForward(d) THEN CompressionToForward(c, d) = Forwarded(c, d)
         ELSE Leaves(c, CompressionToForward(c, d))
<1>1. DOMAIN SocksTypes = {"forward-socks4", "forward-socks4a", "forward-socks5", "forward-socks5t"}
  BY DEF SocksTypes
<1>2. Leaves(c, Slot(c, "re_filterfile", MaxFiles, make_path(Given(c, "confdir"), d.args[1])))
  BY SlotLeaves
<1>3. CASE d.cmd \in {"enable-compression", "enable-proxy-authentication-forwarding", "enable-remote-toggle",
                      "enable-remote-http-toggle", "enforce-blocks"}
  BY <1>1, <1>3, ToggleLeaves DEF CompressionToForward, IsForward
<1>4. CASE d.cmd = "filterfile"
  BY <1>1, <1>2, <1>4 DEF CompressionToForward, IsForward
<1>5. CASE d.cmd = "forward"
  BY <1>5 DEF CompressionToForward, IsForward, Forwarded, Said
<1> QED
  BY <1>1, <1>3, <1>4, <1>5, SocksRead DEF CompressionToForward, IsForward, Forwarded, Said

LEMMA SharingRead ==
  ASSUME NEW c, IsConfig(c), NEW d
  PROVE  IF IsForward(d) THEN SharingToEditActions(c, d) = Forwarded(c, d)
         ELSE Leaves(c, SharingToEditActions(c, d))
<1>1. DOMAIN SocksTypes = {"forward-socks4", "forward-socks4a", "forward-socks5", "forward-socks5t"}
  BY DEF SocksTypes
<1>2. Leaves(c, [c EXCEPT !.debug = @ \cup {d.args[1]}])
  BY DEF Leaves, IsConfig, ConfigFields
<1>3. CASE d.cmd \in {"connection-sharing", "enable-edit-actions", "cors-allowed-origin", "debug",
                      "default-server-timeout", "deny-access"}
  BY <1>1, <1>2, <1>3, ToggleLeaves, StoredLeaves, FatalLeaves, NumberLeaves, AccessLeaves
     DEF SharingToEditActions, IsForward
<1> QED
  BY <1>1, <1>3, CompressionRead DEF SharingToEditActions

\* What a directive does to actions files and forwarders.
LEMMA DirectiveRead ==
  ASSUME NEW c, IsConfig(c), NEW d
  PROVE  LET t == ActionsfileToCompressionLevel(c, d)
         IN  CASE IsForward(d) -> t = Forwarded(c, d)
               [] d.cmd = "actionsfile" ->
                    t = Slot(c, "actions_file", MaxFiles, make_path(Given(c, "confdir"), d.args[1]))
               [] OTHER -> Leaves(c, t)
<1>1. DOMAIN SocksTypes = {"forward-socks4", "forward-socks4a", "forward-socks5", "forward-socks5t"}
  BY DEF SocksTypes
<1>2. /\ Leaves(c, [c EXCEPT !.number[d.cmd] = 1024 * d.args[1]])
      /\ \A x : Leaves(c, [c EXCEPT !.client_headers = x]) /\ Leaves(c, [c EXCEPT !.client_tags = x])
  BY DEF Leaves, IsConfig, ConfigFields
<1>3. CASE d.cmd = "actionsfile"
  BY <1>1, <1>3 DEF ActionsfileToCompressionLevel, IsForward
<1>4. CASE d.cmd \in {"accept-intercepted-requests", "allow-cgi-request-crunching", "admin-address", "confdir",
                      "buffer-limit", "client-header-order", "client-specific-tag", "client-tag-lifetime",
                      "compression-level"}
  <2>1. Leaves(c, ActionsfileToCompressionLevel(c, d))
    <3> DEFINE headers == parse_client_header_order(d.args)
               tags == register_tag(c.client_tags, d.args[1], d.args[2])
    <3>1. LET t == ActionsfileToCompressionLevel(c, d)
          IN  \/ t = Toggle(c, d) \/ t = Stored(c, d.cmd, d.args[1]) \/ t = Fatal(c)
              \/ t = [c EXCEPT !.number[d.cmd] = 1024 * d.args[1]]
              \/ t = [c EXCEPT !.client_headers = headers] \/ t = [c EXCEPT !.client_tags = tags]
              \/ t = Number(c, d, NotNegative) \/ t = Number(c, d, Level)
      BY <1>4 DEF ActionsfileToCompressionLevel
    <3> HIDE DEF headers, tags
    <3>2. Leaves(c, Toggle(c, d)) /\ Leaves(c, Stored(c, d.cmd, d.args[1])) /\ Leaves(c, Fatal(c))
      BY ToggleLeaves, StoredLeaves, FatalLeaves
    <3>3. Leaves(c, Number(c, d, NotNegative)) /\ Leaves(c, Number(c, d, Level))
      BY NumberLeaves
    <3>4. Leaves(c, [c EXCEPT !.client_headers = headers]) /\ Leaves(c, [c EXCEPT !.client_tags = tags])
      BY DEF Leaves, IsConfig, ConfigFields
    <3> QED
      BY <1>2, <3>1, <3>2, <3>3, <3>4
  <2> QED
    BY <1>1, <1>4, <2>1 DEF IsForward
<1>5. CASE d.cmd \notin {"actionsfile", "accept-intercepted-requests", "allow-cgi-request-crunching",
                         "admin-address", "confdir", "buffer-limit", "client-header-order", "client-specific-tag",
                         "client-tag-lifetime", "compression-level"}
  <2>1. ActionsfileToCompressionLevel(c, d) = SharingToEditActions(c, d)
    BY <1>5 DEF ActionsfileToCompressionLevel
  <2> QED
    BY <1>1, <1>5, <2>1, SharingRead DEF IsForward
<1> QED
  BY <1>3, <1>4, <1>5

-----------------------------------------------------------------------------
(* Forwarders: the newest directive is in front.                           *)

LEMMA MinIs ==
  ASSUME NEW S, S \subseteq Nat, NEW i \in S, \A k \in S : i <= k
  PROVE  Min(S) = i
<1>1. \E x \in S : \A y \in S : x =< y
  OBVIOUS
<1>2. Min(S) \in S /\ \A y \in S : Min(S) =< y
  BY <1>1 DEF Min
<1> DEFINE m == Min(S)
<1>3. m \in Nat /\ i \in Nat /\ m <= i /\ i <= m
  BY <1>2
<1> HIDE DEF m
<1> QED
  BY <1>3 DEF m
LEMMA MaxIs ==
  ASSUME NEW S, S \subseteq Nat, NEW i \in S, \A k \in S : k <= i
  PROVE  Max(S) = i
<1>1. \E x \in S : \A y \in S : x >= y
  OBVIOUS
<1>2. Max(S) \in S /\ \A y \in S : Max(S) >= y
  BY <1>1 DEF Max
<1> DEFINE m == Max(S)
<1>3. m \in Nat /\ i \in Nat /\ m <= i /\ i <= m
  BY <1>2
<1> HIDE DEF m
<1> QED
  BY <1>3 DEF m

\* forward_url() without an override.
FirstMatch(list, http) ==
  LET I == {i \in 1..Len(list) : url_match(list[i].url, http)}
  IN  IF I = {} THEN Direct ELSE list[Min(I)].fwd

LEMMA ForwardFound ==
  ASSUME NEW c, ~On(c, "forward-override")
  PROVE  forward_url(c) = FirstMatch(c.config.forward, c.http)
<1> DEFINE list == c.config.forward
           I == {i \in 1..Len(list) : url_match(list[i].url, c.http)}
           found == SelectInSeq(list, LAMBDA f : url_match(f.url, c.http))
<1>1. found = IF I # {} THEN Min(I) ELSE 0
  BY DEF SelectInSeq
<1>2. I # {} => Min(I) # 0
  <2> SUFFICES ASSUME I # {} PROVE Min(I) \in I
    OBVIOUS
  <2>1. PICK i \in I : \A k \in I : i <= k
    <3> DEFINE J == I
    <3>1. J \subseteq Nat /\ J # {}
      OBVIOUS
    <3> HIDE DEF J
    <3>2. \E i \in J : \A k \in J : i <= k
      BY <3>1, LeastElement
    <3> QED
      BY <3>2 DEF J
  <2> QED
    BY <2>1 DEF Min
<1>3. forward_url(c) = IF found = 0 THEN Direct ELSE list[found].fwd
  BY DEF forward_url
<1> HIDE DEF found
<1> QED
  BY <1>1, <1>2, <1>3 DEF FirstMatch

LEMMA InFrontFirst ==
  ASSUME NEW list, IsList(list), NEW item, NEW http
  PROVE  /\ IsList(InFront(list, item))
         /\ FirstMatch(InFront(list, item), http) =
              IF url_match(item.url, http) THEN item.fwd ELSE FirstMatch(list, http)
<1> DEFINE new == InFront(list, item)
           I == {i \in 1..Len(list) : url_match(list[i].url, http)}
           J == {i \in 1..Len(new) : url_match(new[i].url, http)}
<1>1. PICK S : list \in Seq(S)
  BY DEF IsList
<1>2. list \in Seq(S \cup {item}) /\ <<item>> \in Seq(S \cup {item})
  BY <1>1
<1>3. /\ new \in Seq(S \cup {item}) /\ Len(new) = Len(list) + 1 /\ Len(list) \in Nat
      /\ new[1] = item /\ \A k \in 1..Len(list) : new[k + 1] = list[k]
  BY <1>2 DEF InFront
<1> HIDE DEF new
<1>4. IsList(new)
  BY <1>3 DEF IsList
<1>5. CASE url_match(item.url, http)
  <2>1. 1 \in J /\ \A k \in J : 1 <= k
    BY <1>3, <1>5
  <2>2. Min(J) = 1
    BY <2>1 DEF Min
  <2> QED
    BY <1>3, <1>4, <1>5, <2>1, <2>2 DEF FirstMatch, new
<1>6. CASE ~url_match(item.url, http)
  <2>1. \A k \in 1..Len(list) : k \in I <=> k + 1 \in J
    BY <1>3
  <2>2. 1 \notin J
    BY <1>3, <1>6
  <2>3. \A j \in J : j - 1 \in I
    <3> TAKE j \in J
    <3>1. j - 1 \in 1..Len(list) /\ (j - 1) + 1 = j
      BY <1>3, <2>2
    <3> QED
      BY <2>1, <3>1
  <2>4. CASE I = {}
    <3>1. J = {}
      BY <2>3, <2>4
    <3> QED
      BY <1>4, <1>6, <2>4, <3>1 DEF FirstMatch, new
  <2>5. CASE I # {}
    <3>1. I \subseteq Nat
      BY <1>3
    <3>2. PICK i \in I : \A k \in I : i <= k
      <4> HIDE DEF I
      <4> QED
        BY <2>5, <3>1, LeastElement
    <3>3. Min(I) = i
      <4> HIDE DEF I
      <4> QED
        BY <3>1, <3>2, MinIs
    <3>4. i \in 1..Len(list) /\ i + 1 \in J
      BY <2>1, <3>2
    <3>5. \A k \in J : i + 1 <= k
      <4> TAKE k \in J
      <4>1. k - 1 \in I /\ k \in 1..Len(new)
        BY <2>3
      <4> HIDE DEF I, J
      <4> QED
        BY <1>3, <3>2, <3>4, <4>1
    <3>6. J \subseteq Nat
      BY <1>3
    <3>7. Min(J) = i + 1
      <4> HIDE DEF J
      <4> QED
        BY <3>4, <3>5, <3>6, MinIs
    <3>8. new[i + 1] = list[i]
      BY <1>3, <3>4
    <3> HIDE DEF I, J
    <3> QED
      BY <1>4, <1>6, <2>5, <3>3, <3>4, <3>7, <3>8 DEF FirstMatch, I, J, new
  <2> QED
    BY <2>4, <2>5
<1> QED
  BY <1>5, <1>6

\* What is in front of the list is the last directive for the destination.
LEMMA ForwarderRead ==
  ASSUME NEW c, IsConfig(c), IsList(c.forward), NEW d, IsForward(d), NEW http
  PROVE  LET t == Forwarded(c, d)
         IN  /\ IsConfig(t) /\ t.actions_file = c.actions_file /\ IsList(t.forward)
             /\ FirstMatch(t.forward, http) =
                  IF Complete(d) /\ url_match(d.args[1], http) THEN Said(d) ELSE FirstMatch(c.forward, http)
<1> DEFINE item == [url |-> d.args[1], fwd |-> Said(d)]
           t == [c EXCEPT !.forward = InFront(@, item)]
<1>1. Forwarded(c, d) = IF ~Complete(d) \/ d.args[1] = NoPattern THEN Warned(c) ELSE t
  BY DEF Forwarded, Forwarder, Complete
<1>2. Leaves(c, Warned(c))
  BY WarnedLeaves
<1>3. ~url_match(NoPattern, http)
  BY DEF url_match, NoPattern
<1>4. IsConfig(t) /\ t.actions_file = c.actions_file /\ t.forward = InFront(c.forward, item)
  BY DEF IsConfig, ConfigFields
<1>5. item.url = d.args[1] /\ item.fwd = Said(d)
  OBVIOUS
<1> HIDE DEF t, item
<1>6. /\ IsList(t.forward)
      /\ FirstMatch(t.forward, http) = IF url_match(d.args[1], http) THEN Said(d) ELSE FirstMatch(c.forward, http)
  BY <1>4, <1>5, InFrontFirst
<1> QED
  BY <1>1, <1>2, <1>3, <1>4, <1>6 DEF Leaves

LastRule(lines, n, http) ==
  LET M == {i \in 1..n : IsForward(lines[i]) /\ Complete(lines[i]) /\ url_match(lines[i].args[1], http)}
  IN  IF M = {} THEN Direct ELSE Said(lines[Max(M)])

LEMMA NextRule ==
  ASSUME NEW lines, NEW n \in Nat \ {0}, NEW http
  PROVE  LastRule(lines, n, http) =
           IF IsForward(lines[n]) /\ Complete(lines[n]) /\ url_match(lines[n].args[1], http) THEN Said(lines[n])
           ELSE LastRule(lines, n - 1, http)
<1> DEFINE P(i) == IsForward(lines[i]) /\ Complete(lines[i]) /\ url_match(lines[i].args[1], http)
           M == {i \in 1..n : P(i)}
           L == {i \in 1..(n - 1) : P(i)}
<1>1. LastRule(lines, n, http) = IF M = {} THEN Direct ELSE Said(lines[Max(M)])
  BY DEF LastRule
<1>2. LastRule(lines, n - 1, http) = IF L = {} THEN Direct ELSE Said(lines[Max(L)])
  BY DEF LastRule
<1>3. SUFFICES (IF M = {} THEN Direct ELSE Said(lines[Max(M)])) =
               IF P(n) THEN Said(lines[n]) ELSE IF L = {} THEN Direct ELSE Said(lines[Max(L)])
  BY <1>1, <1>2
<1> HIDE DEF P
<1>4. CASE P(n)
  <2>1. n \in M /\ M \subseteq Nat /\ \A i \in M : i <= n
    BY <1>4
  <2> HIDE DEF M
  <2>2. Max(M) = n
    BY <2>1, MaxIs
  <2> QED
    BY <1>4, <2>1, <2>2
<1>5. CASE ~P(n)
  <2>1. M = L
    BY <1>5
  <2> HIDE DEF M, L
  <2> QED
    BY <1>5, <2>1
<1> QED
  BY <1>4, <1>5

\* A configuration while its lines are read.
Read(c, lines, n, http) ==
  /\ IsConfig(c) /\ IsList(c.actions_file) /\ IsList(c.forward)
  /\ c.ok => FirstMatch(c.forward, http) = LastRule(lines, n, http)

LEMMA LeavesReads ==
  ASSUME NEW c, NEW t, Leaves(c, t), NEW lines, NEW n \in Nat \ {0}, NEW http,
         Read(c, lines, n - 1, http), c.ok, ~IsForward(lines[n])
  PROVE  Read(t, lines, n, http)
<1>1. LastRule(lines, n, http) = LastRule(lines, n - 1, http)
  BY NextRule
<1> QED
  BY <1>1 DEF Leaves, Read

LEMMA DirectiveReads ==
  ASSUME NEW c, NEW lines, NEW n \in Nat \ {0}, NEW http, Read(c, lines, n - 1, http)
  PROVE  Read(ReadDirective(c, lines[n]), lines, n, http)
<1> DEFINE d == lines[n]
           t == ActionsfileToCompressionLevel(c, d)
           path == make_path(Given(c, "confdir"), d.args[1])
<1>1. CASE ~c.ok
  BY <1>1 DEF ReadDirective, Read
<1>2. CASE c.ok
  <2>0. IsConfig(c) /\ IsList(c.actions_file) /\ IsList(c.forward)
        /\ FirstMatch(c.forward, http) = LastRule(lines, n - 1, http)
    BY <1>2 DEF Read
  <2>1. /\ IsForward(d) => t = Forwarded(c, d)
        /\ ~IsForward(d) /\ d.cmd = "actionsfile" => t = Slot(c, "actions_file", MaxFiles, path)
        /\ ~IsForward(d) /\ d.cmd # "actionsfile" => Leaves(c, t)
    <3>1. IsForward(d) => d.cmd # "actionsfile"
      BY DEF IsForward, SocksTypes
    <3>2. CASE IsForward(d)
      BY <2>0, <3>1, <3>2, DirectiveRead
    <3>3. CASE ~IsForward(d) /\ d.cmd = "actionsfile"
      BY <2>0, <3>3, DirectiveRead
    <3>4. CASE ~IsForward(d) /\ d.cmd # "actionsfile"
      BY <2>0, <3>4, DirectiveRead
    <3> QED
      BY <3>2, <3>3, <3>4
  <2>2. Read(t, lines, n, http)
    <3>1. CASE IsForward(d)
      <4>1. t = Forwarded(c, d)
        <5>1. d.cmd # "actionsfile"
          BY <3>1 DEF IsForward, SocksTypes
        <5> QED
          BY <2>1, <3>1, <5>1
      <4> HIDE DEF t
      <4>2. /\ IsConfig(t) /\ t.actions_file = c.actions_file /\ IsList(t.forward)
            /\ FirstMatch(t.forward, http) =
                 IF Complete(d) /\ url_match(d.args[1], http) THEN Said(d) ELSE FirstMatch(c.forward, http)
        BY <2>0, <3>1, <4>1, ForwarderRead
      <4>3. LastRule(lines, n, http) =
              IF Complete(d) /\ url_match(d.args[1], http) THEN Said(d) ELSE LastRule(lines, n - 1, http)
        BY <3>1, NextRule
      <4> QED
        BY <2>0, <4>2, <4>3 DEF Read
    <3>2. CASE ~IsForward(d) /\ d.cmd = "actionsfile"
      <4> DEFINE u == [c EXCEPT !.actions_file = Append(@, path)]
      <4>1. t = u \/ t = Fatal(c)
        BY <2>1, <3>2 DEF Slot
      <4>2. IsConfig(u) /\ u.ok = c.ok /\ u.actions_file = Append(c.actions_file, path) /\ u.forward = c.forward
        BY <2>0 DEF IsConfig, ConfigFields
      <4> HIDE DEF u, t, path
      <4>3. IsList(u.actions_file)
        BY <2>0, <4>2, Appended
      <4>4. LastRule(lines, n, http) = LastRule(lines, n - 1, http)
        BY <3>2, NextRule
      <4>5. Read(u, lines, n, http)
        BY <2>0, <4>2, <4>3, <4>4 DEF Read
      <4>6. Read(Fatal(c), lines, n, http)
        BY <1>2, <2>0, <3>2, FatalLeaves, LeavesReads
      <4> QED
        BY <4>1, <4>5, <4>6
    <3>3. CASE ~IsForward(d) /\ d.cmd # "actionsfile"
      <4>1. Leaves(c, t)
        BY <2>1, <3>3
      <4> QED
        BY <1>2, <3>3, <4>1, LeavesReads
    <3> QED
      BY <3>1, <3>2, <3>3
  <2>3. ReadDirective(c, d) = savearg(t, d)
    BY <1>2 DEF ReadDirective
  <2> HIDE DEF t
  <2>4. Read(savearg(t, d), lines, n, http)
    BY <2>2 DEF Read, savearg, IsConfig, ConfigFields
  <2> QED
    BY <2>3, <2>4
<1> QED
  BY <1>1, <1>2

\* load_config(), line by line.
LEMMA DirectivesLoop ==
  ASSUME NEW lines, IsList(lines)
  PROVE  \E g : /\ ReadDirectives(lines) = g[Len(lines)]
               /\ \A i \in 0..Len(lines) : g[i] = IF i = 0 THEN Defaults ELSE ReadDirective(g[i - 1], lines[i])
<1> DEFINE n == Len(lines)
           Step(g, i) == IF i = 0 THEN Defaults ELSE ReadDirective(g[i - 1], lines[i])
           IsAfter(g, k) == g = [i \in 0..k |-> Step(g, i)]
<1>1. n \in Nat
  BY Listing
<1> HIDE DEF n
<1>2. \E g : IsAfter(g, n)
  <2> DEFINE bad == {k \in Nat : ~ \E g : IsAfter(g, k)}
  <2>1. SUFFICES ASSUME bad # {} PROVE FALSE
    BY <1>1
  <2>2. PICK k \in bad : \A i \in bad : k <= i
    BY <2>1, LeastElement
  <2>3. CASE k = 0
    <3> DEFINE g == [i \in 0..0 |-> Defaults]
    <3>1. IsAfter(g, 0)
      OBVIOUS
    <3> QED
      BY <2>2, <2>3, <3>1
  <2>4. CASE k # 0
    <3>1. k \in Nat /\ k - 1 \in Nat /\ ~(k <= k - 1)
      BY <2>2, <2>4
    <3>2. PICK g : IsAfter(g, k - 1)
      BY <2>2, <3>1
    <3> DEFINE h == [i \in 0..k |-> IF i < k THEN g[i] ELSE Step(g, k)]
    <3>3. DOMAIN g = 0..(k - 1) /\ \A i \in 0..(k - 1) : g[i] = Step(g, i)
      BY <3>2
    <3>4. ASSUME NEW i \in 0..k
          PROVE  h[i] = Step(h, i)
      <4>1. CASE i = 0
        BY <4>1, <3>1, <3>3, <2>4
      <4>2. CASE i # 0 /\ i < k
        <5>1. i - 1 \in 0..k /\ i - 1 < k /\ i \in 0..(k - 1)
          BY <4>2, <3>1
        <5>2. h[i - 1] = g[i - 1] /\ h[i] = g[i]
          BY <4>2, <5>1
        <5> QED
          BY <3>3, <4>2, <5>1, <5>2
      <4>3. CASE i = k
        <5>1. h[k - 1] = g[k - 1]
          BY <3>1
        <5> QED
          BY <4>3, <5>1, <2>4, <3>1
      <4> QED
        BY <4>1, <4>2, <4>3, <3>1
    <3>5. IsAfter(h, k)
      <4> DEFINE hh == [i \in 0..k |-> Step(h, i)]
      <4>1. \A i \in 0..k : h[i] = hh[i]
        BY <3>4
      <4>2. h = hh
        BY <4>1
      <4> QED
        BY <4>2
    <3> QED
      BY <2>2, <3>5
  <2> QED
    BY <2>3, <2>4
<1> DEFINE After[i \in 0..n] == IF i = 0 THEN Defaults ELSE ReadDirective(After[i - 1], lines[i])
<1>3. ReadDirectives(lines) = After[n]
  BY DEF ReadDirectives, n
<1>4. IsAfter(After, n)
  BY <1>2
<1> HIDE DEF After
<1>5. \A i \in 0..n : After[i] = Step(After, i)
  BY <1>4
<1> QED
  BY <1>1, <1>3, <1>5 DEF n

LEMMA ConfigRead ==
  ASSUME NEW lines, IsList(lines), NEW http
  PROVE  Read(load_config(lines), lines, Len(lines), http)
<1> DEFINE n == Len(lines)
<1>1. n \in Nat
  BY Listing
<1>2. PICK g : /\ ReadDirectives(lines) = g[n]
               /\ \A i \in 0..n : g[i] = IF i = 0 THEN Defaults ELSE ReadDirective(g[i - 1], lines[i])
  BY DirectivesLoop
<1> HIDE DEF n
<1> DEFINE Good(i) == Read(g[i], lines, i, http)
<1>4. \A i \in 0..n : Good(i)
  <2> DEFINE bad == {i \in 0..n : ~Good(i)}
  <2>1. SUFFICES ASSUME bad # {} PROVE FALSE
    OBVIOUS
  <2>2. bad \subseteq Nat
    BY <1>1
  <2>3. \E i \in bad : \A k \in bad : i <= k
    <3> HIDE DEF bad
    <3> QED
      BY <2>1, <2>2, LeastElement
  <2>4. PICK i \in bad : \A k \in bad : i <= k
    BY <2>3
  <2>5. CASE i = 0
    <3>1. Good(0)
      <4>1. g[0] = Defaults
        BY <1>1, <1>2
      <4>2. <<>> \in Seq({})
        OBVIOUS
      <4>3. IsConfig(Defaults) /\ Defaults.actions_file = <<>> /\ Defaults.forward = <<>>
        BY DEF IsConfig, ConfigFields, Defaults
      <4>4. FirstMatch(<<>>, http) = Direct /\ LastRule(lines, 0, http) = Direct
        BY DEF FirstMatch, LastRule
      <4> QED
        BY <4>1, <4>2, <4>3, <4>4 DEF Read, IsList
    <3> QED
      BY <2>4, <2>5, <3>1
  <2>6. CASE i # 0
    <3>1. i \in 1..n /\ i - 1 \in 0..n /\ ~(i <= i - 1)
      BY <2>4, <2>6, <1>1
    <3>2. Good(i - 1)
      BY <2>4, <3>1
    <3>3. g[i] = ReadDirective(g[i - 1], lines[i])
      BY <1>2, <2>4, <2>6
    <3>4. i \in Nat \ {0}
      BY <1>1, <3>1
    <3>9. Good(i)
      BY <3>2, <3>3, <3>4, DirectiveReads
    <3> QED
      BY <2>4, <3>9
  <2> QED
    BY <2>5, <2>6
<1> DEFINE c == ReadDirectives(lines)
           c1 == KeptAlive(c)
           c2 == CaFiles(c1)
           c3 == Listening(c2)
<1>5. Read(c, lines, n, http)
  BY <1>1, <1>2, <1>4
<1> HIDE DEF c
<1>6. Leaves(c, c1) /\ c1.ok = c.ok
  BY <1>5 DEF Read, Leaves, IsConfig, ConfigFields, KeptAlive
<1> HIDE DEF c1
<1>7. Leaves(c1, c2) /\ c2.ok = c1.ok
  BY <1>6 DEF Leaves, IsConfig, ConfigFields, CaFiles
<1> HIDE DEF c2
<1>8. Leaves(c2, c3) /\ (c3.ok => c2.ok)
  <2> DEFINE haddr == IF c2.haddr = <<>> THEN <<[host |-> "127.0.0.1", port |-> 8118]>> ELSE c2.haddr
             ok == c2.ok /\ \A i \in DOMAIN haddr : haddr[i].port > 0
  <2>1. c3 = [c2 EXCEPT !.haddr = haddr, !.ok = ok]
    BY DEF Listening
  <2>2. ok => c2.ok
    OBVIOUS
  <2> HIDE DEF c3, ok, haddr
  <2>3. Leaves(c2, c3) /\ c3.ok = ok
    BY <1>7, <2>1 DEF Leaves, IsConfig, ConfigFields
  <2> QED
    BY <2>2, <2>3, Zenon
<1> HIDE DEF c3
<1>9. load_config(lines) = c3
  BY DEF load_config, c, c1, c2, c3
<1>10. /\ IsConfig(c3) /\ c3.actions_file = c.actions_file /\ c3.forward = c.forward
       /\ c3.ok => c.ok
  BY <1>6, <1>7, <1>8 DEF Leaves
<1>11. Read(c3, lines, n, http)
  BY <1>5, <1>10 DEF Read
<1> QED
  BY <1>9, <1>11 DEF n

-----------------------------------------------------------------------------
(* What each step leaves alone.                                            *)

LEMMA ReceiveRequestFrame ==
  ASSUME IInv, ReceiveRequest
  PROVE  /\ at = "idle" /\ SameRules(csp, csp') /\ disk' = disk /\ csp'.tags = csp.tags
         /\ at' \in {"received", "closed"} /\ asked' \in Requests
         /\ at' = "received" => csp'.body = asked'.body /\ \E line : csp'.head = Listed(asked'.head, line)
<1>1. Shaped(csp) /\ at = "idle" /\ ~csp.http.client_ssl
  BY DEF ReceiveRequest, IInv
<1>2. PICK r \in Requests, tags \in ClientTagSets :
        /\ asked' = r
        /\ Does(receive_client_request([csp EXCEPT !.clientTags = tags, !.clientAddress = TRUE], r), "received")
  BY DEF ReceiveRequest
<1> DEFINE c == [csp EXCEPT !.clientTags = tags, !.clientAddress = TRUE]
           a == receive_client_request(c, r)
<1>3. Kept(csp, c) /\ c.tags = csp.tags
  BY <1>1 DEF Kept, Shaped, CspFields
<1>4. csp' = a.csp /\ at' = IF a.rsp = NoResponse THEN "received" ELSE "closed"
  BY <1>2, DoesOne
<1> HIDE DEF c
<1>5. Comes(c, r, a)
  BY <1>1, <1>3, RequestReceived DEF Kept
<1> HIDE DEF a
<1>6. disk' = disk
  BY DEF ReceiveRequest
<1> QED
  BY <1>1, <1>2, <1>3, <1>4, <1>5, <1>6 DEF Comes, Kept, SameRules

LEMMA ParseRequestFrame ==
  ASSUME IInv, ParseRequest
  PROVE  /\ at = "received" /\ SameRules(csp, csp') /\ disk' = disk /\ asked' = asked
         /\ at' \in {"parsed", "closed"} /\ csp'.body = csp.body
         /\ Reworked(sed(Prepared(csp)), csp')
<1>1. Shaped(csp) /\ at = "received" /\ ~csp.http.client_ssl /\ Settled(csp.http, csp.head)
  BY DEF ParseRequest, IInv
<1> DEFINE a == parse_client_request(csp)
<1>2. csp' = a.csp /\ at' = (IF a.rsp = NoResponse THEN "parsed" ELSE "closed") /\ asked' = asked /\ disk' = disk
  BY DoesOne DEF ParseRequest, Same
<1>3. Works(csp, a) /\ Reworked(sed(Prepared(csp)), a.csp)
  BY <1>1, RequestWorks
<1> HIDE DEF a
<1> QED
  BY <1>1, <1>2, <1>3 DEF Works

LEMMA DecideFrame ==
  ASSUME IInv, Decide
  PROVE  /\ at = "parsed" /\ SameRules(csp, csp') /\ disk' = disk /\ asked' = asked
         /\ at' \in {"handshake", "body", "answered"}
         /\ csp'.body = csp.body /\ csp'.tags = csp.tags /\ csp'.head = csp.head
         /\ csp'.rewritten = csp.rewritten /\ csp'.http.hostport = csp.http.hostport
         /\ DOMAIN csp.action = {"flags", "string", "multi"} =>
              /\ DOMAIN csp'.action = {"flags", "string", "multi"}
              /\ csp'.action.multi = csp.action.multi /\ csp'.action.string = csp.action.string
              /\ csp'.action.flags \in {csp.action.flags, csp.action.flags \cup {"block"}}
         /\ at' = "handshake" => ~csp'.tunnel
         /\ at' = "body" => ~csp'.http.client_ssl
<1> DEFINE i == Inspection(csp)
           c == PortChecked(i)
           a == crunch_response_triggered(c)
           block == [csp.action EXCEPT !.flags = @ \cup {"block"}]
<1>1. Shaped(csp) /\ at = "parsed"
  BY DEF Decide, IInv
<1>2. Decided(c) /\ asked' = asked /\ disk' = disk
  BY DEF Decide, Same
<1>3. Adjusted(csp, i) /\ (i.http.client_ssl => ~i.tunnel) /\ i.action = csp.action
  <2>1. i.action = csp.action
    BY <1>1 DEF Inspection, Shaped, CspFields
  <2> QED
    BY <1>1, <2>1, InspectionAdjusts
<1> HIDE DEF i
<1>4. Adjusted(i, c) /\ (c.http.client_ssl => c = i)
  BY <1>3, PortAdjusts DEF Adjusted
<1> HIDE DEF c
<1>5. Judged(c, a)
  BY <1>4, RequestJudged DEF Adjusted
<1> HIDE DEF a
<1>6. csp' \in {c, a.csp} /\ at' \in {"handshake", "body", "answered"}
      /\ (at' = "handshake" => csp' = c /\ c.http.client_ssl) /\ (at' = "body" => ~csp'.http.client_ssl)
  <2>1. CASE c.http.client_ssl
    BY <1>2, <2>1 DEF Decided, Ends
  <2>2. CASE ~c.http.client_ssl
    <3>1. csp' = a.csp /\ at' = IF a.rsp = NoResponse THEN "body" ELSE "answered"
      BY <1>2, <2>2, CrunchOne DEF Decided, a
    <3> QED
      BY <1>5, <2>2, <3>1 DEF Judged, Heard, Kept
  <2> QED
    BY <2>1, <2>2
<1>7. Adjusted(csp, c) /\ csp'.action = c.action
      /\ SameRules(c, csp') /\ csp'.body = c.body /\ csp'.tags = c.tags /\ csp'.head = c.head
      /\ csp'.rewritten = c.rewritten /\ csp'.http = c.http
  <2>1. Adjusted(csp, c)
    BY <1>3, <1>4 DEF Adjusted, SameRules
  <2> QED
    BY <1>5, <1>6, <2>1 DEF Judged, Heard, Kept, SameRules
<1>8. csp'.action \in {csp.action, block}
  BY <1>7 DEF Adjusted
<1>9. DOMAIN csp.action = {"flags", "string", "multi"} =>
        /\ DOMAIN csp'.action = {"flags", "string", "multi"}
        /\ csp'.action.multi = csp.action.multi /\ csp'.action.string = csp.action.string
        /\ csp'.action.flags \in {csp.action.flags, csp.action.flags \cup {"block"}}
  BY <1>8
<1>10. at' = "handshake" => ~csp'.tunnel
  BY <1>3, <1>4, <1>6
<1> QED
  BY <1>1, <1>2, <1>6, <1>7, <1>9, <1>10 DEF Adjusted, SameRules

LEMMA ReceiveInnerFrame ==
  ASSUME IInv, ReceiveInner
  PROVE  /\ at \in {"encrypted", "waiting"} /\ SameRules(csp, csp') /\ disk' = disk /\ asked' \in InnerRequests
         /\ at' \in {"body", "body-again", "closed", "answered"}
         /\ at' \in {"body", "body-again"} =>
              \E s, t : Inner(csp, asked', s) /\ Reworked(sed_https(s), t) /\ Heard(t, csp')
         /\ at' \in {"body", "body-again"} => csp'.http.client_ssl
<1> DEFINE where == CASE at = "encrypted" -> "body" [] Opened(csp) -> "body-again" [] OTHER -> "closed"
           With(tags) == [csp EXCEPT !.clientAddress = TRUE, !.clientTags = IF csp.clientAddress THEN @ ELSE tags]
<1>1. Shaped(csp)
  BY DEF IInv
<1>2. PICK r \in InnerRequests, tags \in ClientTagSets :
        asked' = r /\ Asks(process_encrypted_request_headers(With(tags), r), where)
  BY DEF ReceiveInner
<1>3. where \in {"body", "body-again", "closed"} /\ at \in {"encrypted", "waiting"} /\ disk' = disk
  BY DEF ReceiveInner
<1> HIDE DEF where
<1> DEFINE c == With(tags)
           a == process_encrypted_request_headers(c, r)
           b == crunch_response_triggered(a.csp)
<1>4. Kept(csp, c) /\ c.action = csp.action
  BY <1>1 DEF Kept, Shaped, CspFields
<1> HIDE DEF With
<1> HIDE DEF c
<1>5. ComesInside(c, r, a)
  BY <1>4, InnerComes DEF Kept
<1>6. Asks(a, where)
  BY <1>2 DEF c
<1> HIDE DEF a
<1>7. CASE a.rsp # NoResponse
  <2>1. csp' = a.csp /\ at' = "closed"
    BY <1>6, <1>7 DEF Asks, Ends
  <2> QED
    BY <1>2, <1>3, <1>4, <1>5, <2>1 DEF ComesInside, Kept, SameRules
<1>8. CASE a.rsp = NoResponse
  <2>1. csp' = b.csp /\ at' = IF b.rsp = NoResponse THEN where ELSE "answered"
    BY <1>6, <1>8, CrunchOne DEF Asks
  <2>2. Heard(a.csp, b.csp)
    BY <1>5, RequestJudged DEF ComesInside, Judged
  <2> HIDE DEF b
  <2>3. PICK s : Inner(c, r, s) /\ Reworked(sed_https(s), a.csp)
    BY <1>5, <1>8 DEF ComesInside
  <2>4. Inner(csp, r, s)
    BY <1>4, <2>3 DEF Inner, Kept, SameRules
  <2>5. SameRules(csp, csp') /\ csp'.http.client_ssl
    BY <1>4, <1>5, <1>8, <2>1, <2>2 DEF ComesInside, Kept, SameRules, Heard
  <2> QED
    BY <1>2, <1>3, <2>1, <2>2, <2>3, <2>4, <2>5
<1> QED
  BY <1>7, <1>8

LEMMA ReadBodyFrame ==
  ASSUME IInv, ReadBody
  PROVE  /\ at \in {"body", "body-again"} /\ SameRules(csp, csp') /\ disk' = disk /\ asked' = asked
         /\ at' \in {"forward", "continue", "closed", "answered"}
         /\ at' \in {"forward", "continue"} => at' = AfterBody
         /\ BodyWanted(csp) /\ csp.body.size = csp.expected
         /\ csp'.http.client_ssl = csp.http.client_ssl
         /\ \E t : /\ t = csp \/ Heard(execute_client_body_taggers(csp, csp.body), t)
                   /\ csp' = t \/ Passes(t, csp')
<1> DEFINE a == BodyTagged(csp)
           b == BodyFiltered(a.csp)
           tagged == execute_client_body_taggers(csp, csp.body)
<1>1. /\ at \in {"body", "body-again"} /\ at \in Approved /\ asked' = asked /\ disk' = disk
      /\ AfterBody \in {"forward", "continue"} /\ Filters(a)
      /\ BodyWanted(csp) /\ csp.body.size = csp.expected
  BY DEF ReadBody, Same, AfterBody, Approved
<1>2. Shaped(csp) /\ Passed(csp)
  BY <1>1, ApprovedFacts
<1>3. Kept(csp, a.csp)
  BY <1>2, TaggedPasses
<1>4. a.csp = csp \/ Heard(tagged, a.csp)
  <2>1. BodyTagged(csp) = Goes(csp) \/ BodyTagged(csp) = crunch_response_triggered(tagged)
    BY DEF BodyTagged, TaggersHeeded
  <2>2. Shaped(tagged)
    BY <1>2 DEF execute_client_body_taggers, Rates, Shaped, CspFields
  <2> HIDE DEF tagged
  <2>3. Heard(tagged, crunch_response_triggered(tagged).csp)
    BY <2>2, RequestJudged DEF Judged
  <2> QED
    BY <2>1, <2>3 DEF Goes
<1> HIDE DEF a, tagged
<1>5. CASE a.rsp # NoResponse
  <2>1. csp' = a.csp /\ at' = "answered"
    BY <1>1, <1>5, CrunchOne DEF Filters
  <2> QED
    BY <1>1, <1>3, <1>4, <2>1 DEF Kept, SameRules, tagged
<1>6. CASE a.rsp = NoResponse
  <2>1. csp' = b.csp /\ at' = IF b.rsp = NoResponse THEN AfterBody ELSE "closed"
    BY <1>1, <1>6, DoesOne DEF Filters
  <2>2. Passes(a.csp, b.csp)
    BY <1>3, RefilledPasses DEF BodyFiltered, Kept
  <2> HIDE DEF b
  <2> QED
    BY <1>1, <1>3, <1>4, <2>1, <2>2 DEF Kept, Passes, Stays, SameRules, tagged
<1> QED
  BY <1>5, <1>6

LEMMA ConnectFrame ==
  ASSUME IInv, Connect
  PROVE  /\ at = "forward" /\ SameRules(csp, csp') /\ disk' = disk /\ asked' = asked /\ wire' = wire
         /\ at' \in Connecting \cup {"closed"}
         /\ csp'.rewritten = csp.rewritten /\ csp'.tunnel = csp.tunnel /\ csp'.action = csp.action
         /\ csp'.https = csp.https /\ csp'.tags = csp.tags /\ csp'.flags = csp.flags
         /\ csp'.http.host = csp.http.host /\ csp'.http.port = csp.http.port /\ csp'.http.path = csp.http.path
         /\ csp'.http.ssl = csp.http.ssl /\ csp'.http.hostport = csp.http.hostport /\ csp'.http.client_ssl = csp.http.client_ssl
         /\ \E line : csp'.head = Listed(csp.head, line)
         /\ at' \in Connecting => csp'.conn.fwd = forward_url(csp)
<1>1. at = "forward" /\ asked' = asked /\ disk' = disk /\ wire' = wire /\ Shaped(csp)
  BY DEF Connect, Same, IInv
<1>2. PICK fwd \in {forward_url(csp)} : Reaches(build_request_line(csp, fwd), fwd)
  BY DEF Connect
<1> DEFINE c == build_request_line(csp, fwd)
<1>3. /\ Shaped(c) /\ c.conn = csp.conn /\ c.rewritten = csp.rewritten
      /\ c.tunnel = csp.tunnel /\ c.action = csp.action /\ c.flags = csp.flags
      /\ c.http.host = csp.http.host /\ c.http.port = csp.http.port /\ c.http.path = csp.http.path
      /\ c.http.ssl = csp.http.ssl /\ c.http.hostport = csp.http.hostport /\ c.http.client_ssl = csp.http.client_ssl
      /\ SameRules(csp, c) /\ c.https = csp.https /\ c.tags = csp.tags
      /\ \E line : c.head = Listed(csp.head, line)
  BY <1>1, LineBuilt
<1> HIDE DEF c
<1> DEFINE Rest == /\ SameRules(c, csp') /\ csp'.rewritten = c.rewritten /\ csp'.tunnel = c.tunnel
                   /\ csp'.action = c.action /\ csp'.https = c.https /\ csp'.tags = c.tags /\ csp'.flags = c.flags
                   /\ csp'.http = c.http /\ csp'.head = c.head
<1>4. /\ Rest /\ at' \in Connecting \cup {"closed"}
      /\ at' \in Connecting => csp'.conn.fwd = fwd
  <2>1. CASE c.conn.open /\ connection_destination_matches(c.conn, c.http, fwd)
    <3>1. csp' = c /\ at' = "send"
      BY <1>2, <2>1 DEF Reaches, Ends, c
    <3>2. c.conn.fwd = fwd
      BY <2>1 DEF connection_destination_matches
    <3> QED
      BY <3>1, <3>2 DEF Connecting, SameRules
  <2>2. CASE ~(c.conn.open /\ connection_destination_matches(c.conn, c.http, fwd))
    <3> DEFINE conn == [open |-> TRUE, tls |-> FALSE, host |-> c.http.host, port |-> c.http.port, fwd |-> fwd]
    <3>1. Connects(c, fwd)
      BY <1>2, <2>2 DEF Reaches, c
    <3>2. \/ csp' = [c EXCEPT !.conn = conn] /\ at' \in Connecting
          \/ csp' = [c EXCEPT !.conn = NoConn] /\ at' = "closed"
      BY <3>1 DEF Connects, Ends, Connected, Connecting
    <3>3. conn.fwd = fwd
      OBVIOUS
    <3> HIDE DEF conn
    <3>4. PICK x : csp' = [c EXCEPT !.conn = x] /\ at' \in Connecting \cup {"closed"}
                 /\ (at' \in Connecting => x = conn)
      BY <3>2 DEF Connecting
    <3>5. Rest /\ csp'.conn = x
      BY <1>3, <3>4 DEF Shaped, CspFields, SameRules
    <3> QED
      BY <3>3, <3>4, <3>5
  <2> QED
    BY <2>1, <2>2
<1> QED
  BY <1>1, <1>2, <1>3, <1>4 DEF SameRules

\* The end of a request.
LEMMA AnswerFrame ==
  ASSUME IInv, Answer
  PROVE  SameRules(csp, csp') /\ disk' = disk /\ at = "sent" /\ at' = "answered"
<1>1. PICK conn \in {csp.conn, NoConn} : csp' = [csp EXCEPT !.conn = conn, !.dontVerify = FALSE]
  BY DEF Answer
<1> QED
  BY <1>1 DEF Answer, IInv, Shaped, CspFields, SameRules

LEMMA NextRequestFrame ==
  ASSUME IInv, NextRequest
  PROVE  /\ SameRules(csp, csp') /\ disk' = disk /\ at = "answered" /\ at' \in {"waiting", "idle"}
         /\ csp'.tags = {} /\ ~csp'.tunnel
<1>1. PICK toggled \in BOOLEAN : csp' = [Fresh(csp, toggled) EXCEPT !.http.client_ssl = csp.http.client_ssl]
  BY DEF NextRequest
<1> DEFINE fresh == Fresh(csp, toggled)
<1>2. Shaped(fresh) /\ SameRules(csp, fresh) /\ fresh.tags = {} /\ ~fresh.tunnel
  BY FreshShaped DEF IInv
<1>3. csp' = [fresh EXCEPT !.http.client_ssl = csp.http.client_ssl]
  BY <1>1
<1> HIDE DEF fresh
<1>4. SameRules(csp, csp') /\ csp'.tags = {} /\ ~csp'.tunnel
  BY <1>2, <1>3 DEF Shaped, CspFields, SameRules
<1> QED
  BY <1>4 DEF NextRequest

LEMMA NextClientFrame ==
  ASSUME IInv, NextClient
  PROVE  /\ SameRules(csp, csp') /\ disk' = disk /\ at \in {"answered", "closed"} /\ at' = "idle"
         /\ csp'.tags = {}
<1>1. PICK toggled \in BOOLEAN : csp' = [Fresh(csp, toggled) EXCEPT !.conn = NoConn, !.dontVerify = FALSE]
  BY DEF NextClient
<1> DEFINE fresh == Fresh(csp, toggled)
<1>2. Shaped(fresh) /\ SameRules(csp, fresh) /\ fresh.tags = {}
  BY FreshShaped DEF IInv
<1>3. csp' = [fresh EXCEPT !.conn = NoConn, !.dontVerify = FALSE]
  BY <1>1
<1> HIDE DEF fresh
<1>4. SameRules(csp, csp') /\ csp'.tags = {}
  BY <1>2, <1>3 DEF Shaped, CspFields, SameRules
<1> QED
  BY <1>4 DEF NextClient

-----------------------------------------------------------------------------
(* The rules of the files that were loaded.                                *)

\* What is in force for clients is what is in the files.
Ruled ==
  /\ disk \in Disks
  /\ at \notin {"starting", "exited"} =>
       /\ csp.config = load_config(disk.config) /\ csp.config.ok
       /\ csp.files = ActionsFiles(csp.config).list /\ ActionsFiles(csp.config).ok

LEMMA RuledKept ==
  ASSUME Ruled, SameRules(csp, csp'), disk' = disk, at \notin {"starting", "exited"}
  PROVE  Ruled'
<1>1. ActionsFiles(csp.config)' = ActionsFiles(csp.config)
  BY DEF SameRules, ActionsFiles
<1> QED
  BY <1>1 DEF Ruled, SameRules

LEMMA LoadFilesRules == ASSUME IInv, Ruled, LoadFiles PROVE Ruled'
<1>1. Shaped(csp) /\ at = "starting" /\ disk' = disk
  BY DEF LoadFiles, IInv
<1>2. PICK config \in {load_config(disk.config)} : Loads(config, ActionsFiles(config), TrustFile(config))
  BY DEF LoadFiles
<1> DEFINE read == ActionsFiles(config)
           trust == TrustFile(config)
           Loaded(toggled) ==
             [Fresh(csp, toggled) EXCEPT !.config = config, !.files = read.list, !.trust = trust,
                                         !.keepAliveTimeout = config.number["keep-alive-timeout"]]
<1>3. \/ config.ok /\ read.ok /\ at' = "idle" /\ \E toggled \in BOOLEAN : csp' = Loaded(toggled)
      \/ at' = "exited"
  BY <1>2 DEF Loads
<1> HIDE DEF read, trust
<1>4. CASE config.ok /\ read.ok /\ at' = "idle" /\ \E toggled \in BOOLEAN : csp' = Loaded(toggled)
  <2>1. PICK toggled \in BOOLEAN : csp' = Loaded(toggled)
    BY <1>4
  <2> DEFINE fresh == Fresh(csp, toggled)
  <2>2. Shaped(fresh)
    BY <1>1, FreshShaped
  <2>3. csp' = [fresh EXCEPT !.config = config, !.files = read.list, !.trust = trust,
                             !.keepAliveTimeout = config.number["keep-alive-timeout"]]
    BY <2>1
  <2> HIDE DEF fresh
  <2>4. csp'.config = config /\ csp'.files = read.list
    BY <2>2, <2>3 DEF Shaped, CspFields
  <2>5. ActionsFiles(csp.config)' = read
    BY <1>1, <2>4 DEF ActionsFiles, read
  <2> QED
    BY <1>1, <1>2, <1>4, <2>4, <2>5 DEF Ruled
<1>5. CASE at' = "exited"
  BY <1>1, <1>5 DEF Ruled
<1> QED
  BY <1>3, <1>4, <1>5

\* Steps that only have to do with the connection, or with nothing.
Quiet == Handshake \/ SkipBody \/ BodyLost \/ AskParent \/ ServerHandshake \/ Send \/ SendFails \/ ContinueInner
LEMMA QuietFrame ==
  ASSUME IInv, Quiet
  PROVE  /\ SameRules(csp, csp') /\ disk' = disk /\ at \notin {"starting", "exited"}
         /\ csp'.tags = csp.tags /\ csp'.action = csp.action /\ csp'.https = csp.https /\ csp'.http = csp.http
         /\ csp'.tunnel = csp.tunnel /\ csp'.rewritten = csp.rewritten /\ csp'.body = csp.body
         /\ asked' = asked /\ csp'.head \in {csp.head, <<>>} /\ csp'.conn.fwd = csp.conn.fwd
<1>1. Shaped(csp)
  BY DEF IInv
<1>2. /\ disk' = disk /\ asked' = asked /\ at \notin {"starting", "exited"}
      /\ csp' \in {csp, [csp EXCEPT !.head = <<>>], [csp EXCEPT !.conn.tls = TRUE]}
  BY DEF Quiet, Handshake, SkipBody, BodyLost, AskParent, ServerHandshake, Send, SendFails, ContinueInner,
         Ends, Same
<1>3. CASE csp' = csp
  BY <1>2, <1>3 DEF SameRules
<1>4. CASE csp' = [csp EXCEPT !.head = <<>>]
  BY <1>1, <1>2, <1>4 DEF Shaped, CspFields, SameRules
<1>5. CASE csp' = [csp EXCEPT !.conn.tls = TRUE]
  BY <1>1, <1>2, <1>5 DEF Shaped, CspFields, IsConn, ConnFields, SameRules
<1> QED
  BY <1>2, <1>3, <1>4, <1>5

LEMMA RulesStep == IInv /\ Ruled /\ [Next]_vars => Ruled'
<1> SUFFICES ASSUME IInv, Ruled, [Next]_vars PROVE Ruled'
  OBVIOUS
<1>1. CASE LoadFiles
  BY <1>1, LoadFilesRules
<1>2. CASE Quiet
  BY <1>2, QuietFrame, RuledKept
<1>3. CASE ReceiveRequest
  BY <1>3, ReceiveRequestFrame, RuledKept
<1>4. CASE ParseRequest
  BY <1>4, ParseRequestFrame, RuledKept
<1>5. CASE Decide
  BY <1>5, DecideFrame, RuledKept
<1>6. CASE ReceiveInner
  BY <1>6, ReceiveInnerFrame, RuledKept
<1>7. CASE ReadBody
  BY <1>7, ReadBodyFrame, RuledKept
<1>8. CASE Connect
  BY <1>8, ConnectFrame, RuledKept
<1>9. CASE Answer
  BY <1>9, AnswerFrame, RuledKept
<1>10. CASE NextRequest
  BY <1>10, NextRequestFrame, RuledKept
<1>11. CASE NextClient
  BY <1>11, NextClientFrame, RuledKept
<1>12. CASE UNCHANGED vars
  <2>1. ActionsFiles(csp.config)' = ActionsFiles(csp.config)
    BY <1>12 DEF vars, ActionsFiles
  <2> QED
    BY <1>12, <2>1 DEF vars, Ruled
<1> QED
  BY <1>1, <1>2, <1>3, <1>4, <1>5, <1>6, <1>7, <1>8, <1>9, <1>10, <1>11, <1>12 DEF Next, Quiet

\* The files that are in force are those that were loaded (load_config(), load_action_files()).
THEOREM RulesAsLoaded == Spec => []Ruled
<1>1. Init => Ruled
  BY DEF Init, Ruled
<1>2. IInv /\ Ruled /\ [Next]_vars => Ruled'
  BY RulesStep
<1> QED
  BY <1>1, <1>2, RequestInvariant, PTL DEF Spec

-----------------------------------------------------------------------------
(* The forwarder.                                                          *)

\* What a forwarder is looked up by stays, the forwarder does.
LEMMA SameForwarder ==
  ASSUME NEW c, NEW t, t.config = c.config, t.action = c.action,
         t.http.host = c.http.host, t.http.port = c.http.port, t.http.path = c.http.path
  PROVE  forward_url(t) = forward_url(c)
<1>1. On(t, "forward-override") <=> On(c, "forward-override")
  BY DEF On
<1>2. CASE On(c, "forward-override")
  BY <1>1, <1>2 DEF forward_url, Value
<1>3. CASE ~On(c, "forward-override")
  <2>1. \A p : url_match(p, t.http) <=> url_match(p, c.http)
    BY DEF url_match
  <2>2. forward_url(t) = FirstMatch(c.config.forward, t.http) /\ forward_url(c) = FirstMatch(c.config.forward, c.http)
    BY <1>1, <1>3, ForwardFound
  <2> DEFINE list == c.config.forward
             I(http) == {i \in 1..Len(list) : url_match(list[i].url, http)}
  <2>3. I(t.http) = I(c.http)
    BY <2>1
  <2>4. \A http : FirstMatch(list, http) = IF I(http) = {} THEN Direct ELSE list[Min(I(http))].fwd
    BY DEF FirstMatch
  <2> HIDE DEF I
  <2> QED
    BY <2>2, <2>3, <2>4
<1> QED
  BY <1>2, <1>3

\* The connection that is opened or used goes through the forwarder of the request.
ThroughForwarder ==
  /\ at \in Connecting => csp.conn.fwd = forward_url(csp)
  /\ at = "sent" => wire.fwd = forward_url(csp)

LEMMA ForwardedStep == IInv /\ ThroughForwarder /\ [Next]_vars => ThroughForwarder'
<1> SUFFICES ASSUME IInv, ThroughForwarder, [Next]_vars PROVE ThroughForwarder'
  OBVIOUS
<1>1. CASE at' \notin Connecting \cup {"sent"}
  BY <1>1 DEF ThroughForwarder
<1>2. CASE Connect
  <2>1. forward_url(csp') = forward_url(csp)
    BY <1>2, ConnectFrame, SameForwarder DEF SameRules
  <2> QED
    BY <1>2, <2>1, ConnectFrame DEF ThroughForwarder, Connecting
<1>3. CASE AskParent \/ ServerHandshake \/ Send \/ ContinueInner
  <2>1. forward_url(csp') = forward_url(csp) /\ csp'.conn.fwd = csp.conn.fwd
    BY <1>3, QuietFrame, SameForwarder DEF SameRules, Quiet
  <2>2. CASE AskParent \/ ServerHandshake
    <3>1. at \in Connecting /\ at' # "sent"
      BY <2>2 DEF AskParent, ServerHandshake, Ends, Connecting
    <3> QED
      BY <2>1, <3>1 DEF ThroughForwarder
  <2>3. CASE Send
    <3>1. at \in Connecting /\ at' \notin Connecting /\ wire'.fwd = csp.conn.fwd
      BY <2>3 DEF Send, Sends, Connecting
    <3> QED
      BY <2>1, <3>1 DEF ThroughForwarder
  <2>4. CASE ContinueInner
    <3>1. \/ at' = "closed"
          \/ at' = "sent" /\ wire'.fwd = csp.conn.fwd /\ csp.conn.fwd = forward_url(csp)
      BY <2>4 DEF ContinueInner, Sends, connection_destination_matches
    <3> QED
      BY <2>1, <3>1 DEF ThroughForwarder, Connecting
  <2> QED
    BY <1>3, <2>2, <2>3, <2>4
<1>4. CASE LoadFiles \/ Handshake \/ SkipBody \/ BodyLost \/ SendFails
  <2>1. at' \notin Connecting \cup {"sent"}
    BY <1>4 DEF LoadFiles, Loads, Handshake, SkipBody, BodyLost, SendFails, Ends, AfterBody, Connecting
  <2> QED
    BY <1>1, <2>1
<1>5. CASE ReceiveRequest \/ ParseRequest \/ Decide \/ ReceiveInner \/ ReadBody \/ Answer \/ NextRequest \/ NextClient
  <2>1. at' \notin Connecting \cup {"sent"}
    BY <1>5, ReceiveRequestFrame, ParseRequestFrame, DecideFrame, ReceiveInnerFrame, ReadBodyFrame, AnswerFrame,
       NextRequestFrame, NextClientFrame DEF Connecting
  <2> QED
    BY <1>1, <2>1
<1>6. CASE UNCHANGED vars
  <2>1. forward_url(csp') = forward_url(csp)
    BY <1>6 DEF vars
  <2> QED
    BY <1>6, <2>1 DEF vars, ThroughForwarder
<1> QED
  BY <1>2, <1>3, <1>4, <1>5, <1>6 DEF Next

\* The patterns of the forwarders match the request's URL as they are documented to.
ForwardersMatchAsDescribed ==
  \A i \in DOMAIN disk.config :
    IsForward(disk.config[i]) /\ Complete(disk.config[i]) =>
      (url_match(disk.config[i].args[1], csp.http) <=> Described(disk.config[i].args[1], csp.http))

\* A request goes through the forwarder of the last directive for its URL if patterns match
\* as they are documented to (load_config(), forward_url(), connection_destination_matches()).
THEOREM ForwardedAsConfigured == Spec => [](ForwardersMatchAsDescribed => ForwardedByLastRule)
<1>1. Init => ThroughForwarder
  BY DEF Init, ThroughForwarder, Connecting
<1>2. IInv /\ ThroughForwarder /\ [Next]_vars => ThroughForwarder'
  BY ForwardedStep
<1>3. Ruled /\ ThroughForwarder => (ForwardersMatchAsDescribed => ForwardedByLastRule)
  <2> SUFFICES ASSUME Ruled, ThroughForwarder, ForwardersMatchAsDescribed, at = "sent", ~On(csp, "forward-override")
               PROVE  LET lines    == disk.config
                          matching == {i \in DOMAIN lines : IsForward(lines[i]) /\ Complete(lines[i])
                                                            /\ Described(lines[i].args[1], csp.http)}
                      IN  wire.fwd = IF matching = {} THEN Direct ELSE Said(lines[Max(matching)])
    BY DEF ForwardedByLastRule
  <2> DEFINE lines == disk.config
             n == Len(lines)
             M == {i \in 1..n : IsForward(lines[i]) /\ Complete(lines[i]) /\ url_match(lines[i].args[1], csp.http)}
             D == {i \in DOMAIN lines : IsForward(lines[i]) /\ Complete(lines[i])
                                        /\ Described(lines[i].args[1], csp.http)}
  <2>1. IsList(lines)
    BY DisksAssumption DEF Ruled, IsList
  <2>2. DOMAIN lines = 1..n
    BY <2>1, Listing
  <2>3. M = D
    BY <2>2 DEF ForwardersMatchAsDescribed
  <2>4. wire.fwd = FirstMatch(csp.config.forward, csp.http)
    BY ForwardFound DEF ThroughForwarder
  <2>5. csp.config = load_config(lines) /\ csp.config.ok
    BY DEF Ruled
  <2>6. FirstMatch(csp.config.forward, csp.http) = LastRule(lines, n, csp.http)
    BY <2>1, <2>5, ConfigRead DEF Read
  <2>7. LastRule(lines, n, csp.http) = IF M = {} THEN Direct ELSE Said(lines[Max(M)])
    BY DEF LastRule
  <2> HIDE DEF M, D, n
  <2>8. wire.fwd = IF D = {} THEN Direct ELSE Said(lines[Max(D)])
    BY <2>3, <2>4, <2>6, <2>7
  <2> QED
    BY <2>8 DEF D
<1> QED
  BY <1>1, <1>2, <1>3, RequestInvariant, RulesAsLoaded, PTL DEF Spec

-----------------------------------------------------------------------------
(* The rules that tags bring into force.                                   *)

IsAction(a) == DOMAIN a = {"flags", "string", "multi"}
\* A section that takes no block back.
Spares(a) == "block" \in a.mask \cup a.add
Sparing(applying)  == \A s \in applying : Spares(s.action)
Blocking(applying) == \E s \in applying : "block" \in s.action.add

LEMMA MergedBlocks ==
  ASSUME NEW dest, NEW src
  PROVE  LET a == merge_current_action(dest, src)
         IN  /\ IsAction(a) /\ ("block" \in src.add => "block" \in a.flags)
             /\ Spares(src) /\ "block" \in dest.flags => "block" \in a.flags
  BY DEF merge_current_action, IsAction, Spares

\* apply_url_actions(), section by section.
LEMMA SectionsLoop ==
  ASSUME NEW sections, IsList(sections), NEW action, NEW applying
  PROVE  \E g : /\ apply_url_actions(sections, action, applying) = g[Len(sections)]
               /\ \A i \in 0..Len(sections) :
                    g[i] = IF i = 0 THEN action
                           ELSE IF sections[i] \in applying
                                THEN merge_current_action(g[i - 1], sections[i].action)
                                ELSE g[i - 1]
<1> DEFINE n == Len(sections)
           Step(g, i) == IF i = 0 THEN action
                         ELSE IF sections[i] \in applying
                              THEN merge_current_action(g[i - 1], sections[i].action)
                              ELSE g[i - 1]
           IsAfter(g, k) == g = [i \in 0..k |-> Step(g, i)]
<1>1. n \in Nat
  BY Listing
<1> HIDE DEF n
<1>2. \E g : IsAfter(g, n)
  <2> DEFINE bad == {k \in Nat : ~ \E g : IsAfter(g, k)}
  <2>1. SUFFICES ASSUME bad # {} PROVE FALSE
    BY <1>1
  <2>2. PICK k \in bad : \A i \in bad : k <= i
    BY <2>1, LeastElement
  <2>3. CASE k = 0
    <3> DEFINE g == [i \in 0..0 |-> action]
    <3>1. IsAfter(g, 0)
      OBVIOUS
    <3> QED
      BY <2>2, <2>3, <3>1
  <2>4. CASE k # 0
    <3>1. k \in Nat /\ k - 1 \in Nat /\ ~(k <= k - 1)
      BY <2>2, <2>4
    <3>2. PICK g : IsAfter(g, k - 1)
      BY <2>2, <3>1
    <3> DEFINE h == [i \in 0..k |-> IF i < k THEN g[i] ELSE Step(g, k)]
    <3>3. DOMAIN g = 0..(k - 1) /\ \A i \in 0..(k - 1) : g[i] = Step(g, i)
      BY <3>2
    <3>4. ASSUME NEW i \in 0..k
          PROVE  h[i] = Step(h, i)
      <4>1. CASE i = 0
        <5>1. 0 \in 0..k /\ 0 < k /\ 0 \in 0..(k - 1)
          BY <3>1, <2>4
        <5>2. h[0] = g[0] /\ g[0] = action
          BY <3>3, <5>1
        <5> QED
          BY <4>1, <5>2
      <4>2. CASE i # 0 /\ i < k
        <5>1. i - 1 \in 0..k /\ i - 1 < k /\ i \in 0..(k - 1)
          BY <4>2, <3>1
        <5>2. h[i - 1] = g[i - 1] /\ h[i] = g[i]
          BY <4>2, <5>1
        <5> QED
          BY <3>3, <4>2, <5>1, <5>2
      <4>3. CASE i = k
        <5>1. h[k - 1] = g[k - 1]
          BY <3>1
        <5> QED
          BY <4>3, <5>1, <2>4, <3>1
      <4> QED
        BY <4>1, <4>2, <4>3, <3>1
    <3>5. IsAfter(h, k)
      <4> DEFINE hh == [i \in 0..k |-> Step(h, i)]
      <4>1. \A i \in 0..k : h[i] = hh[i]
        BY <3>4
      <4>2. h = hh
        BY <4>1
      <4> QED
        BY <4>2
    <3> QED
      BY <2>2, <3>5
  <2> QED
    BY <2>3, <2>4
<1> DEFINE After[i \in 0..n] == IF i = 0 THEN action
                               ELSE IF sections[i] \in applying
                                    THEN merge_current_action(After[i - 1], sections[i].action)
                                    ELSE After[i - 1]
<1>3. apply_url_actions(sections, action, applying) = After[n]
  BY DEF apply_url_actions, n
<1>4. IsAfter(After, n)
  BY <1>2
<1> HIDE DEF After
<1>5. \A i \in 0..n : After[i] = Step(After, i)
  BY <1>4
<1> QED
  BY <1>1, <1>3, <1>5 DEF n

LEMMA SectionsApplied ==
  ASSUME NEW sections, IsList(sections), NEW action, IsAction(action), NEW applying
  PROVE  LET a == apply_url_actions(sections, action, applying)
         IN  /\ IsAction(a)
             /\ Sparing(applying) /\ ("block" \in action.flags \/ Blocking(applying \cap Range(sections)))
                => "block" \in a.flags
<1> DEFINE n == Len(sections)
<1>1. n \in Nat /\ DOMAIN sections = 1..n
  BY Listing
<1>2. PICK g : /\ apply_url_actions(sections, action, applying) = g[n]
               /\ \A i \in 0..n :
                    g[i] = IF i = 0 THEN action
                           ELSE IF sections[i] \in applying THEN merge_current_action(g[i - 1], sections[i].action)
                           ELSE g[i - 1]
  BY SectionsLoop
<1> HIDE DEF n
<1> DEFINE Blocks(i) == "block" \in action.flags
                          \/ \E k \in 1..i : sections[k] \in applying /\ "block" \in sections[k].action.add
           Good(i) == IsAction(g[i]) /\ (Sparing(applying) /\ Blocks(i) => "block" \in g[i].flags)
<1>4. \A i \in 0..n : Good(i)
  <2> DEFINE bad == {i \in 0..n : ~Good(i)}
  <2>1. SUFFICES ASSUME bad # {} PROVE FALSE
    OBVIOUS
  <2>2. bad \subseteq Nat
    BY <1>1
  <2>3. \E i \in bad : \A k \in bad : i <= k
    <3> HIDE DEF bad
    <3> QED
      BY <2>1, <2>2, LeastElement
  <2>4. PICK i \in bad : \A k \in bad : i <= k
    BY <2>3
  <2>5. CASE i = 0
    <3>1. Good(0)
      BY <1>1, <1>2
    <3> QED
      BY <2>4, <2>5, <3>1
  <2>6. CASE i # 0
    <3>1. i \in 1..n /\ i - 1 \in 0..n /\ ~(i <= i - 1)
      BY <2>4, <2>6, <1>1
    <3>2. Good(i - 1)
      BY <2>4, <3>1
    <3>3. g[i] = IF sections[i] \in applying THEN merge_current_action(g[i - 1], sections[i].action)
                 ELSE g[i - 1]
      BY <1>2, <2>4, <2>6
    <3>4. Blocks(i) => Blocks(i - 1) \/ (sections[i] \in applying /\ "block" \in sections[i].action.add)
      BY <3>1, <1>1
    <3>5. Sparing(applying) /\ sections[i] \in applying => Spares(sections[i].action)
      BY DEF Sparing
    <3>9. Good(i)
      <4>1. CASE sections[i] \in applying
        <5> DEFINE m == merge_current_action(g[i - 1], sections[i].action)
        <5>1. /\ IsAction(m) /\ ("block" \in sections[i].action.add => "block" \in m.flags)
              /\ Spares(sections[i].action) /\ "block" \in g[i - 1].flags => "block" \in m.flags
          BY MergedBlocks
        <5>2. g[i] = m
          BY <3>3, <4>1
        <5> HIDE DEF m, Blocks
        <5> QED
          BY <3>2, <3>4, <3>5, <4>1, <5>1, <5>2
      <4>2. CASE sections[i] \notin applying
        BY <3>2, <3>3, <3>4, <4>2
      <4> QED
        BY <4>1, <4>2
    <3> QED
      BY <2>4, <3>9
  <2> QED
    BY <2>5, <2>6
<1>5. Blocking(applying \cap Range(sections)) => Blocks(n)
  BY <1>1 DEF Blocking, Range
<1>6. Good(n)
  BY <1>1, <1>4
<1> HIDE DEF Blocks
<1>7. "block" \in action.flags => Blocks(n)
  BY DEF Blocks
<1> QED
  BY <1>2, <1>5, <1>6, <1>7 DEF n

\* The files that were loaded.
AreLoaded(c) ==
  IsList(c.files) /\ \A i \in DOMAIN c.files : IsList(c.files[i].sections) /\ c.files[i].loaded

\* Merged(), file by file.
LEMMA FilesLoop ==
  ASSUME NEW c, IsList(c.files), NEW action, NEW applying
  PROVE  \E g : /\ Merged(c, action, applying) = g[Len(c.files)]
               /\ \A i \in 0..Len(c.files) :
                    g[i] = IF i = 0 THEN action
                           ELSE apply_url_actions(c.files[i].sections, g[i - 1], applying)
<1> DEFINE n == Len(c.files)
           Step(g, i) == IF i = 0 THEN action ELSE apply_url_actions(c.files[i].sections, g[i - 1], applying)
           IsAfter(g, k) == g = [i \in 0..k |-> Step(g, i)]
<1>1. n \in Nat
  BY Listing
<1> HIDE DEF n
<1>2. \E g : IsAfter(g, n)
  <2> DEFINE bad == {k \in Nat : ~ \E g : IsAfter(g, k)}
  <2>1. SUFFICES ASSUME bad # {} PROVE FALSE
    BY <1>1
  <2>2. PICK k \in bad : \A i \in bad : k <= i
    BY <2>1, LeastElement
  <2>3. CASE k = 0
    <3> DEFINE g == [i \in 0..0 |-> action]
    <3>1. IsAfter(g, 0)
      OBVIOUS
    <3> QED
      BY <2>2, <2>3, <3>1
  <2>4. CASE k # 0
    <3>1. k \in Nat /\ k - 1 \in Nat /\ ~(k <= k - 1)
      BY <2>2, <2>4
    <3>2. PICK g : IsAfter(g, k - 1)
      BY <2>2, <3>1
    <3> DEFINE h == [i \in 0..k |-> IF i < k THEN g[i] ELSE Step(g, k)]
    <3>3. DOMAIN g = 0..(k - 1) /\ \A i \in 0..(k - 1) : g[i] = Step(g, i)
      BY <3>2
    <3>4. ASSUME NEW i \in 0..k
          PROVE  h[i] = Step(h, i)
      <4>1. CASE i = 0
        <5>1. 0 \in 0..k /\ 0 < k /\ 0 \in 0..(k - 1)
          BY <3>1, <2>4
        <5>2. h[0] = g[0] /\ g[0] = action
          BY <3>3, <5>1
        <5> QED
          BY <4>1, <5>2
      <4>2. CASE i # 0 /\ i < k
        <5>1. i - 1 \in 0..k /\ i - 1 < k /\ i \in 0..(k - 1)
          BY <4>2, <3>1
        <5>2. h[i - 1] = g[i - 1] /\ h[i] = g[i]
          BY <4>2, <5>1
        <5> QED
          BY <3>3, <4>2, <5>1, <5>2
      <4>3. CASE i = k
        <5>1. h[k - 1] = g[k - 1]
          BY <3>1
        <5> QED
          BY <4>3, <5>1, <2>4, <3>1
      <4> QED
        BY <4>1, <4>2, <4>3, <3>1
    <3>5. IsAfter(h, k)
      <4> DEFINE hh == [i \in 0..k |-> Step(h, i)]
      <4>1. \A i \in 0..k : h[i] = hh[i]
        BY <3>4
      <4>2. h = hh
        BY <4>1
      <4> QED
        BY <4>2
    <3> QED
      BY <2>2, <3>5
  <2> QED
    BY <2>3, <2>4
<1> DEFINE After[i \in 0..n] == IF i = 0 THEN action ELSE apply_url_actions(c.files[i].sections, After[i - 1], applying)
<1>3. Merged(c, action, applying) = After[n]
  BY DEF Merged, n
<1>4. IsAfter(After, n)
  BY <1>2
<1> HIDE DEF After
<1>5. \A i \in 0..n : After[i] = Step(After, i)
  BY <1>4
<1> QED
  BY <1>1, <1>3, <1>5 DEF n

LEMMA FilesMerged ==
  ASSUME NEW c, AreLoaded(c), NEW action, IsAction(action), NEW applying, applying \subseteq Sections(c)
  PROVE  LET a == Merged(c, action, applying)
         IN  /\ IsAction(a)
             /\ Sparing(applying) /\ ("block" \in action.flags \/ Blocking(applying)) => "block" \in a.flags
<1> DEFINE n == Len(c.files)
           Of(i) == c.files[i].sections
<1>1. n \in Nat /\ DOMAIN c.files = 1..n /\ \A i \in 1..n : IsList(Of(i))
  BY Listing DEF AreLoaded
<1>2. PICK g : /\ Merged(c, action, applying) = g[n]
               /\ \A i \in 0..n : g[i] = IF i = 0 THEN action ELSE apply_url_actions(Of(i), g[i - 1], applying)
  BY FilesLoop DEF AreLoaded
<1>3. Blocking(applying) => \E k \in 1..n : Blocking(applying \cap Range(Of(k)))
  BY <1>1 DEF Blocking, Sections
<1> HIDE DEF n, Of
<1> DEFINE Blocks(i) == "block" \in action.flags \/ \E k \in 1..i : Blocking(applying \cap Range(Of(k)))
           Good(i) == IsAction(g[i]) /\ (Sparing(applying) /\ Blocks(i) => "block" \in g[i].flags)
<1>4. \A i \in 0..n : Good(i)
  <2> DEFINE bad == {i \in 0..n : ~Good(i)}
  <2>1. SUFFICES ASSUME bad # {} PROVE FALSE
    OBVIOUS
  <2>2. bad \subseteq Nat
    BY <1>1
  <2>3. \E i \in bad : \A k \in bad : i <= k
    <3> HIDE DEF bad
    <3> QED
      BY <2>1, <2>2, LeastElement
  <2>4. PICK i \in bad : \A k \in bad : i <= k
    BY <2>3
  <2>5. CASE i = 0
    <3>1. Good(0)
      BY <1>1, <1>2
    <3> QED
      BY <2>4, <2>5, <3>1
  <2>6. CASE i # 0
    <3>1. i \in 1..n /\ i - 1 \in 0..n /\ ~(i <= i - 1)
      BY <2>4, <2>6, <1>1
    <3>2. Good(i - 1)
      BY <2>4, <3>1
    <3>3. g[i] = apply_url_actions(Of(i), g[i - 1], applying)
      BY <1>2, <2>4, <2>6
    <3>4. Blocks(i) => Blocks(i - 1) \/ Blocking(applying \cap Range(Of(i)))
      <4>1. \A k \in 1..i : k \in 1..(i - 1) \/ k = i
        BY <3>1, <1>1
      <4> QED
        BY <4>1
    <3>5. /\ IsAction(g[i])
          /\ Sparing(applying) /\ ("block" \in g[i - 1].flags \/ Blocking(applying \cap Range(Of(i))))
             => "block" \in g[i].flags
      BY <1>1, <3>1, <3>2, <3>3, SectionsApplied
    <3> HIDE DEF Blocks
    <3>9. Good(i)
      BY <3>2, <3>4, <3>5
    <3> QED
      BY <2>4, <3>9
  <2> QED
    BY <2>5, <2>6
<1>5. n \in 0..n
  BY <1>1
<1>6. Good(n)
  <2> HIDE DEF Good
  <2> QED
    BY <1>4, <1>5
<1>7. "block" \in action.flags \/ Blocking(applying) => Blocks(n)
  BY <1>3
<1> HIDE DEF Blocks
<1> QED
  BY <1>2, <1>6, <1>7 DEF n

LEMMA UrlActions ==
  ASSUME NEW c, Shaped(c), AreLoaded(c)
  PROVE  IsAction(get_url_actions(c).action)
<1> DEFINE applying == {s \in Sections(c) : url_match(s.url, c.http) \/ client_tag_match(s.url, c.clientTags)}
<1>1. {i \in DOMAIN c.files : ~c.files[i].loaded} = {}
  BY DEF AreLoaded
<1> DEFINE used == [c EXCEPT !.files = c.files]
<1>2. used.files = c.files
  BY DEF Shaped, CspFields
<1>3. get_url_actions(c) = [c EXCEPT !.action = Merged(used, NoAction, applying)]
  BY <1>1 DEF get_url_actions
<1>4. applying \subseteq Sections(used) /\ AreLoaded(used)
  BY <1>2 DEF Sections, AreLoaded
<1> HIDE DEF applying, used
<1>5. IsAction(Merged(used, NoAction, applying))
  BY <1>4, FilesMerged DEF IsAction, NoAction
<1> QED
  BY <1>3, <1>5 DEF Shaped, CspFields

\* What the tags of r ask for is in force, where c's files take no block back.
SparedTags(c) == \A s \in Sections(c) : s.url.kind \in {"TAG", "NO-REQUEST-TAG"} => Spares(s.action)
Heeds(c, r) ==
  /\ IsAction(r.action)
  /\ SparedTags(c) =>
       \A s \in Sections(c) : /\ s.url.kind = "TAG" /\ s.url.tags \cap r.tags # {}
                              /\ "block" \in s.action.add
                              => "block" \in r.action.flags

LEMMA SameHeeds ==
  ASSUME NEW c, NEW r, NEW d, NEW t, Heeds(c, r), d.files = c.files, t.action = r.action, t.tags = r.tags
  PROVE  Heeds(d, t)
<1>1. Sections(d) = Sections(c)
  BY DEF Sections
<1> QED
  BY <1>1 DEF Heeds, SparedTags

LEMMA TaggedHeeds ==
  ASSUME NEW c, AreLoaded(c), NEW r, Heeds(c, r), NEW tag
  PROVE  Heeds(c, Tagged(c, r, tag))
<1> DEFINE applying == ForTag(c, tag)
           a == Merged(c, r.action, applying)
           t == [action |-> a, tags |-> r.tags \cup {tag}]
<1>1. /\ applying \subseteq Sections(c) /\ (SparedTags(c) => Sparing(applying))
      /\ \A s \in Sections(c) : s.url.kind = "TAG" /\ tag \in s.url.tags => s \in applying
  BY DEF ForTag, SparedTags, Sparing
<1> HIDE DEF applying
<1>2. /\ IsAction(a)
      /\ Sparing(applying) /\ ("block" \in r.action.flags \/ Blocking(applying)) => "block" \in a.flags
  BY <1>1, FilesMerged DEF Heeds
<1> HIDE DEF a
<1>3. Heeds(c, t)
  <2>1. SUFFICES ASSUME SparedTags(c), NEW s \in Sections(c), s.url.kind = "TAG",
                        s.url.tags \cap (r.tags \cup {tag}) # {}, "block" \in s.action.add
                 PROVE  "block" \in a.flags
    BY <1>2 DEF Heeds
  <2>2. CASE tag \in s.url.tags
    BY <1>1, <1>2, <2>1, <2>2 DEF Blocking
  <2>3. CASE tag \notin s.url.tags
    <3>1. s.url.tags \cap r.tags # {}
      BY <2>1, <2>3
    <3> QED
      BY <1>1, <1>2, <2>1, <3>1 DEF Heeds
  <2> QED
    BY <2>2, <2>3
<1>4. Tagged(c, r, tag) = r \/ Tagged(c, r, tag) = t
  BY DEF Tagged, update_action_bits_for_tag, t, a, applying
<1> QED
  BY <1>3, <1>4

\* The next tagger, the next header.
RunOne(c, w, kind, tags) ==
  LET left == w.r.action.multi[kind] \ w.ran
      next == CHOOSE t \in left : TRUE
  IN  IF left = {} THEN w ELSE [r |-> Tagged(c, w.r, tags[next]), ran |-> w.ran \cup {next}]
ScanOne(c, w) ==
  LET left == (DOMAIN c.head \ {"line"}) \ w.seen
      next == CHOOSE n \in left : TRUE
  IN  IF left = {} THEN w ELSE [r |-> header_tagger(c, w.r, next), seen |-> w.seen \cup {next}]

\* Walk(), tagger by tagger.
LEMMA WalkLoop ==
  ASSUME NEW c, NEW first, NEW kind, NEW tags
  PROVE  \E g : /\ Walk(c, first, kind, tags) = g[Cardinality(Taggers)].r
               /\ \A i \in 0..Cardinality(Taggers) :
                    g[i] = IF i = 0 THEN [r |-> first, ran |-> {}] ELSE RunOne(c, g[i - 1], kind, tags)
<1> DEFINE n == Cardinality(Taggers)
           Step(g, i) == IF i = 0 THEN [r |-> first, ran |-> {}] ELSE RunOne(c, g[i - 1], kind, tags)
           IsAfter(g, k) == g = [i \in 0..k |-> Step(g, i)]
<1>1. n \in Nat
  BY FS_CardinalityType, TaggersAssumption
<1> HIDE DEF n
<1>2. \E g : IsAfter(g, n)
  <2> DEFINE bad == {k \in Nat : ~ \E g : IsAfter(g, k)}
  <2>1. SUFFICES ASSUME bad # {} PROVE FALSE
    BY <1>1
  <2>2. PICK k \in bad : \A i \in bad : k <= i
    BY <2>1, LeastElement
  <2>3. CASE k = 0
    <3> DEFINE g == [i \in 0..0 |-> [r |-> first, ran |-> {}]]
    <3>1. IsAfter(g, 0)
      OBVIOUS
    <3> QED
      BY <2>2, <2>3, <3>1
  <2>4. CASE k # 0
    <3>1. k \in Nat /\ k - 1 \in Nat /\ ~(k <= k - 1)
      BY <2>2, <2>4
    <3>2. PICK g : IsAfter(g, k - 1)
      BY <2>2, <3>1
    <3> DEFINE h == [i \in 0..k |-> IF i < k THEN g[i] ELSE Step(g, k)]
    <3>3. DOMAIN g = 0..(k - 1) /\ \A i \in 0..(k - 1) : g[i] = Step(g, i)
      BY <3>2
    <3>4. ASSUME NEW i \in 0..k
          PROVE  h[i] = Step(h, i)
      <4>1. CASE i = 0
        <5>1. 0 \in 0..k /\ 0 < k /\ 0 \in 0..(k - 1)
          BY <3>1, <2>4
        <5>2. h[0] = g[0] /\ g[0] = [r |-> first, ran |-> {}]
          BY <3>3, <5>1
        <5> QED
          BY <4>1, <5>2
      <4>2. CASE i # 0 /\ i < k
        <5>1. i - 1 \in 0..k /\ i - 1 < k /\ i \in 0..(k - 1)
          BY <4>2, <3>1
        <5>2. h[i - 1] = g[i - 1] /\ h[i] = g[i]
          BY <4>2, <5>1
        <5> QED
          BY <3>3, <4>2, <5>1, <5>2
      <4>3. CASE i = k
        <5>1. h[k - 1] = g[k - 1]
          BY <3>1
        <5> QED
          BY <4>3, <5>1, <2>4, <3>1
      <4> QED
        BY <4>1, <4>2, <4>3, <3>1
    <3>5. IsAfter(h, k)
      <4> DEFINE hh == [i \in 0..k |-> Step(h, i)]
      <4>1. \A i \in 0..k : h[i] = hh[i]
        BY <3>4
      <4>2. h = hh
        BY <4>1
      <4> QED
        BY <4>2
    <3> QED
      BY <2>2, <3>5
  <2> QED
    BY <2>3, <2>4
<1> DEFINE After[i \in 0..n] == IF i = 0 THEN [r |-> first, ran |-> {}] ELSE RunOne(c, After[i - 1], kind, tags)
<1>3. Walk(c, first, kind, tags) = After[n].r
  BY DEF Walk, RunOne, n
<1>4. IsAfter(After, n)
  BY <1>2
<1> HIDE DEF After
<1>5. \A i \in 0..n : After[i] = Step(After, i)
  BY <1>4
<1> QED
  BY <1>1, <1>3, <1>5 DEF n

LEMMA WalkHeeds ==
  ASSUME NEW c, AreLoaded(c), NEW first, Heeds(c, first), NEW kind, NEW tags
  PROVE  Heeds(c, Walk(c, first, kind, tags))
<1> DEFINE n == Cardinality(Taggers)
<1>1. n \in Nat
  BY FS_CardinalityType, TaggersAssumption
<1>2. PICK g : /\ Walk(c, first, kind, tags) = g[n].r
               /\ \A i \in 0..n : g[i] = IF i = 0 THEN [r |-> first, ran |-> {}] ELSE RunOne(c, g[i - 1], kind, tags)
  BY WalkLoop
<1> HIDE DEF n
<1> DEFINE Good(i) == Heeds(c, g[i].r)
<1>4. \A i \in 0..n : Good(i)
  <2> DEFINE bad == {i \in 0..n : ~Good(i)}
  <2>1. SUFFICES ASSUME bad # {} PROVE FALSE
    OBVIOUS
  <2>2. bad \subseteq Nat
    BY <1>1
  <2>3. \E i \in bad : \A k \in bad : i <= k
    <3> HIDE DEF bad
    <3> QED
      BY <2>1, <2>2, LeastElement
  <2>4. PICK i \in bad : \A k \in bad : i <= k
    BY <2>3
  <2>5. CASE i = 0
    <3>1. Good(0)
      BY <1>1, <1>2
    <3> QED
      BY <2>4, <2>5, <3>1
  <2>6. CASE i # 0
    <3>1. i \in 1..n /\ i - 1 \in 0..n /\ ~(i <= i - 1)
      BY <2>4, <2>6, <1>1
    <3>2. Good(i - 1)
      BY <2>4, <3>1
    <3>3. g[i] = RunOne(c, g[i - 1], kind, tags)
      BY <1>2, <2>4, <2>6
    <3>4. g[i] = g[i - 1] \/ \E tag : g[i].r = Tagged(c, g[i - 1].r, tag)
      <4> DEFINE w == g[i - 1]
                 next == CHOOSE t \in (w.r.action.multi[kind] \ w.ran) : TRUE
      <4>1. RunOne(c, w, kind, tags) = w \/ RunOne(c, w, kind, tags).r = Tagged(c, w.r, tags[next])
        BY DEF RunOne
      <4> QED
        BY <3>3, <4>1
    <3>9. Good(i)
      BY <3>2, <3>4, TaggedHeeds
    <3> QED
      BY <2>4, <3>9
  <2> QED
    BY <2>5, <2>6
<1>5. n \in 0..n
  BY <1>1
<1> QED
  BY <1>2, <1>4, <1>5

\* scan_headers(), header by header.
LEMMA ScanLoop ==
  ASSUME NEW c, IsFiniteSet(DOMAIN c.head)
  PROVE  \E g : /\ scan_headers(c) = Rates(c, g[Cardinality(DOMAIN c.head \ {"line"})].r)
               /\ \A i \in 0..Cardinality(DOMAIN c.head \ {"line"}) :
                    g[i] = IF i = 0 THEN [r |-> header_tagger(c, Rated(c), "line"), seen |-> {}]
                           ELSE ScanOne(c, g[i - 1])
<1> DEFINE n == Cardinality(DOMAIN c.head \ {"line"})
           Step(g, i) == IF i = 0 THEN [r |-> header_tagger(c, Rated(c), "line"), seen |-> {}] ELSE ScanOne(c, g[i - 1])
           IsAfter(g, k) == g = [i \in 0..k |-> Step(g, i)]
<1>1. n \in Nat
  BY FS_CardinalityType, FS_Subset
<1> HIDE DEF n
<1>2. \E g : IsAfter(g, n)
  <2> DEFINE bad == {k \in Nat : ~ \E g : IsAfter(g, k)}
  <2>1. SUFFICES ASSUME bad # {} PROVE FALSE
    BY <1>1
  <2>2. PICK k \in bad : \A i \in bad : k <= i
    BY <2>1, LeastElement
  <2>3. CASE k = 0
    <3> DEFINE g == [i \in 0..0 |-> [r |-> header_tagger(c, Rated(c), "line"), seen |-> {}]]
    <3>1. IsAfter(g, 0)
      OBVIOUS
    <3> QED
      BY <2>2, <2>3, <3>1
  <2>4. CASE k # 0
    <3>1. k \in Nat /\ k - 1 \in Nat /\ ~(k <= k - 1)
      BY <2>2, <2>4
    <3>2. PICK g : IsAfter(g, k - 1)
      BY <2>2, <3>1
    <3> DEFINE h == [i \in 0..k |-> IF i < k THEN g[i] ELSE Step(g, k)]
    <3>3. DOMAIN g = 0..(k - 1) /\ \A i \in 0..(k - 1) : g[i] = Step(g, i)
      BY <3>2
    <3>4. ASSUME NEW i \in 0..k
          PROVE  h[i] = Step(h, i)
      <4>1. CASE i = 0
        <5>1. 0 \in 0..k /\ 0 < k /\ 0 \in 0..(k - 1)
          BY <3>1, <2>4
        <5>2. h[0] = g[0] /\ g[0] = [r |-> header_tagger(c, Rated(c), "line"), seen |-> {}]
          BY <3>3, <5>1
        <5> QED
          BY <4>1, <5>2
      <4>2. CASE i # 0 /\ i < k
        <5>1. i - 1 \in 0..k /\ i - 1 < k /\ i \in 0..(k - 1)
          BY <4>2, <3>1
        <5>2. h[i - 1] = g[i - 1] /\ h[i] = g[i]
          BY <4>2, <5>1
        <5> QED
          BY <3>3, <4>2, <5>1, <5>2
      <4>3. CASE i = k
        <5>1. h[k - 1] = g[k - 1]
          BY <3>1
        <5> QED
          BY <4>3, <5>1, <2>4, <3>1
      <4> QED
        BY <4>1, <4>2, <4>3, <3>1
    <3>5. IsAfter(h, k)
      <4> DEFINE hh == [i \in 0..k |-> Step(h, i)]
      <4>1. \A i \in 0..k : h[i] = hh[i]
        BY <3>4
      <4>2. h = hh
        BY <4>1
      <4> QED
        BY <4>2
    <3> QED
      BY <2>2, <3>5
  <2> QED
    BY <2>3, <2>4
<1> DEFINE After[i \in 0..n] == IF i = 0 THEN [r |-> header_tagger(c, Rated(c), "line"), seen |-> {}]
                               ELSE ScanOne(c, After[i - 1])
<1>3. scan_headers(c) = Rates(c, After[n].r)
  BY DEF scan_headers, ScanOne, n
<1>4. IsAfter(After, n)
  BY <1>2
<1> HIDE DEF After
<1>5. \A i \in 0..n : After[i] = Step(After, i)
  BY <1>4
<1> QED
  BY <1>1, <1>3, <1>5 DEF n

LEMMA ScanHeeds ==
  ASSUME NEW c, Shaped(c), AreLoaded(c), IsFiniteSet(DOMAIN c.head), Heeds(c, c)
  PROVE  Heeds(scan_headers(c), scan_headers(c))
<1> DEFINE n == Cardinality(DOMAIN c.head \ {"line"})
<1>1. n \in Nat
  BY FS_CardinalityType, FS_Subset
<1>2. PICK g : /\ scan_headers(c) = Rates(c, g[n].r)
               /\ \A i \in 0..n : g[i] = IF i = 0 THEN [r |-> header_tagger(c, Rated(c), "line"), seen |-> {}]
                                      ELSE ScanOne(c, g[i - 1])
  BY ScanLoop
<1> HIDE DEF n
<1> DEFINE Good(i) == Heeds(c, g[i].r)
<1>3. \A r, name : Heeds(c, r) => Heeds(c, header_tagger(c, r, name))
  BY WalkHeeds DEF header_tagger
<1>4. \A i \in 0..n : Good(i)
  <2> DEFINE bad == {i \in 0..n : ~Good(i)}
  <2>1. SUFFICES ASSUME bad # {} PROVE FALSE
    OBVIOUS
  <2>2. bad \subseteq Nat
    BY <1>1
  <2>3. \E i \in bad : \A k \in bad : i <= k
    <3> HIDE DEF bad
    <3> QED
      BY <2>1, <2>2, LeastElement
  <2>4. PICK i \in bad : \A k \in bad : i <= k
    BY <2>3
  <2>5. CASE i = 0
    <3>1. Good(0)
      <4>1. Heeds(c, Rated(c))
        BY SameHeeds DEF Rated
      <4>2. g[0].r = header_tagger(c, Rated(c), "line")
        BY <1>1, <1>2
      <4> QED
        BY <1>3, <4>1, <4>2
    <3> QED
      BY <2>4, <2>5, <3>1
  <2>6. CASE i # 0
    <3>1. i \in 1..n /\ i - 1 \in 0..n /\ ~(i <= i - 1)
      BY <2>4, <2>6, <1>1
    <3>2. Good(i - 1)
      BY <2>4, <3>1
    <3>3. g[i] = ScanOne(c, g[i - 1])
      BY <1>2, <2>4, <2>6
    <3>4. g[i] = g[i - 1] \/ \E name : g[i].r = header_tagger(c, g[i - 1].r, name)
      <4> DEFINE w == g[i - 1]
                 next == CHOOSE t \in ((DOMAIN c.head \ {"line"}) \ w.seen) : TRUE
      <4>1. ScanOne(c, w) = w \/ ScanOne(c, w).r = header_tagger(c, w.r, next)
        BY DEF ScanOne
      <4> QED
        BY <3>3, <4>1
    <3>9. Good(i)
      BY <1>3, <3>2, <3>4
    <3> QED
      BY <2>4, <3>9
  <2> QED
    BY <2>5, <2>6
<1>5. n \in 0..n
  BY <1>1
<1>6. Heeds(c, g[n].r)
  BY <1>4, <1>5
<1> HIDE DEF Good
<1>7. /\ Rates(c, g[n].r).files = c.files /\ Rates(c, g[n].r).action = g[n].r.action
      /\ Rates(c, g[n].r).tags = g[n].r.tags
  BY RatesRerated DEF Rerated, Kept
<1> QED
  BY <1>2, <1>6, <1>7, SameHeeds

LEMMA HeadHeeds ==
  ASSUME NEW c, Shaped(c), AreLoaded(c), IsFiniteSet(DOMAIN c.head), Heeds(c, c)
  PROVE  Heeds(RatedHead(c), RatedHead(c))
<1> DEFINE s == scan_headers(c)
           applying == ForMissingTags(s)
           a == Merged(s, s.action, applying)
           t == [s EXCEPT !.action = a]
<1>1. Heeds(s, s)
  BY ScanHeeds
<1>2. Rerated(c, s)
  BY RatesRerated DEF scan_headers
<1> HIDE DEF s
<1>3. Shaped(s) /\ AreLoaded(s)
  BY <1>2 DEF Rerated, Kept, AreLoaded
<1>4. applying \subseteq Sections(s) /\ (SparedTags(s) => Sparing(applying))
  BY DEF ForMissingTags, SparedTags, Sparing
<1> HIDE DEF applying
<1>5. IsAction(a) /\ (Sparing(applying) /\ "block" \in s.action.flags => "block" \in a.flags)
  BY <1>1, <1>3, <1>4, FilesMerged DEF Heeds
<1> HIDE DEF a
<1>6. t.action = a /\ t.tags = s.tags /\ t.files = s.files
  BY <1>3 DEF Shaped, CspFields
<1>7. Heeds(s, t)
  BY <1>1, <1>4, <1>5, <1>6 DEF Heeds
<1>8. Heeds(t, t)
  BY <1>6, <1>7, SameHeeds
<1> QED
  BY <1>8 DEF RatedHead, check_negative_tag_patterns, s, a, applying

LEMMA SedHeeds ==
  ASSUME NEW c, Shaped(c), AreLoaded(c), IsFiniteSet(DOMAIN c.head), Heeds(c, c), Settled(c.http, c.head)
  PROVE  Heeds(sed(c), sed(c))
  BY HeadHeeds, SedKept, SameHeeds DEF Steady, Kept

LEMMA BodyHeeds ==
  ASSUME NEW c, Shaped(c), AreLoaded(c), Heeds(c, c), NEW body
  PROVE  Heeds(execute_client_body_taggers(c, body), execute_client_body_taggers(c, body))
<1> DEFINE tags == [t \in Taggers |-> BodyTag(t, body)]
           r == Walk(c, Rated(c), "client-body-tagger", tags)
<1>1. Heeds(c, Rated(c))
  BY SameHeeds DEF Rated
<1> HIDE DEF tags
<1>2. Heeds(c, r)
  BY <1>1, WalkHeeds
<1>3. execute_client_body_taggers(c, body) = Rates(c, r)
  BY DEF execute_client_body_taggers, r, tags
<1> HIDE DEF r
<1>4. Rates(c, r).files = c.files /\ Rates(c, r).action = r.action /\ Rates(c, r).tags = r.tags
  BY RatesRerated DEF Rerated, Kept
<1> QED
  BY <1>2, <1>3, <1>4, SameHeeds

\* A head as it was received has finitely many headers, and a referrer with a host.
LEMMA HeadListed ==
  ASSUME NEW r \in Requests \cup InnerRequests, NEW line, NEW head, head = Listed(r.head, line)
  PROVE  IsFiniteSet(DOMAIN head) /\ Referable(head)
<1>1. DOMAIN head = DOMAIN r.head \cup {"line"}
  BY DEF Listed
<1>2. IsFiniteSet(DOMAIN head)
  <2>1. IsFiniteSet(DOMAIN r.head)
    BY RequestAssumption
  <2> QED
    BY <1>1, <2>1, FS_AddElement
<1>3. "Referer" \in DOMAIN head => "Referer" \in DOMAIN r.head /\ head["Referer"] = r.head["Referer"]
  BY DEF Listed
<1> QED
  BY <1>2, <1>3, RequestAssumption DEF Referable

\* What was received of a request is what its client sent.
Begun == at = "received" => /\ asked \in Requests /\ csp.body = asked.body
                            /\ \E line : csp.head = Listed(asked.head, line)

\* No tag is forgotten while a request is on its way.
Obeyed ==
  at \notin {"exited", "closed", "answered"} =>
    /\ Heeds(csp, csp)
    /\ at \in {"starting", "idle", "received"} => csp.tags = {}

LEMMA MadeList == ASSUME NEW n \in Nat, NEW S, NEW f \in [1..n -> S] PROVE IsList(f)
<1>1. f \in Seq(S)
  OBVIOUS
<1> QED
  BY <1>1 DEF IsList

LEMMA RuledLoaded == ASSUME Ruled, at \notin {"starting", "exited"} PROVE AreLoaded(csp)
<1> DEFINE names == csp.config.actions_file
           files == [i \in DOMAIN names |-> disk.actions[names[i]]]
           read  == [i \in DOMAIN names |-> load_one_actions_file(files[i])]
           list  == [i \in DOMAIN names |-> [loaded |-> TRUE, sections |-> read[i].sections]]
<1>1. IsList(names)
  <2>1. IsList(disk.config) /\ csp.config = load_config(disk.config)
    BY DisksAssumption DEF Ruled, IsList
  <2>2. Read(load_config(disk.config), disk.config, Len(disk.config), csp.http)
    BY <2>1, ConfigRead
  <2> QED
    BY <2>1, <2>2 DEF Read
<1>2. Range(names) \subseteq DOMAIN disk.actions
  BY DEF Ruled, ActionsFiles
<1>3. csp.files = list
  BY Zenon, <1>2 DEF Ruled, ActionsFiles, load_action_files
<1>4. Len(names) \in Nat /\ DOMAIN names = 1..Len(names)
  BY <1>1, Listing
<1>5. \A i \in DOMAIN names : IsList(files[i]) /\ \A k \in DOMAIN files[i] : IsLine(files[i][k])
  <2> TAKE i \in DOMAIN names
  <2>1. names[i] \in DOMAIN disk.actions
    BY <1>2 DEF Range
  <2> QED
    BY <2>1, DisksAssumption DEF Ruled, IsList
<1> HIDE DEF names, files
<1>6. \A i \in DOMAIN names : IsList(read[i].sections)
  BY <1>5, FileRead
<1> HIDE DEF read
<1>7. IsList(list)
  <2>1. list \in [1..Len(names) -> {list[i] : i \in 1..Len(names)}]
    BY <1>4
  <2> HIDE DEF list
  <2> QED
    BY <1>4, <2>1, MadeList
<1> QED
  BY <1>3, <1>6, <1>7 DEF AreLoaded

LEMMA FreshRules == ASSUME NEW c, Shaped(c), NEW toggled PROVE Fresh(c, toggled).action = NoAction
  BY DEF Shaped, CspFields, Fresh

LEMMA NoActionHeeds == ASSUME NEW c, NEW r, r.tags = {}, IsAction(r.action) PROVE Heeds(c, r)
  BY DEF Heeds

\* What is received is rated as its URL says.
LEMMA RequestRated ==
  ASSUME NEW c, Shaped(c), AreLoaded(c), IsAction(c.action), NEW r
  PROVE  IsAction(receive_client_request(c, r).csp.action)
<1>1. ASSUME NEW http, IsHttp(http)
      PROVE  IsAction(Received(c, r, http).csp.action)
  <2> DEFINE c1 == [c EXCEPT !.http = http, !.body = r.body]
             c2 == ForceNoted(c1, r.line)
             c3 == Matched(c2)
             c4 == [c3 EXCEPT !.head = Listed(r.head, http.cmd)]
  <2>1. Shaped(c1) /\ c1.files = c.files
    BY <1>1 DEF Shaped, CspFields
  <2> HIDE DEF c1
  <2>2. Shaped(c2) /\ AreLoaded(c2)
    BY <2>1, ForceKept DEF Kept, AreLoaded
  <2> HIDE DEF c2
  <2>3. IsAction(c3.action)
    <3>1. IsAction(get_url_actions(c2).action)
      BY <2>2, UrlActions
    <3>2. IsAction([c2 EXCEPT !.action = NoAction].action)
      BY <2>2 DEF Shaped, CspFields, IsAction, NoAction
    <3> QED
      BY <3>1, <3>2 DEF Matched
  <2>4. Shaped(c3)
    BY <2>2, MatchedKept DEF Kept
  <2> HIDE DEF c3
  <2>5. c4.action = c3.action
    BY <2>4, HeadSteady DEF Steady
  <2>6. Received(c, r, http) = Goes(c4)
    BY DEF Received, c1, c2, c3, c4
  <2> HIDE DEF c4
  <2> QED
    BY <2>3, <2>5, <2>6 DEF Goes
<1> DEFINE line == Unforced(c, r.line)
           http == parse_http_request(line)
           host == get_destination_from_headers(http, r.head["Host"])
           a == receive_client_request(c, r)
           elsewhere == http.host = NoHost
           dest == IF elsewhere THEN host ELSE http
<1>2. \/ a = Tells(c, Error(400, "FTP")) \/ a = Tells(c, Error(400, "bad-request"))
      \/ a = Tells(c, Error(400, "missing-destination"))
      \/ http.ok /\ a = Received(c, r, dest)
  BY DEF receive_client_request
<1>3. http.ok => IsHttp(http) /\ IsHttp(host)
  <2> HIDE DEF line
  <2>1. http.ok => IsHttp(http)
    BY RequestParsed
  <2> HIDE DEF http
  <2> QED
    BY <2>1, HostGiven DEF get_destination_from_headers
<1>4. \A rsp : Tells(c, rsp).csp = c
  BY DEF Tells
<1> HIDE DEF a, http, host
<1> QED
  BY <1>1, <1>2, <1>3, <1>4 DEF a

LEMMA BegunKept == ASSUME IInv, Begun, Next PROVE Begun'
<1>1. CASE ReceiveRequest
  BY <1>1, ReceiveRequestFrame DEF Begun
<1>2. CASE ~ReceiveRequest
  <2>1. at' # "received"
    <3>1. CASE LoadFiles \/ Quiet
      BY <3>1 DEF LoadFiles, Loads, Quiet, Handshake, SkipBody, BodyLost, AskParent, ServerHandshake, Send, SendFails,
         ContinueInner, Ends, AfterBody
    <3>2. CASE ParseRequest \/ Decide \/ ReceiveInner \/ ReadBody \/ Connect
      BY <3>2, ParseRequestFrame, DecideFrame, ReceiveInnerFrame, ReadBodyFrame, ConnectFrame DEF Connecting
    <3>3. CASE Answer \/ NextRequest \/ NextClient
      BY <3>3, AnswerFrame, NextRequestFrame, NextClientFrame
    <3> QED
      BY <1>2, <3>1, <3>2, <3>3 DEF Next, Quiet
  <2> QED
    BY <2>1 DEF Begun
<1> QED
  BY <1>1, <1>2

LEMMA ObeyedKept ==
  ASSUME IInv, Ruled, Begun, Obeyed, IInv', Next
  PROVE  Obeyed'
<1>1. Shaped(csp) /\ (at \notin {"starting", "exited"} => AreLoaded(csp))
  BY RuledLoaded DEF IInv
<1>2. CASE LoadFiles
  <2>1. at = "starting" /\ at' \in {"idle", "exited"}
    BY <1>2 DEF LoadFiles, Loads
  <2>2. CASE at' = "idle"
    <3>1. PICK config, read, trust : Loads(config, read, trust)
      BY <1>2 DEF LoadFiles
    <3>2. PICK toggled \in BOOLEAN :
            csp' = [Fresh(csp, toggled) EXCEPT !.config = config, !.files = read.list, !.trust = trust,
                                               !.keepAliveTimeout = config.number["keep-alive-timeout"]]
      BY <2>2, <3>1 DEF Loads
    <3> DEFINE fresh == Fresh(csp, toggled)
    <3>3. Shaped(fresh) /\ fresh.tags = {} /\ fresh.action = NoAction
      BY <1>1, FreshShaped, FreshRules
    <3>4. csp' = [fresh EXCEPT !.config = config, !.files = read.list, !.trust = trust,
                               !.keepAliveTimeout = config.number["keep-alive-timeout"]]
      BY <3>2
    <3> HIDE DEF fresh
    <3>5. csp'.tags = {} /\ csp'.action = NoAction
      BY <3>3, <3>4 DEF Shaped, CspFields
    <3> QED
      BY <3>5, NoActionHeeds DEF Obeyed, IsAction, NoAction
  <2> QED
    BY <2>1, <2>2 DEF Obeyed
<1>3. CASE Quiet
  <2>1. SameRules(csp, csp') /\ csp'.tags = csp.tags /\ csp'.action = csp.action
    BY <1>3, QuietFrame
  <2>2. /\ at \notin {"exited", "closed", "answered"}
        /\ at' \notin {"starting", "idle", "received"}
    BY <1>3 DEF Quiet, Handshake, SkipBody, BodyLost, AskParent, ServerHandshake, Send, SendFails,
         ContinueInner, Ends, AfterBody
  <2>3. Heeds(csp', csp')
    BY <2>1, <2>2, SameHeeds DEF Obeyed, SameRules
  <2> QED
    BY <2>2, <2>3 DEF Obeyed
<1>4. CASE ReceiveRequest
  <2>1. at = "idle" /\ at' \in {"received", "closed"} /\ csp'.tags = csp.tags
    BY <1>4, ReceiveRequestFrame
  <2>2. csp'.tags = {} /\ IsAction(csp.action) /\ AreLoaded(csp)
    BY <1>1, <2>1 DEF Obeyed, Heeds
  <2>3. PICK r \in Requests, tags \in ClientTagSets :
          Does(receive_client_request([csp EXCEPT !.clientTags = tags, !.clientAddress = TRUE], r), "received")
    BY <1>4 DEF ReceiveRequest
  <2> DEFINE c == [csp EXCEPT !.clientTags = tags, !.clientAddress = TRUE]
  <2>4. Shaped(c) /\ c.files = csp.files /\ c.action = csp.action
    BY <1>1 DEF Shaped, CspFields
  <2>5. Does(receive_client_request(c, r), "received")
    BY <2>3
  <2> HIDE DEF c
  <2>6. IsAction(receive_client_request(c, r).csp.action)
    BY <2>2, <2>4, RequestRated DEF AreLoaded
  <2>7. csp' = receive_client_request(c, r).csp
    BY <2>5, DoesOne
  <2>8. IsAction(csp'.action)
    BY <2>6, <2>7
  <2> QED
    BY <2>1, <2>2, <2>8, NoActionHeeds DEF Obeyed
<1>5. CASE ParseRequest
  <2> DEFINE c == Prepared(csp)
  <2>1. at = "received" /\ SameRules(csp, csp') /\ at' \in {"parsed", "closed"} /\ Reworked(sed(c), csp')
    BY <1>5, ParseRequestFrame
  <2>2. Steady(csp, c) /\ c.head = csp.head
    BY <1>1, PreparedKept
  <2> HIDE DEF c
  <2>3. Shaped(c) /\ AreLoaded(c) /\ Heeds(c, c) /\ Settled(c.http, c.head) /\ IsFiniteSet(DOMAIN c.head)
    <3>1. Heeds(csp, csp) /\ Settled(csp.http, csp.head) /\ AreLoaded(csp)
      BY <1>1, <2>1 DEF Obeyed, IInv
    <3>2. IsFiniteSet(DOMAIN csp.head)
      BY <2>1, HeadListed DEF Begun
    <3> QED
      BY <2>2, <3>1, <3>2, SameHeeds DEF Steady, Kept, AreLoaded
  <2>4. Heeds(sed(c), sed(c)) /\ Kept(c, sed(c))
    BY <2>3, SedHeeds, SedKept
  <2>5. Heeds(csp', csp')
    BY <2>1, <2>2, <2>4, SameHeeds DEF Reworked, SameRules, Steady, Kept
  <2> QED
    BY <2>1, <2>5 DEF Obeyed
<1>6. CASE Decide
  <2>1. /\ at = "parsed" /\ SameRules(csp, csp') /\ at' \in {"handshake", "body", "answered"}
        /\ csp'.tags = csp.tags
        /\ IsAction(csp.action) => /\ IsAction(csp'.action)
                                   /\ csp.action.flags \subseteq csp'.action.flags
    BY <1>6, DecideFrame DEF IsAction
  <2>2. Heeds(csp, csp)
    BY <2>1 DEF Obeyed
  <2>3. Sections(csp') = Sections(csp)
    BY <2>1 DEF SameRules, Sections
  <2>4. Heeds(csp', csp')
    BY <2>1, <2>2, <2>3 DEF Heeds, SparedTags
  <2> QED
    BY <2>1, <2>4 DEF Obeyed
<1>7. CASE ReceiveInner
  <2>1. /\ at \in {"encrypted", "waiting"} /\ SameRules(csp, csp') /\ asked' \in InnerRequests
        /\ at' \in {"body", "body-again", "closed", "answered"}
        /\ at' \in {"body", "body-again"} =>
             \E s, t : Inner(csp, asked', s) /\ Reworked(sed_https(s), t) /\ Heard(t, csp')
    BY <1>7, ReceiveInnerFrame
  <2>2. CASE at' \in {"body", "body-again"}
    <3>1. PICK s, t : Inner(csp, asked', s) /\ Reworked(sed_https(s), t) /\ Heard(t, csp')
      BY <2>1, <2>2
    <3>2. IsAction(s.action)
      <4>1. PICK u : Shaped(u) /\ SameRules(csp, u) /\ s.action \in {csp.action, get_url_actions(u).action}
        BY <3>1 DEF Inner
      <4>2. IsAction(get_url_actions(u).action)
        BY <1>1, <2>1, <4>1, UrlActions DEF SameRules, AreLoaded
      <4>3. IsAction(csp.action)
        BY <2>1 DEF Obeyed, Heeds
      <4> QED
        BY <4>1, <4>2, <4>3
    <3> DEFINE w == Within(s)
    <3>3. /\ Shaped(s) /\ Settled(s.http, s.https) /\ s.files = csp.files
          /\ \E line : s.https = Listed(asked'.head, line)
      BY <3>1 DEF Inner, SameRules
    <3>4. /\ Kept(s, w) /\ w.head = s.https /\ w.tags = {} /\ w.action = s.action
          /\ sed_https(s).action = sed(w).action /\ sed_https(s).tags = sed(w).tags
          /\ Kept(s, sed_https(s))
      BY <3>3, InnerSedKept
    <3> HIDE DEF w
    <3>5. /\ Shaped(w) /\ AreLoaded(w) /\ Heeds(w, w) /\ Settled(w.http, w.head)
          /\ IsFiniteSet(DOMAIN w.head)
      <4>1. Heeds(w, w)
        BY <3>2, <3>4, NoActionHeeds
      <4>2. IsFiniteSet(DOMAIN w.head)
        BY <2>1, <3>3, <3>4, HeadListed
      <4> QED
        BY <1>1, <2>1, <3>3, <3>4, <4>1, <4>2 DEF Kept, AreLoaded
    <3>6. Heeds(sed(w), sed(w)) /\ Kept(w, sed(w))
      BY <3>5, SedHeeds, SedKept
    <3>7. csp'.action = sed(w).action /\ csp'.tags = sed(w).tags
      BY <3>1, <3>4 DEF Reworked, Heard
    <3>8. csp'.files = sed(w).files
      BY <2>1, <3>3, <3>4, <3>6 DEF SameRules, Kept
    <3>9. Heeds(csp', csp')
      BY <3>6, <3>7, <3>8, SameHeeds
    <3> QED
      BY <2>2, <3>9 DEF Obeyed
  <2> QED
    BY <2>1, <2>2 DEF Obeyed
<1>8. CASE ReadBody
  <2> DEFINE tagged == execute_client_body_taggers(csp, csp.body)
  <2>1. /\ at \in {"body", "body-again"} /\ SameRules(csp, csp')
        /\ at' \in {"forward", "continue", "closed", "answered"}
        /\ \E t : (t = csp \/ Heard(tagged, t)) /\ (csp' = t \/ Passes(t, csp'))
    BY <1>8, ReadBodyFrame
  <2>2. Heeds(csp, csp) /\ AreLoaded(csp)
    BY <1>1, <2>1 DEF Obeyed
  <2>3. Heeds(tagged, tagged)
    BY <1>1, <2>2, BodyHeeds
  <2> HIDE DEF tagged
  <2>4. PICK t : (t = csp \/ Heard(tagged, t)) /\ (csp' = t \/ Passes(t, csp'))
    BY <2>1
  <2>5. Heeds(t, t)
    BY <2>2, <2>3, <2>4, SameHeeds DEF Heard, Kept
  <2>6. Heeds(csp', csp')
    BY <2>4, <2>5, SameHeeds DEF Passes, Stays
  <2> QED
    BY <2>1, <2>6 DEF Obeyed
<1>9. CASE Connect
  <2>1. /\ at = "forward" /\ SameRules(csp, csp') /\ at' \in Connecting \cup {"closed"}
        /\ csp'.action = csp.action /\ csp'.tags = csp.tags
    BY <1>9, ConnectFrame
  <2>2. Heeds(csp', csp')
    BY <2>1, SameHeeds DEF Obeyed, SameRules
  <2> QED
    BY <2>1, <2>2 DEF Obeyed, Connecting
<1>10. CASE Answer
  BY <1>10, AnswerFrame DEF Obeyed
<1>11. CASE NextRequest \/ NextClient
  <2>1. csp'.tags = {} /\ csp'.action = NoAction
    <3>1. CASE NextRequest
      <4>1. PICK toggled \in BOOLEAN : csp' = [Fresh(csp, toggled) EXCEPT !.http.client_ssl = csp.http.client_ssl]
        BY <3>1 DEF NextRequest
      <4> DEFINE fresh == Fresh(csp, toggled)
      <4>2. Shaped(fresh) /\ fresh.tags = {} /\ fresh.action = NoAction
        BY <1>1, FreshShaped, FreshRules
      <4>3. csp' = [fresh EXCEPT !.http.client_ssl = csp.http.client_ssl]
        BY <4>1
      <4> HIDE DEF fresh
      <4> QED
        BY <4>2, <4>3 DEF Shaped, CspFields
    <3>2. CASE NextClient
      <4>1. PICK toggled \in BOOLEAN : csp' = [Fresh(csp, toggled) EXCEPT !.conn = NoConn, !.dontVerify = FALSE]
        BY <3>2 DEF NextClient
      <4> DEFINE fresh == Fresh(csp, toggled)
      <4>2. Shaped(fresh) /\ fresh.tags = {} /\ fresh.action = NoAction
        BY <1>1, FreshShaped, FreshRules
      <4>3. csp' = [fresh EXCEPT !.conn = NoConn, !.dontVerify = FALSE]
        BY <4>1
      <4> HIDE DEF fresh
      <4> QED
        BY <4>2, <4>3 DEF Shaped, CspFields
    <3> QED
      BY <1>11, <3>1, <3>2
  <2> QED
    BY <2>1, NoActionHeeds DEF Obeyed, IsAction, NoAction
<1> QED
  BY <1>2, <1>3, <1>4, <1>5, <1>6, <1>7, <1>8, <1>9, <1>10, <1>11 DEF Next, Quiet

-----------------------------------------------------------------------------
(* What leaves agrees with what was decided.                               *)

\* The head of the request that is worked on.
AtHand(c) == IF c.http.client_ssl THEN c.https ELSE c.head

\* The head stays the one that sed() or sed_https() decided about: no one touches it but
\* the one who builds the request line.
Tidied ==
  /\ at \in {"handshake", "encrypted", "waiting"} => ~csp.tunnel
  /\ at \in {"body-again", "continue"} => csp.http.client_ssl
  /\ at \in {"parsed", "body", "body-again"} /\ ~csp.rewritten => csp.body = asked.body
  /\ at \in {"parsed"} \cup (Approved \ {"sent"}) /\ ~csp.rewritten /\ asked.body = NoBody =>
       /\ csp.http.client_ssl => Inspects(csp)
       /\ DecidedHead(csp, AtHand(csp))
  /\ at = "sent" /\ ~csp.rewritten => HeadersAsDecided

\* A decision holds for what looks the same.
LEMMA SameDecided ==
  ASSUME NEW c, NEW d, NEW head, NEW other, DecidedHead(c, head),
         d.action.multi = c.action.multi, d.action.string = c.action.string, d.http.hostport = c.http.hostport,
         d.action.flags \subseteq c.action.flags \cup {"block"},
         \A n \in {"Cookie", "Referer"} : n \in DOMAIN other => n \in DOMAIN head /\ other[n] = head[n]
  PROVE  DecidedHead(d, other)
  BY DEF DecidedHead, On, Value

LEMMA NothingDecided == ASSUME NEW c PROVE DecidedHead(c, <<>>)
<1>1. \A n : n \notin DOMAIN <<>>
  OBVIOUS
<1> QED
  BY <1>1 DEF DecidedHead

LEMMA ParseTidied ==
  ASSUME IInv, Ruled, Begun, IInv', ParseRequest
  PROVE  Tidied'
<1>1. /\ at = "received" /\ asked' = asked /\ at' \in {"parsed", "closed"} /\ csp'.body = csp.body
      /\ Reworked(sed(Prepared(csp)), csp')
  BY ParseRequestFrame
<1>2. Shaped(csp) /\ Settled(csp.http, csp.head) /\ csp.body = asked.body /\ Referable(csp.head)
  BY <1>1, HeadListed DEF IInv, Begun
<1> DEFINE c == Prepared(csp)
<1>3. Shaped(c) /\ Settled(c.http, c.head) /\ Referable(c.head)
  BY <1>2, PreparedKept DEF Steady, Kept, Settled
<1> HIDE DEF c
<1>4. DecidedHead(sed(c), sed(c).head)
  BY <1>3, SedKept
<1>5. CASE at' = "parsed"
  <2>1. ~csp'.http.client_ssl
    BY <1>5 DEF IInv
  <2>2. ~csp'.rewritten => DecidedHead(csp', AtHand(csp'))
    BY <1>1, <1>4, <2>1 DEF Reworked, AtHand, c
  <2> QED
    BY <1>1, <1>2, <1>5, <2>1, <2>2 DEF Tidied, Approved, Connecting
<1> QED
  BY <1>1, <1>5 DEF Tidied, Approved, Connecting

LEMMA DecideTidied ==
  ASSUME IInv, Obeyed, Tidied, IInv', Decide
  PROVE  Tidied'
<1>1. /\ at = "parsed" /\ asked' = asked /\ at' \in {"handshake", "body", "answered"}
      /\ csp'.body = csp.body /\ csp'.head = csp.head
      /\ csp'.rewritten = csp.rewritten /\ csp'.http.hostport = csp.http.hostport
      /\ at' = "handshake" => ~csp'.tunnel
      /\ at' = "body" => ~csp'.http.client_ssl
  BY DecideFrame
<1>2. /\ csp'.action.multi = csp.action.multi /\ csp'.action.string = csp.action.string
      /\ csp'.action.flags \subseteq csp.action.flags \cup {"block"}
  <2>1. DOMAIN csp.action = {"flags", "string", "multi"}
    BY <1>1 DEF Obeyed, Heeds, IsAction
  <2> QED
    BY <2>1, DecideFrame
<1>3. CASE at' = "body" /\ ~csp'.rewritten /\ asked'.body = NoBody
  <2>1. DecidedHead(csp, AtHand(csp)) /\ AtHand(csp) = csp.head /\ AtHand(csp') = csp'.head
    BY <1>1, <1>3 DEF Tidied, AtHand, IInv
  <2>2. DecidedHead(csp', AtHand(csp'))
    BY <1>1, <1>2, <2>1, SameDecided
  <2> QED
    BY <1>1, <1>3, <2>2 DEF Tidied
<1>4. at' = "body" /\ ~csp'.rewritten => csp'.body = asked'.body
  BY <1>1 DEF Tidied
<1> QED
  BY <1>1, <1>3, <1>4 DEF Tidied, Approved, Connecting

LEMMA InnerTidied ==
  ASSUME IInv, Tidied, ReceiveInner
  PROVE  Tidied'
<1>1. /\ at \in {"encrypted", "waiting"} /\ asked' \in InnerRequests
      /\ at' \in {"body", "body-again", "closed", "answered"}
      /\ at' \in {"body", "body-again"} => csp'.http.client_ssl
      /\ at' \in {"body", "body-again"} =>
           \E s, t : Inner(csp, asked', s) /\ Reworked(sed_https(s), t) /\ Heard(t, csp')
  BY ReceiveInnerFrame
<1>2. CASE at' \in {"body", "body-again"} /\ ~csp'.rewritten
  <2>1. PICK s, t : Inner(csp, asked', s) /\ Reworked(sed_https(s), t) /\ Heard(t, csp')
    BY <1>1, <1>2
  <2>2. /\ Shaped(s) /\ Settled(s.http, s.https) /\ s.http.ssl /\ ~s.tunnel /\ s.body = asked'.body
        /\ Referable(s.https)
    BY <1>1, <2>1, HeadListed DEF Inner, Tidied
  <2>3. Kept(s, sed_https(s)) /\ DecidedHead(sed_https(s), sed_https(s).https)
    BY <2>2, InnerSedKept
  <2>4. t = sed_https(s)
    BY <1>2, <2>1 DEF Reworked, Heard, Kept
  <2>5. /\ csp'.http = s.http /\ csp'.tunnel = s.tunnel /\ csp'.body = s.body
        /\ csp'.https = t.https /\ csp'.action = t.action /\ csp'.http = t.http
    BY <2>1, <2>3, <2>4 DEF Heard, Kept
  <2>6. DecidedHead(csp', csp'.https)
    BY <2>3, <2>4, <2>5 DEF DecidedHead, On, Value
  <2>7. Inspects(csp') /\ AtHand(csp') = csp'.https
    BY <1>1, <1>2, <2>2, <2>5 DEF Inspects, AtHand
  <2> QED
    BY <1>1, <1>2, <2>2, <2>5, <2>6, <2>7 DEF Tidied
<1> QED
  BY <1>1, <1>2 DEF Tidied, Approved, Connecting

LEMMA BodyTidied ==
  ASSUME IInv, Tidied, ReadBody
  PROVE  Tidied'
<1>1. /\ at \in {"body", "body-again"} /\ asked' = asked
      /\ at' \in {"forward", "continue", "closed", "answered"}
      /\ at' \in {"forward", "continue"} => at' = AfterBody
      /\ BodyWanted(csp) /\ csp.body.size = csp.expected
      /\ csp'.http.client_ssl = csp.http.client_ssl
      /\ \E t : /\ t = csp \/ Heard(execute_client_body_taggers(csp, csp.body), t)
                /\ csp' = t \/ Passes(t, csp')
  BY ReadBodyFrame
<1>2. csp'.rewritten = csp.rewritten
  <2> DEFINE tagged == execute_client_body_taggers(csp, csp.body)
  <2>1. tagged.rewritten = csp.rewritten
    BY DEF execute_client_body_taggers, Rates, IInv, Shaped, CspFields
  <2> HIDE DEF tagged
  <2> QED
    BY <1>1, <2>1 DEF Heard, Kept, Passes, Stays, tagged
<1>3. ~csp.rewritten => asked.body # NoBody
  BY <1>1 DEF Tidied, BodyWanted, NoBody
<1>4. at' = "continue" => csp'.http.client_ssl
  BY <1>1 DEF AfterBody, Tidied
<1> QED
  BY <1>1, <1>2, <1>3, <1>4 DEF Tidied

LEMMA ConnectTidied ==
  ASSUME IInv, Tidied, Connect
  PROVE  Tidied'
<1>1. /\ at = "forward" /\ asked' = asked /\ at' \in Connecting \cup {"closed"}
      /\ csp'.rewritten = csp.rewritten /\ csp'.tunnel = csp.tunnel /\ csp'.action = csp.action
      /\ csp'.https = csp.https /\ csp'.http.hostport = csp.http.hostport
      /\ csp'.http.ssl = csp.http.ssl /\ csp'.http.client_ssl = csp.http.client_ssl
      /\ \E line : csp'.head = Listed(csp.head, line)
  BY ConnectFrame
<1>2. \A n \in {"Cookie", "Referer"} :
        n \in DOMAIN AtHand(csp') => n \in DOMAIN AtHand(csp) /\ AtHand(csp')[n] = AtHand(csp)[n]
  BY <1>1 DEF AtHand, Listed
<1>3. ASSUME ~csp'.rewritten, asked'.body = NoBody
      PROVE  (csp'.http.client_ssl => Inspects(csp')) /\ DecidedHead(csp', AtHand(csp'))
  <2>1. (csp.http.client_ssl => Inspects(csp)) /\ DecidedHead(csp, AtHand(csp))
    BY <1>1, <1>3 DEF Tidied, Approved
  <2>2. DecidedHead(csp', AtHand(csp'))
    BY <1>1, <1>2, <2>1, SameDecided
  <2> QED
    BY <1>1, <2>1, <2>2 DEF Inspects
<1> QED
  BY <1>1, <1>3 DEF Tidied, Connecting

\* What is sent is the head at hand, or nothing of it.
LEMMA SendTidied ==
  ASSUME IInv, Tidied, Send \/ ContinueInner
  PROVE  Tidied'
<1>1. /\ at \in Approved \ {"sent"} /\ asked' = asked /\ Shaped(csp) /\ Passed(csp)
      /\ at' \in {"sent", "closed"}
  BY DEF Send, ContinueInner, Approved, Connecting, IInv
<1>2. csp'.rewritten = csp.rewritten /\ csp'.action = csp.action /\ csp'.http = csp.http
  BY <1>1 DEF Send, ContinueInner, Shaped, CspFields
<1>3. ASSUME at' = "sent", ~csp'.rewritten, asked'.body = NoBody
      PROVE  DecidedHead(csp', wire'.head)
  <2>1. (csp.http.client_ssl => Inspects(csp)) /\ DecidedHead(csp, AtHand(csp))
    BY <1>1, <1>2, <1>3 DEF Tidied
  <2>2. wire'.head \in {AtHand(csp), <<>>}
    <3>1. CASE Send
      <4>1. \/ Inspects(csp) /\ wire'.head = csp.https
            \/ wire'.head = <<>>
            \/ ~Inspects(csp) /\ wire'.head = csp.head
        BY <3>1 DEF Send, Sends
      <4> QED
        BY <1>1, <2>1, <4>1 DEF AtHand, Passed
    <3>2. CASE ContinueInner
      <4>1. wire'.head = csp.https /\ csp.http.client_ssl
        BY <1>3, <3>2 DEF ContinueInner, Sends, Tidied
      <4> QED
        BY <4>1 DEF AtHand
    <3> QED
      BY <3>1, <3>2
  <2>3. DecidedHead(csp, wire'.head)
    BY <2>1, <2>2, NothingDecided
  <2> QED
    BY <1>2, <2>3 DEF DecidedHead, On, Value
<1> QED
  BY <1>1, <1>3 DEF Tidied, HeadersAsDecided, Approved, Connecting

LEMMA QuietTidied ==
  ASSUME IInv, Tidied, Quiet, ~Send, ~ContinueInner
  PROVE  Tidied'
<1>1. /\ csp'.action = csp.action /\ csp'.https = csp.https /\ csp'.http = csp.http
      /\ csp'.tunnel = csp.tunnel /\ csp'.rewritten = csp.rewritten
      /\ asked' = asked /\ csp'.head \in {csp.head, <<>>}
  BY QuietFrame
<1>2. \/ at' = "closed"
      \/ at = "handshake" /\ at' = "encrypted"
      \/ /\ at \in Approved \ {"sent"} /\ at' \in {"forward", "continue", "server-handshake", "send"}
         /\ at' = "continue" => at = "body-again"
  BY DEF Quiet, Handshake, SkipBody, BodyLost, AskParent, ServerHandshake, SendFails, Ends, AfterBody,
     Approved, Connecting
<1>3. ASSUME at \in Approved \ {"sent"}, ~csp'.rewritten, asked'.body = NoBody
      PROVE  (csp'.http.client_ssl => Inspects(csp')) /\ DecidedHead(csp', AtHand(csp'))
  <2>1. (csp.http.client_ssl => Inspects(csp)) /\ DecidedHead(csp, AtHand(csp))
    BY <1>1, <1>3 DEF Tidied
  <2>2. AtHand(csp') \in {AtHand(csp), <<>>}
    BY <1>1 DEF AtHand
  <2>3. DecidedHead(csp, AtHand(csp'))
    BY <2>1, <2>2, NothingDecided
  <2> QED
    BY <1>1, <2>1, <2>3 DEF DecidedHead, On, Value, Inspects
<1> QED
  BY <1>1, <1>2, <1>3 DEF Tidied, Approved, Connecting

LEMMA TidiedKept ==
  ASSUME IInv, Ruled, Begun, Obeyed, Tidied, IInv', Next
  PROVE  Tidied'
<1>1. CASE LoadFiles \/ ReceiveRequest \/ Answer \/ NextRequest \/ NextClient
  <2>1. /\ at' \in {"idle", "exited", "received", "closed", "answered", "waiting"}
        /\ at' = "waiting" => ~csp'.tunnel
    BY <1>1, ReceiveRequestFrame, AnswerFrame, NextRequestFrame, NextClientFrame DEF LoadFiles, Loads
  <2> QED
    BY <2>1 DEF Tidied, Approved, Connecting
<1>2. CASE Quiet
  BY <1>2, QuietTidied, SendTidied
<1> QED
  BY <1>1, <1>2, ParseTidied, DecideTidied, InnerTidied, BodyTidied, ConnectTidied DEF Next, Quiet

\* The four together.
Mindful == Ruled /\ Begun /\ Obeyed /\ Tidied

LEMMA MindfulInvariant == Spec => []Mindful
<1>1. Init => Begun /\ Obeyed /\ Tidied
  BY NoActionHeeds DEF Init, Csp, Begun, Obeyed, Tidied, Approved, Connecting, IsAction, NoAction
<1>2. ASSUME IInv, IInv', Ruled, Begun /\ Obeyed /\ Tidied, [Next]_vars
      PROVE  (Begun /\ Obeyed /\ Tidied)'
  <2>1. CASE Next
    BY <1>2, <2>1, BegunKept, ObeyedKept, TidiedKept
  <2>2. CASE UNCHANGED vars
    BY <1>2, <2>2 DEF vars, Begun, Obeyed, Heeds, Tidied, HeadersAsDecided
  <2> QED
    BY <1>2, <2>1, <2>2
<1>3. IInv /\ IInv' /\ Ruled /\ (Begun /\ Obeyed /\ Tidied) /\ [Next]_vars => (Begun /\ Obeyed /\ Tidied)'
  BY <1>2
<1> QED
  BY <1>1, <1>3, RequestInvariant, RulesAsLoaded, PTL DEF Spec, Mindful

\* What leaves Privoxy agrees with what was decided about it: the blocks of its tags, be they
\* made of headers or of a body, and the headers the action in force wants to be without
\* (scan_headers(), sed(), sed_https(), execute_client_body_taggers()).
THEOREM SentAlwaysAsDecided == Spec => []SentAsDecided
<1>1. ASSUME IInv, Mindful PROVE SentAsDecided
  <2> SUFFICES ASSUME at = "sent" PROVE TagsHeeded /\ (~csp.rewritten => HeadersAsDecided)
    BY DEF SentAsDecided
  <2>1. ~csp.rewritten => HeadersAsDecided
    BY <1>1 DEF Mindful, Tidied
  <2>2. Heeds(csp, csp) /\ Passed(csp)
    BY <1>1 DEF Mindful, Obeyed, IInv, Approved
  <2>3. TagsHeeded
    BY <2>2 DEF TagsHeeded, Heeds, SparedTags, Spares, Passed, On
  <2> QED
    BY <2>1, <2>3
<1>2. IInv /\ Mindful => SentAsDecided
  BY <1>1
<1> QED
  BY <1>2, RequestInvariant, MindfulInvariant, PTL

-----------------------------------------------------------------------------
(* The algebra of actions.                                                 *)

\* Specifications and current actions with values of V.
Specs(V) == [mask : SUBSET Flags, add : SUBSET Flags, string : [Strings -> V],
             removeAll : SUBSET Multis, remove : [Multis -> SUBSET V], madd : [Multis -> SUBSET V]]
Currents(V) == [flags : SUBSET Flags, string : [Strings -> V], multi : [Multis -> SUBSET V]]

\* A line without words changes nothing.
THEOREM EmptyLine ==
  ASSUME NEW V, NoValue \in V, NEW c \in Currents(V)
  PROVE  merge_current_action(c, EmptySpec) = c
<1>1. merge_current_action(c, EmptySpec).flags = c.flags
  BY DEF merge_current_action, EmptySpec, Currents
<1>2. merge_current_action(c, EmptySpec).string = c.string
  BY DEF merge_current_action, EmptySpec, Currents, Overridden, NoStrings
<1>3. merge_current_action(c, EmptySpec).multi = c.multi
  BY DEF merge_current_action, EmptySpec, Currents, NoLists
<1> QED
  BY <1>1, <1>2, <1>3 DEF merge_current_action, Currents

\* An alias may be merged into a line before the line is applied: to what is in force it
\* does the same as the line up to the alias followed by the alias.
THEOREM MergeTheorem ==
  ASSUME NEW c, NEW d, NEW s
  PROVE  merge_current_action(c, merge_actions(d, s))
           = merge_current_action(merge_current_action(c, d), s)
<1> DEFINE whole == merge_current_action(c, merge_actions(d, s))
           steps == merge_current_action(merge_current_action(c, d), s)
<1>1. whole.flags = steps.flags
  BY DEF merge_current_action, merge_actions, AddedLeft
<1>2. whole.string = steps.string
  BY DEF merge_current_action, merge_actions, Overridden
<1>3. whole.multi = steps.multi
  <2>1. ASSUME NEW n \in Multis PROVE whole.multi[n] = steps.multi[n]
    <3>1. CASE n \in s.removeAll
      BY <3>1 DEF merge_current_action, merge_actions
    <3>2. CASE n \notin s.removeAll /\ n \in d.removeAll
      BY <3>2 DEF merge_current_action, merge_actions
    <3>3. CASE n \notin s.removeAll /\ n \notin d.removeAll
      BY <3>3 DEF merge_current_action, merge_actions
    <3> QED
      BY <3>1, <3>2, <3>3
  <2> QED
    BY <2>1 DEF merge_current_action
<1> QED
  BY <1>1, <1>2, <1>3 DEF merge_current_action

-----------------------------------------------------------------------------
(* One word.                                                               *)

\* Values that a string may have.
Holds(V) == NoValue \in V /\ NoReason \in V

LEMMA MergedTyped ==
  ASSUME NEW V, NoValue \in V, NEW c \in Currents(V), NEW spec \in Specs(V)
  PROVE  merge_current_action(c, spec) \in Currents(V)
  BY DEF merge_current_action, Currents, Specs, Overridden, Flags

LEMMA Options ==
  ASSUME NEW spec, NEW w, NEW aliases
  PROVE  /\ w.name \in Bools /\ Option(spec, w, aliases).ok
              => Option(spec, w, aliases)
                   = Is(IF w.sign = "+" THEN AddBit(spec, w.name) ELSE RemoveBit(spec, w.name))
         /\ w.name \in Strings /\ w.sign = "+" /\ Option(spec, w, aliases).ok
              => Option(spec, w, aliases) = Is([AddBit(spec, w.name) EXCEPT !.string[w.name] = Meant(w)])
         /\ w.name \in Strings /\ w.sign # "+"
              => Option(spec, w, aliases) = Is([RemoveBit(spec, w.name) EXCEPT !.string[w.name] = NoValue])
         /\ w.name \in Multis /\ w.sign = "+" /\ Option(spec, w, aliases).ok
              => Option(spec, w, aliases) = Is([spec EXCEPT !.remove[w.name] = @ \ {w.value},
                                                            !.madd[w.name] = @ \cup {w.value}])
         /\ w.name \in Multis /\ w.sign # "+"
              => Option(spec, w, aliases) = Is(RemoveMulti(spec, w))
<1>1. CASE w.name \in Bools
  <2>1. w.name \notin Strings /\ w.name \notin Multis
    BY <1>1, ActionKinds
  <2> QED
    BY <1>1, <2>1, ActionKinds DEF Option, Failed, Names, Flags
<1>2. CASE w.name \in Strings
  <2>1. w.name \notin Bools /\ w.name \notin Multis
    BY <1>2, ActionKinds
  <2> QED
    BY <1>2, <2>1, ActionKinds DEF Option, AddString, Failed, Meant, Names, Flags
<1>3. CASE w.name \in Multis
  <2>1. w.name \notin Strings /\ w.name \notin Bools
    BY <1>3, ActionKinds
  <2> QED
    BY <1>3, <2>1, ActionKinds DEF Option, AddMulti, Failed, Names, Flags
<1> QED
  BY <1>1, <1>2, <1>3

\* An action that is on or off.
LEMMA BitWord ==
  ASSUME NEW V, Holds(V), NEW c \in Currents(V), NEW spec \in Specs(V), NEW w, w.value \in V,
         NEW aliases, w.name \in Bools, Option(spec, w, aliases).ok
  PROVE  /\ Option(spec, w, aliases).spec \in Specs(V)
         /\ InForce(merge_current_action(c, Option(spec, w, aliases).spec))
              = InForce(OneWord(merge_current_action(c, spec), w))
<1> DEFINE n == w.name
           m == merge_current_action(c, spec)
           t == OneWord(m, w)
<1>1. n \in Flags /\ n \notin Strings /\ n \notin Multis
  BY ActionKinds DEF Flags
<1>2. m \in Currents(V)
  BY MergedTyped DEF Holds
<1>3. CASE w.sign = "+"
  <2> DEFINE r == AddBit(spec, n)
  <2>1. Option(spec, w, aliases) = Is(r)
    BY Zenon, <1>1, <1>3, Options
  <2>2. /\ r \in Specs(V) /\ r.mask = spec.mask /\ r.add = spec.add \cup {n} /\ r.string = spec.string
        /\ r.removeAll = spec.removeAll /\ r.remove = spec.remove /\ r.madd = spec.madd
    BY <1>1 DEF AddBit, Specs
  <2>3. t.flags = m.flags \cup {n} /\ t.string = m.string /\ t.multi = m.multi
    BY <1>1, <1>2, <1>3 DEF OneWord, Currents
  <2> HIDE DEF r, t
  <2>4. /\ merge_current_action(c, r).flags = t.flags
        /\ merge_current_action(c, r).string = t.string
        /\ merge_current_action(c, r).multi = t.multi
    BY <2>2, <2>3 DEF merge_current_action
  <2> QED
    BY <2>1, <2>2, <2>4 DEF InForce, Is, t
<1>4. CASE w.sign # "+"
  <2> DEFINE r == RemoveBit(spec, n)
  <2>1. Option(spec, w, aliases) = Is(r)
    BY Zenon, <1>1, <1>4, Options
  <2>2. /\ r \in Specs(V) /\ r.mask = spec.mask \ {n} /\ r.add = spec.add \ {n} /\ r.string = spec.string
        /\ r.removeAll = spec.removeAll /\ r.remove = spec.remove /\ r.madd = spec.madd
    BY <1>1 DEF RemoveBit, Specs
  <2>3. t.flags = m.flags \ {n} /\ t.string = m.string /\ t.multi = m.multi
    BY <1>1, <1>2, <1>4 DEF OneWord, Currents
  <2> HIDE DEF r, t
  <2>4. /\ merge_current_action(c, r).flags = t.flags
        /\ merge_current_action(c, r).string = t.string
        /\ merge_current_action(c, r).multi = t.multi
    BY <2>2, <2>3 DEF merge_current_action
  <2> QED
    BY <2>1, <2>2, <2>4 DEF InForce, Is, t
<1> QED
  BY <1>1, <1>3, <1>4

\* An action with a string.
LEMMA StringWord ==
  ASSUME NEW V, Holds(V), NEW c \in Currents(V), NEW spec \in Specs(V), NEW w, w.value \in V,
         NEW aliases, w.name \in Strings, Option(spec, w, aliases).ok
  PROVE  /\ Option(spec, w, aliases).spec \in Specs(V)
         /\ InForce(merge_current_action(c, Option(spec, w, aliases).spec))
              = InForce(OneWord(merge_current_action(c, spec), w))
<1> DEFINE n == w.name
           v == Meant(w)
           m == merge_current_action(c, spec)
           t == OneWord(m, w)
<1>1. /\ n \in Flags /\ n \notin Bools /\ n \notin Multis
      /\ v \in V /\ (w.sign = "+" => v # NoValue)
  <2>1. ASSUME w.sign = "+", w.value = NoValue, w.name # "block" PROVE FALSE
    <3>1. w.name \notin Bools /\ w.name \notin Multis
      BY ActionKinds
    <3>2. Option(spec, w, aliases) = AddString(spec, w)
      BY <2>1, <3>1, ActionKinds DEF Option, Names, Flags
    <3>3. ~AddString(spec, w).ok
      BY <2>1 DEF AddString, Failed
    <3> QED
      BY <3>2, <3>3
  <2> QED
    BY <2>1, ActionKinds, ReasonAssumption DEF Flags, Meant, Holds
<1>2. m \in Currents(V)
  BY MergedTyped DEF Holds
<1>3. CASE w.sign = "+"
  <2> DEFINE r == [AddBit(spec, n) EXCEPT !.string[n] = v]
  <2>1. Option(spec, w, aliases) = Is(r)
    BY Zenon, <1>1, <1>3, Options
  <2>2. /\ r \in Specs(V) /\ r.mask = spec.mask /\ r.add = spec.add \cup {n}
        /\ r.string = [spec.string EXCEPT ![n] = v]
        /\ r.removeAll = spec.removeAll /\ r.remove = spec.remove /\ r.madd = spec.madd
    BY <1>1 DEF AddBit, Specs
  <2>3. t.flags = m.flags \cup {n} /\ t.string = [m.string EXCEPT ![n] = v] /\ t.multi = m.multi
    BY <1>1, <1>2, <1>3 DEF OneWord, Currents
  <2> HIDE DEF r, t
  <2>4. merge_current_action(c, r).flags = t.flags /\ merge_current_action(c, r).multi = t.multi
    BY <2>2, <2>3 DEF merge_current_action
  <2>5. merge_current_action(c, r).string = t.string
    <3>1. ASSUME NEW k \in Strings
          PROVE  merge_current_action(c, r).string[k] = IF k = n THEN v ELSE m.string[k]
      BY <1>1, <1>3, <2>2 DEF merge_current_action, Overridden, Specs
    <3>2. m.string \in [Strings -> V] /\ DOMAIN merge_current_action(c, r).string = Strings
      BY <1>2 DEF Currents, merge_current_action, Overridden
    <3> HIDE DEF m
    <3>3. t.string = [k \in Strings |-> IF k = n THEN v ELSE m.string[k]]
      BY <2>3, <3>2
    <3>4. merge_current_action(c, r).string = [k \in Strings |-> merge_current_action(c, r).string[k]]
      BY DEF merge_current_action, Overridden
    <3> QED
      BY <3>1, <3>3, <3>4
  <2> QED
    BY <2>1, <2>2, <2>4, <2>5 DEF InForce, Is, t
<1>4. CASE w.sign # "+"
  <2> DEFINE r == [RemoveBit(spec, n) EXCEPT !.string[n] = NoValue]
  <2>1. Option(spec, w, aliases) = Is(r)
    BY Zenon, <1>1, <1>4, Options
  <2>2. /\ r \in Specs(V) /\ r.mask = spec.mask \ {n} /\ r.add = spec.add \ {n}
        /\ r.string = [spec.string EXCEPT ![n] = NoValue]
        /\ r.removeAll = spec.removeAll /\ r.remove = spec.remove /\ r.madd = spec.madd
    BY <1>1 DEF RemoveBit, Specs, Holds
  <2>3. t.flags = m.flags \ {n} /\ t.string = m.string /\ t.multi = m.multi
    BY <1>1, <1>2, <1>4 DEF OneWord, Currents
  <2> HIDE DEF r, t
  <2>4. merge_current_action(c, r).flags = t.flags /\ merge_current_action(c, r).multi = t.multi
    BY <2>2, <2>3 DEF merge_current_action
  <2>5. \A k \in Strings : k \in t.flags => merge_current_action(c, r).string[k] = t.string[k]
    BY <2>2, <2>3 DEF merge_current_action, Overridden, Specs
  <2> QED
    BY <2>1, <2>2, <2>4, <2>5 DEF InForce, Is, t
<1> QED
  BY <1>1, <1>3, <1>4

\* An action with a list: one value is added or taken away, or all are.
LEMMA MultiWord ==
  ASSUME NEW V, Holds(V), NEW c \in Currents(V), NEW spec \in Specs(V), NEW w, w.value \in V,
         NEW aliases, w.name \in Multis, Option(spec, w, aliases).ok
  PROVE  /\ Option(spec, w, aliases).spec \in Specs(V)
         /\ InForce(merge_current_action(c, Option(spec, w, aliases).spec))
              = InForce(OneWord(merge_current_action(c, spec), w))
<1> DEFINE n == w.name
           v == w.value
           m == merge_current_action(c, spec)
           t == OneWord(m, w)
           After == IF w.sign = "+" THEN m.multi[n] \cup {v}
                    ELSE IF v = NoValue THEN {} ELSE m.multi[n] \ {v}
<1>1. n \in Multis /\ n \notin Flags /\ v \in V
  BY ActionKinds DEF Flags
<1>2. m \in Currents(V)
  BY MergedTyped DEF Holds
<1>3. t.flags = m.flags /\ t.string = m.string /\ t.multi = [m.multi EXCEPT ![n] = After]
  BY <1>1, <1>2 DEF OneWord, Currents
<1>4. ASSUME NEW r \in Specs(V), Option(spec, w, aliases) = Is(r),
             r.mask = spec.mask, r.add = spec.add, r.string = spec.string,
             \A k \in Multis \ {n} : /\ k \in r.removeAll <=> k \in spec.removeAll
                                     /\ r.remove[k] = spec.remove[k] /\ r.madd[k] = spec.madd[k],
             merge_current_action(c, r).multi[n] = After
      PROVE  /\ Option(spec, w, aliases).spec \in Specs(V)
             /\ InForce(merge_current_action(c, Option(spec, w, aliases).spec)) = InForce(t)
  <2> HIDE DEF After, t
  <2>1. merge_current_action(c, r).flags = t.flags /\ merge_current_action(c, r).string = t.string
    BY <1>3, <1>4 DEF merge_current_action
  <2>2. \A k \in Multis : merge_current_action(c, r).multi[k] = t.multi[k]
    <3>1. m.multi \in [Multis -> SUBSET V]
      BY <1>2 DEF Currents
    <3>2. \A k \in Multis \ {n} : merge_current_action(c, r).multi[k] = m.multi[k]
      BY <1>4 DEF merge_current_action
    <3> QED
      BY <1>3, <1>4, <3>1, <3>2
  <2>3. merge_current_action(c, r).multi = t.multi
    <3>1. DOMAIN merge_current_action(c, r).multi = Multis /\ DOMAIN t.multi = Multis
      BY <1>2, <1>3 DEF merge_current_action, Currents
    <3>2. merge_current_action(c, r).multi = [k \in Multis |-> merge_current_action(c, r).multi[k]]
      BY DEF merge_current_action
    <3>3. t.multi = [k \in Multis |-> t.multi[k]]
      BY <1>2, <1>3, <3>1 DEF Currents
    <3> QED
      BY <2>2, <3>2, <3>3
  <2> QED
    BY <1>4, <2>1, <2>3 DEF InForce, Is
<1>5. CASE w.sign = "+"
  <2> DEFINE r == [spec EXCEPT !.remove[n] = @ \ {v}, !.madd[n] = @ \cup {v}]
  <2>1. Option(spec, w, aliases) = Is(r)
    BY Zenon, <1>1, <1>5, Options
  <2>2. /\ r \in Specs(V) /\ r.mask = spec.mask /\ r.add = spec.add /\ r.string = spec.string
        /\ r.removeAll = spec.removeAll
        /\ r.remove[n] = spec.remove[n] \ {v} /\ r.madd[n] = spec.madd[n] \cup {v}
        /\ \A k \in Multis \ {n} : r.remove[k] = spec.remove[k] /\ r.madd[k] = spec.madd[k]
    BY <1>1 DEF Specs
  <2> HIDE DEF r
  <2>3. merge_current_action(c, r).multi[n] = After
    BY <1>1, <1>5, <2>2 DEF merge_current_action
  <2> QED
    BY <1>4, <2>1, <2>2, <2>3
<1>6. CASE w.sign # "+" /\ v = NoValue
  <2> DEFINE r == RemoveMulti(spec, w)
  <2>1. Option(spec, w, aliases) = Is(r)
    BY Zenon, <1>1, <1>6, Options
  <2>2. /\ r \in Specs(V) /\ r.mask = spec.mask /\ r.add = spec.add /\ r.string = spec.string
        /\ r.removeAll = spec.removeAll \cup {n}
        /\ r.madd[n] = {}
        /\ \A k \in Multis \ {n} : r.remove[k] = spec.remove[k] /\ r.madd[k] = spec.madd[k]
    BY <1>1, <1>6 DEF Specs, RemoveMulti
  <2> HIDE DEF r
  <2>3. merge_current_action(c, r).multi[n] = After
    BY <1>1, <1>6, <2>2 DEF merge_current_action
  <2> QED
    BY <1>1, <1>4, <2>1, <2>2, <2>3
<1>7. CASE w.sign # "+" /\ v # NoValue
  <2> DEFINE r == RemoveMulti(spec, w)
  <2>1. Option(spec, w, aliases) = Is(r)
    BY Zenon, <1>1, <1>7, Options
  <2>2. /\ r \in Specs(V) /\ r.mask = spec.mask /\ r.add = spec.add /\ r.string = spec.string
        /\ r.removeAll = spec.removeAll
        /\ r.madd[n] = spec.madd[n] \ {v}
        /\ n \notin spec.removeAll => r.remove[n] = spec.remove[n] \cup {v}
        /\ \A k \in Multis \ {n} : r.remove[k] = spec.remove[k] /\ r.madd[k] = spec.madd[k]
    BY <1>1, <1>7 DEF Specs, RemoveMulti
  <2> HIDE DEF r
  <2>3. merge_current_action(c, r).multi[n] = After
    BY <1>1, <1>7, <2>2 DEF merge_current_action
  <2> QED
    BY <1>1, <1>4, <2>1, <2>2, <2>3
<1> QED
  BY <1>1, <1>5, <1>6, <1>7

\* A word more in a line does the same to what is in force as the line and then the word,
\* whatever the line says before of the same action.
THEOREM WordTheorem ==
  ASSUME NEW V, Holds(V), NEW c \in Currents(V), NEW spec \in Specs(V), NEW w, w.value \in V,
         w.name \in Names, NEW aliases, Option(spec, w, aliases).ok
  PROVE  /\ Option(spec, w, aliases).spec \in Specs(V)
         /\ InForce(merge_current_action(c, Option(spec, w, aliases).spec))
              = InForce(OneWord(merge_current_action(c, spec), w))
<1>1. w.name \in Bools \/ w.name \in Strings \/ w.name \in Multis
  BY DEF Names, Flags
<1> QED
  BY <1>1, BitWord, StringWord, MultiWord

\* What is not in force makes no difference to what a word does.
THEOREM OneWordTheorem ==
  ASSUME NEW V, NoValue \in V, NEW c \in Currents(V), NEW d \in Currents(V), NEW w,
         InForce(c) = InForce(d)
  PROVE  InForce(OneWord(c, w)) = InForce(OneWord(d, w))
<1> DEFINE n == w.name
<1>1. c.flags = d.flags /\ c.multi = d.multi
  BY DEF InForce
<1>2. \A k \in Strings : k \in c.flags => c.string[k] = d.string[k]
  <2>1. ASSUME NEW k \in Strings, k \in c.flags PROVE c.string[k] = d.string[k]
    <3>1. InForce(c).string[k] = c.string[k] /\ InForce(d).string[k] = d.string[k]
      BY <1>1, <2>1 DEF InForce
    <3> QED
      BY <3>1
  <2> QED
    BY <2>1
<1>3. CASE n \in Multis
  <2>1. n \notin Flags
    BY <1>3, ActionKinds DEF Flags
  <2> DEFINE multi == [c.multi EXCEPT ![n] = IF w.sign = "+" THEN @ \cup {w.value}
                                             ELSE IF w.value = NoValue THEN {} ELSE @ \ {w.value}]
  <2>2. \A e \in {c, d} : /\ OneWord(e, w).flags = c.flags /\ OneWord(e, w).string = e.string
                          /\ OneWord(e, w).multi = multi
    BY <1>1, <1>3, <2>1 DEF OneWord, Currents
  <2> QED
    BY <1>2, <2>2 DEF InForce
<1>4. CASE n \in Flags
  <2> DEFINE flags == IF w.sign = "+" THEN c.flags \cup {n} ELSE c.flags \ {n}
             string(e) == IF n \in Strings /\ w.sign = "+" THEN [e.string EXCEPT ![n] = Meant(w)] ELSE e.string
  <2>1. \A e \in {c, d} : /\ OneWord(e, w).flags = flags /\ OneWord(e, w).string = string(e)
                          /\ OneWord(e, w).multi = c.multi
    <3> SUFFICES ASSUME NEW e \in {c, d}
                 PROVE  /\ OneWord(e, w).flags = flags /\ OneWord(e, w).string = string(e)
                        /\ OneWord(e, w).multi = c.multi
      OBVIOUS
    <3>1. e \in Currents(V) /\ e.flags = c.flags /\ e.multi = c.multi
      BY <1>1
    <3>2. OneWord(e, w) = [e EXCEPT !.flags = flags, !.string = string(e)]
      <4>1. n \notin Multis
        BY <1>4, ActionKinds DEF Flags
      <4> QED
        BY <1>4, <3>1, <4>1 DEF OneWord
    <3> HIDE DEF flags, string
    <3> QED
      BY <3>1, <3>2 DEF Currents
  <2>2. \A k \in Strings : k \in flags => string(c)[k] = string(d)[k]
    BY <1>2, <1>4 DEF Currents, Flags
  <2> HIDE DEF flags, string
  <2> QED
    BY <2>1, <2>2 DEF InForce
<1>5. CASE n \notin Flags /\ n \notin Multis
  BY <1>5 DEF OneWord
<1> QED
  BY <1>3, <1>4, <1>5

-----------------------------------------------------------------------------
(* Lines of words.                                                         *)

\* A line whose words have values of V.
Valued(V, words) == IsList(words) /\ \A i \in DOMAIN words : words[i].value \in V

\* A specification does what the words say.
Means(V, spec, words) ==
  \A c \in Currents(V) : InForce(merge_current_action(c, spec)) = InForce(WordByWord(c, words))

\* WordByWord(), one after the other.
WordsOver(c, line) ==
  \E g : /\ WordByWord(c, line) = g[Len(line)]
         /\ \A i \in 0..Len(line) : g[i] = IF i = 0 THEN c ELSE OneWord(g[i - 1], line[i])
LEMMA WordsLoop ==
  ASSUME NEW c, NEW line, IsList(line)
  PROVE  WordsOver(c, line)
<1> SUFFICES \E g : /\ WordByWord(c, line) = g[Len(line)]
                    /\ \A i \in 0..Len(line) : g[i] = IF i = 0 THEN c ELSE OneWord(g[i - 1], line[i])
  BY DEF WordsOver
<1> DEFINE n == Len(line)
           Step(g, i) == IF i = 0 THEN c ELSE OneWord(g[i - 1], line[i])
           IsAfter(g, k) == g = [i \in 0..k |-> Step(g, i)]
<1>1. n \in Nat
  BY Listing
<1> HIDE DEF n
<1>2. \E g : IsAfter(g, n)
  <2> DEFINE bad == {k \in Nat : ~ \E g : IsAfter(g, k)}
  <2>1. SUFFICES ASSUME bad # {} PROVE FALSE
    BY <1>1
  <2>2. PICK k \in bad : \A i \in bad : k <= i
    BY <2>1, LeastElement
  <2>3. CASE k = 0
    <3> DEFINE g == [i \in 0..0 |-> c]
    <3>1. IsAfter(g, 0)
      OBVIOUS
    <3> QED
      BY <2>2, <2>3, <3>1
  <2>4. CASE k # 0
    <3>1. k \in Nat /\ k - 1 \in Nat /\ ~(k <= k - 1)
      BY <2>2, <2>4
    <3>2. PICK g : IsAfter(g, k - 1)
      BY <2>2, <3>1
    <3> DEFINE h == [i \in 0..k |-> IF i < k THEN g[i] ELSE Step(g, k)]
    <3>3. DOMAIN g = 0..(k - 1) /\ \A i \in 0..(k - 1) : g[i] = Step(g, i)
      BY <3>2
    <3>4. ASSUME NEW i \in 0..k
          PROVE  h[i] = Step(h, i)
      <4>1. CASE i = 0
        <5>1. 0 \in 0..k /\ 0 < k /\ 0 \in 0..(k - 1)
          BY <3>1, <2>4
        <5>2. h[0] = g[0] /\ g[0] = c
          BY <3>3, <5>1
        <5> QED
          BY <4>1, <5>2
      <4>2. CASE i # 0 /\ i < k
        <5>1. i - 1 \in 0..k /\ i - 1 < k /\ i \in 0..(k - 1)
          BY <4>2, <3>1
        <5>2. h[i - 1] = g[i - 1] /\ h[i] = g[i]
          BY <4>2, <5>1
        <5> QED
          BY <3>3, <4>2, <5>1, <5>2
      <4>3. CASE i = k
        <5>1. h[k - 1] = g[k - 1]
          BY <3>1
        <5> QED
          BY <4>3, <5>1, <2>4, <3>1
      <4> QED
        BY <4>1, <4>2, <4>3, <3>1
    <3>5. IsAfter(h, k)
      <4> DEFINE hh == [i \in 0..k |-> Step(h, i)]
      <4>1. \A i \in 0..k : h[i] = hh[i]
        BY <3>4
      <4>2. h = hh
        BY <4>1
      <4> QED
        BY <4>2
    <3> QED
      BY <2>2, <3>5
  <2> QED
    BY <2>3, <2>4
<1> DEFINE After[i \in 0..n] == IF i = 0 THEN c ELSE OneWord(After[i - 1], line[i])
<1>3. WordByWord(c, line) = After[n]
  BY DEF WordByWord, n
<1>4. IsAfter(After, n)
  BY <1>2
<1> HIDE DEF After
<1>5. \A i \in 0..n : After[i] = Step(After, i)
  BY <1>4
<1> QED
  BY <1>1, <1>3, <1>5 DEF n

\* Whatever takes these steps ends there.
LEMMA WordsRun ==
  ASSUME NEW c, NEW line, IsList(line), NEW h,
         \A i \in 0..Len(line) : h[i] = IF i = 0 THEN c ELSE OneWord(h[i - 1], line[i])
  PROVE  WordByWord(c, line) = h[Len(line)]
<1> DEFINE n == Len(line)
<1>1. n \in Nat
  BY Listing
<1>g. WordsOver(c, line)
  BY WordsLoop
<1>2. PICK g : /\ WordByWord(c, line) = g[n]
               /\ \A i \in 0..n : g[i] = IF i = 0 THEN c ELSE OneWord(g[i - 1], line[i])
  BY <1>g DEF WordsOver
<1>3. \A i \in 0..n : h[i] = IF i = 0 THEN c ELSE OneWord(h[i - 1], line[i])
  OBVIOUS
<1> HIDE DEF n
<1> DEFINE Good(i) == h[i] = g[i]
<1>4. \A i \in 0..n : Good(i)
  <2> DEFINE bad == {i \in 0..n : ~Good(i)}
  <2>1. SUFFICES ASSUME bad # {} PROVE FALSE
    OBVIOUS
  <2>2. bad \subseteq Nat
    BY <1>1
  <2>3. \E i \in bad : \A k \in bad : i <= k
    <3> HIDE DEF bad
    <3> QED
      BY <2>1, <2>2, LeastElement
  <2>4. PICK i \in bad : \A k \in bad : i <= k
    BY <2>3
  <2>5. CASE i = 0
    <3>1. Good(0)
      BY <1>1, <1>2, <1>3
    <3> QED
      BY <2>4, <2>5, <3>1
  <2>6. CASE i # 0
    <3>1. i \in 1..n /\ i - 1 \in 0..n /\ ~(i <= i - 1)
      BY <2>4, <2>6, <1>1
    <3>2. Good(i - 1)
      BY <2>4, <3>1
    <3>3. h[i] = OneWord(h[i - 1], line[i]) /\ g[i] = OneWord(g[i - 1], line[i])
      BY <1>2, <1>3, <2>4, <2>6
    <3>9. Good(i)
      BY <3>2, <3>3
    <3> QED
      BY <2>4, <3>9
  <2> QED
    BY <2>5, <2>6
<1> QED
  BY <1>1, <1>2, <1>4 DEF n

LEMMA NoWords == ASSUME NEW c PROVE WordByWord(c, <<>>) = c
<1>1. IsList(<<>>) /\ Len(<<>>) = 0
  <2>1. <<>> \in Seq({})
    OBVIOUS
  <2> QED
    BY <2>1 DEF IsList
<1>g. WordsOver(c, <<>>)
  BY <1>1, WordsLoop
<1>2. PICK g : /\ WordByWord(c, <<>>) = g[0]
               /\ \A i \in 0..0 : g[i] = IF i = 0 THEN c ELSE OneWord(g[i - 1], <<>>[i])
  BY <1>1, <1>g DEF WordsOver
<1> QED
  BY <1>2

LEMMA SingleWord == ASSUME NEW c, NEW w PROVE WordByWord(c, <<w>>) = OneWord(c, w)
<1>1. IsList(<<w>>) /\ Len(<<w>>) = 1 /\ <<w>>[1] = w
  <2>1. <<w>> \in Seq({w})
    OBVIOUS
  <2> QED
    BY <2>1 DEF IsList
<1>g. WordsOver(c, <<w>>)
  BY <1>1, WordsLoop
<1>2. PICK g : /\ WordByWord(c, <<w>>) = g[1]
               /\ \A i \in 0..1 : g[i] = IF i = 0 THEN c ELSE OneWord(g[i - 1], <<w>>[i])
  BY <1>1, <1>g DEF WordsOver
<1>3. g[0] = c /\ g[1] = OneWord(g[1 - 1], <<w>>[1])
  BY <1>2
<1> QED
  BY <1>1, <1>2, <1>3

LEMMA ListsJoined ==
  ASSUME NEW s, NEW t, IsList(s), IsList(t)
  PROVE  /\ IsList(s \o t) /\ Len(s \o t) = Len(s) + Len(t)
         /\ \A i \in 1..Len(s) : (s \o t)[i] = s[i]
         /\ \A i \in 1..Len(t) : (s \o t)[Len(s) + i] = t[i]
<1>1. PICK S, T : s \in Seq(S) /\ t \in Seq(T)
  BY DEF IsList
<1>2. s \in Seq(S \cup T) /\ t \in Seq(S \cup T)
  BY <1>1
<1>3. s \o t \in Seq(S \cup T)
  BY <1>2
<1> QED
  BY <1>2, <1>3 DEF IsList

\* One line after the other is one line.
LEMMA WordsJoined ==
  ASSUME NEW c, NEW s, NEW t, IsList(s), IsList(t)
  PROVE  WordByWord(c, s \o t) = WordByWord(WordByWord(c, s), t)
<1> DEFINE m == Len(s)
           n == Len(t)
           line == s \o t
           d == WordByWord(c, s)
<1>1. /\ m \in Nat /\ n \in Nat /\ IsList(line) /\ Len(line) = m + n
      /\ \A i \in 1..m : line[i] = s[i]
      /\ \A i \in 1..n : line[m + i] = t[i]
  BY Listing, ListsJoined
<1>g. WordsOver(c, s)
  BY WordsLoop
<1>2. PICK g : /\ WordByWord(c, s) = g[m]
               /\ \A i \in 0..m : g[i] = IF i = 0 THEN c ELSE OneWord(g[i - 1], s[i])
  BY <1>g DEF WordsOver
<1>h. WordsOver(d, t)
  BY WordsLoop
<1>3. PICK h : /\ WordByWord(d, t) = h[n]
               /\ \A i \in 0..n : h[i] = IF i = 0 THEN d ELSE OneWord(h[i - 1], t[i])
  BY <1>h DEF WordsOver
<1> HIDE DEF m, n, line, d
<1> DEFINE k == [i \in 0..(m + n) |-> IF i <= m THEN g[i] ELSE h[i - m]]
<1>4. ASSUME NEW i \in 0..(m + n)
      PROVE  k[i] = IF i = 0 THEN c ELSE OneWord(k[i - 1], line[i])
  <2>1. CASE i = 0
    <3>1. 0 <= m /\ 0 \in 0..m
      BY <1>1
    <3> QED
      BY <2>1, <3>1, <1>2
  <2>2. CASE i # 0 /\ i <= m
    <3>1. i \in 0..m /\ i \in 1..m /\ i - 1 \in 0..(m + n) /\ i - 1 <= m
      BY <2>2, <1>1
    <3>2. k[i] = g[i] /\ k[i - 1] = g[i - 1]
      BY <2>2, <3>1
    <3> QED
      BY <1>1, <1>2, <2>2, <3>1, <3>2
  <2>3. CASE i > m
    <3>1. i - m \in 0..n /\ i - m \in 1..n /\ i - 1 \in 0..(m + n) /\ i # 0 /\ m + (i - m) = i /\ ~(i <= m)
      BY <2>3, <1>1
    <3>2. k[i - 1] = h[i - m - 1]
      <4>1. CASE i - 1 = m
        <5>1. i - m - 1 = 0 /\ 0 \in 0..n /\ m <= m /\ m \in 0..(m + n)
          BY <4>1, <1>1, <2>3
        <5>2. k[m] = g[m] /\ h[0] = d
          BY <1>3, <5>1
        <5> QED
          BY <1>2, <4>1, <5>1, <5>2 DEF d
      <4>2. CASE i - 1 # m
        <5>1. ~(i - 1 <= m) /\ i - 1 - m = i - m - 1
          BY <4>2, <1>1, <2>3
        <5> QED
          BY <3>1, <5>1
      <4> QED
        BY <4>1, <4>2
    <3>3. k[i] = h[i - m] /\ line[i] = t[i - m]
      BY <1>1, <3>1
    <3>4. h[i - m] = OneWord(h[i - m - 1], t[i - m])
      BY <1>3, <3>1
    <3> QED
      BY <3>1, <3>2, <3>3, <3>4
  <2> QED
    BY <2>1, <2>2, <2>3, <1>1
<1>5. k[m + n] = h[n]
  <2>1. CASE n = 0
    <3>1. m + n = m /\ m <= m /\ m \in 0..(m + n) /\ 0 \in 0..n
      BY <2>1, <1>1
    <3> QED
      BY <1>2, <1>3, <2>1, <3>1 DEF d
  <2>2. CASE n # 0
    <3>1. ~(m + n <= m) /\ m + n \in 0..(m + n) /\ m + n - m = n
      BY <2>2, <1>1
    <3>2. k[m + n] = h[m + n - m]
      BY <1>1, <3>1
    <3> QED
      BY <3>1, <3>2
  <2> QED
    BY <2>1, <2>2
<1> HIDE DEF k
<1>6. WordByWord(c, line) = k[m + n]
  BY <1>1, <1>4, WordsRun
<1> QED
  BY <1>3, <1>5, <1>6 DEF line, d

LEMMA WordTyped ==
  ASSUME NEW V, Holds(V), NEW c \in Currents(V), NEW w, w.value \in V
  PROVE  OneWord(c, w) \in Currents(V)
<1> DEFINE n == w.name
<1>1. Meant(w) \in V
  BY DEF Meant, Holds
<1>2. CASE n \in Flags
  <2>1. n \notin Multis
    BY <1>2, ActionKinds DEF Flags
  <2> DEFINE flags == IF w.sign = "+" THEN c.flags \cup {n} ELSE c.flags \ {n}
             string == IF n \in Strings /\ w.sign = "+" THEN [c.string EXCEPT ![n] = Meant(w)] ELSE c.string
  <2>2. OneWord(c, w) = [c EXCEPT !.flags = flags, !.string = string]
    BY <1>2, <2>1 DEF OneWord
  <2>3. flags \in SUBSET Flags /\ string \in [Strings -> V]
    BY <1>1, <1>2 DEF Currents
  <2> HIDE DEF flags, string
  <2> QED
    BY <2>2, <2>3 DEF Currents
<1>3. CASE n \in Multis
  <2>1. n \notin Flags
    BY <1>3, ActionKinds DEF Flags
  <2> DEFINE multi == [c.multi EXCEPT ![n] = IF w.sign = "+" THEN @ \cup {w.value}
                                             ELSE IF w.value = NoValue THEN {} ELSE @ \ {w.value}]
  <2>2. OneWord(c, w) = [c EXCEPT !.multi = multi]
    BY <1>3, <2>1 DEF OneWord, Currents
  <2>3. multi \in [Multis -> SUBSET V]
    BY <1>3 DEF Currents
  <2> HIDE DEF multi
  <2> QED
    BY <2>2, <2>3 DEF Currents
<1>4. CASE n \notin Flags /\ n \notin Multis
  BY <1>4 DEF OneWord
<1> QED
  BY <1>2, <1>3, <1>4

\* A line does the same to what is the same in force.
LEMMA WordsAlike ==
  ASSUME NEW V, Holds(V), NEW c \in Currents(V), NEW d \in Currents(V), InForce(c) = InForce(d),
         NEW line, Valued(V, line)
  PROVE  WordByWord(c, line) \in Currents(V) /\ InForce(WordByWord(c, line)) = InForce(WordByWord(d, line))
<1> DEFINE n == Len(line)
<1>1. n \in Nat /\ IsList(line) /\ \A i \in 1..n : line[i].value \in V
  BY Listing DEF Valued
<1>g. WordsOver(c, line)
  BY <1>1, WordsLoop
<1>2. PICK g : /\ WordByWord(c, line) = g[n]
               /\ \A i \in 0..n : g[i] = IF i = 0 THEN c ELSE OneWord(g[i - 1], line[i])
  BY <1>g DEF WordsOver
<1>h. WordsOver(d, line)
  BY <1>1, WordsLoop
<1>3. PICK h : /\ WordByWord(d, line) = h[n]
               /\ \A i \in 0..n : h[i] = IF i = 0 THEN d ELSE OneWord(h[i - 1], line[i])
  BY <1>h DEF WordsOver
<1> HIDE DEF n
<1> DEFINE Good(i) == g[i] \in Currents(V) /\ h[i] \in Currents(V) /\ InForce(g[i]) = InForce(h[i])
<1>4. \A i \in 0..n : Good(i)
  <2> DEFINE bad == {i \in 0..n : ~Good(i)}
  <2>1. SUFFICES ASSUME bad # {} PROVE FALSE
    OBVIOUS
  <2>2. bad \subseteq Nat
    BY <1>1
  <2>3. \E i \in bad : \A k \in bad : i <= k
    <3> HIDE DEF bad
    <3> QED
      BY <2>1, <2>2, LeastElement
  <2>4. PICK i \in bad : \A k \in bad : i <= k
    BY <2>3
  <2>5. CASE i = 0
    <3>1. Good(0)
      BY <1>1, <1>2, <1>3
    <3> QED
      BY <2>4, <2>5, <3>1
  <2>6. CASE i # 0
    <3>1. i \in 1..n /\ i - 1 \in 0..n /\ ~(i <= i - 1)
      BY <2>4, <2>6, <1>1
    <3>2. Good(i - 1)
      BY <2>4, <3>1
    <3>3. g[i] = OneWord(g[i - 1], line[i]) /\ h[i] = OneWord(h[i - 1], line[i])
      BY <1>2, <1>3, <2>4, <2>6
    <3>4. line[i].value \in V
      BY <1>1, <3>1
    <3>5. InForce(OneWord(g[i - 1], line[i])) = InForce(OneWord(h[i - 1], line[i]))
      BY <3>2, OneWordTheorem DEF Holds
    <3>6. OneWord(g[i - 1], line[i]) \in Currents(V) /\ OneWord(h[i - 1], line[i]) \in Currents(V)
      BY <3>2, <3>4, WordTyped
    <3>9. Good(i)
      BY <3>3, <3>5, <3>6
    <3> QED
      BY <2>4, <3>9
  <2> QED
    BY <2>5, <2>6
<1>5. Good(n)
  <2> HIDE DEF Good
  <2> QED
    BY <1>1, <1>4
<1> QED
  BY <1>2, <1>3, <1>5 DEF n

-----------------------------------------------------------------------------
(* get_actions(): a line and its aliases are compiled to what they say.    *)

LEMMA AliasTyped ==
  ASSUME NEW V, NEW d \in Specs(V), NEW s \in Specs(V)
  PROVE  merge_actions(d, s) \in Specs(V)
  BY DEF merge_actions, AddedLeft, Overridden, Specs

LEMMA EmptyTyped == ASSUME NEW V, Holds(V) PROVE EmptySpec \in Specs(V)
  BY DEF EmptySpec, Specs, NoStrings, NoLists, Flags, Holds

LEMMA NothingMeant == ASSUME NEW V, Holds(V) PROVE Valued(V, <<>>) /\ Means(V, EmptySpec, <<>>)
<1>1. Valued(V, <<>>)
  <2>1. <<>> \in Seq({}) /\ DOMAIN <<>> = {}
    OBVIOUS
  <2> QED
    BY <2>1 DEF Valued, IsList
<1>2. Means(V, EmptySpec, <<>>)
  BY EmptyLine, NoWords DEF Means, Holds
<1> QED
  BY <1>1, <1>2

\* The aliases that were read mean what was written.
AliasesMean(V, read, written) ==
  /\ DOMAIN read = DOMAIN written
  /\ \A a \in DOMAIN read : read[a] \in Specs(V) /\ Valued(V, written[a]) /\ Means(V, read[a], written[a])

\* get_actions(), word by word.
LEMMA CompilerLoop ==
  ASSUME NEW line, IsList(line), NEW aliases
  PROVE  \E g : /\ get_actions(line, aliases) = g[Len(line)]
               /\ \A i \in 0..Len(line) :
                    g[i] = IF i = 0 THEN Is(EmptySpec) ELSE Taken(g[i - 1], line[i], aliases)
<1> DEFINE n == Len(line)
           Step(g, i) == IF i = 0 THEN Is(EmptySpec) ELSE Taken(g[i - 1], line[i], aliases)
           IsAfter(g, k) == g = [i \in 0..k |-> Step(g, i)]
<1>1. n \in Nat
  BY Listing
<1> HIDE DEF n
<1>2. \E g : IsAfter(g, n)
  <2> DEFINE bad == {k \in Nat : ~ \E g : IsAfter(g, k)}
  <2>1. SUFFICES ASSUME bad # {} PROVE FALSE
    BY <1>1
  <2>2. PICK k \in bad : \A i \in bad : k <= i
    BY <2>1, LeastElement
  <2>3. CASE k = 0
    <3> DEFINE g == [i \in 0..0 |-> Is(EmptySpec)]
    <3>1. IsAfter(g, 0)
      OBVIOUS
    <3> QED
      BY <2>2, <2>3, <3>1
  <2>4. CASE k # 0
    <3>1. k \in Nat /\ k - 1 \in Nat /\ ~(k <= k - 1)
      BY <2>2, <2>4
    <3>2. PICK g : IsAfter(g, k - 1)
      BY <2>2, <3>1
    <3> DEFINE h == [i \in 0..k |-> IF i < k THEN g[i] ELSE Step(g, k)]
    <3>3. DOMAIN g = 0..(k - 1) /\ \A i \in 0..(k - 1) : g[i] = Step(g, i)
      BY <3>2
    <3>4. ASSUME NEW i \in 0..k
          PROVE  h[i] = Step(h, i)
      <4>1. CASE i = 0
        <5>1. 0 \in 0..k /\ 0 < k /\ 0 \in 0..(k - 1)
          BY <3>1, <2>4
        <5>2. h[0] = g[0] /\ g[0] = Is(EmptySpec)
          BY <3>3, <5>1
        <5> QED
          BY <4>1, <5>2
      <4>2. CASE i # 0 /\ i < k
        <5>1. i - 1 \in 0..k /\ i - 1 < k /\ i \in 0..(k - 1)
          BY <4>2, <3>1
        <5>2. h[i - 1] = g[i - 1] /\ h[i] = g[i]
          BY <4>2, <5>1
        <5> QED
          BY <3>3, <4>2, <5>1, <5>2
      <4>3. CASE i = k
        <5>1. h[k - 1] = g[k - 1]
          BY <3>1
        <5> QED
          BY <4>3, <5>1, <2>4, <3>1
      <4> QED
        BY <4>1, <4>2, <4>3, <3>1
    <3>5. IsAfter(h, k)
      <4> DEFINE hh == [i \in 0..k |-> Step(h, i)]
      <4>1. \A i \in 0..k : h[i] = hh[i]
        BY <3>4
      <4>2. h = hh
        BY <4>1
      <4> QED
        BY <4>2
    <3> QED
      BY <2>2, <3>5
  <2> QED
    BY <2>3, <2>4
<1> DEFINE After[i \in 0..n] == IF i = 0 THEN Is(EmptySpec) ELSE Taken(After[i - 1], line[i], aliases)
<1>3. get_actions(line, aliases) = After[n]
  BY DEF get_actions, n
<1>4. IsAfter(After, n)
  BY <1>2
<1> HIDE DEF After
<1>5. \A i \in 0..n : After[i] = Step(After, i)
  BY <1>4
<1> QED
  BY <1>1, <1>3, <1>5 DEF n

\* Spelled(), word by word.
LEMMA SpellingLoop ==
  ASSUME NEW words, IsList(words), NEW aliases
  PROVE  \E g : /\ Spelled(words, aliases) = g[Len(words)]
               /\ \A i \in 0..Len(words) :
                    g[i] = IF i = 0 THEN <<>> ELSE g[i - 1] \o Spelling(words[i], aliases)
<1> DEFINE n == Len(words)
           Step(g, i) == IF i = 0 THEN <<>> ELSE g[i - 1] \o Spelling(words[i], aliases)
           IsAfter(g, k) == g = [i \in 0..k |-> Step(g, i)]
<1>1. n \in Nat
  BY Listing
<1> HIDE DEF n
<1>2. \E g : IsAfter(g, n)
  <2> DEFINE bad == {k \in Nat : ~ \E g : IsAfter(g, k)}
  <2>1. SUFFICES ASSUME bad # {} PROVE FALSE
    BY <1>1
  <2>2. PICK k \in bad : \A i \in bad : k <= i
    BY <2>1, LeastElement
  <2>3. CASE k = 0
    <3> DEFINE g == [i \in 0..0 |-> <<>>]
    <3>1. IsAfter(g, 0)
      OBVIOUS
    <3> QED
      BY <2>2, <2>3, <3>1
  <2>4. CASE k # 0
    <3>1. k \in Nat /\ k - 1 \in Nat /\ ~(k <= k - 1)
      BY <2>2, <2>4
    <3>2. PICK g : IsAfter(g, k - 1)
      BY <2>2, <3>1
    <3> DEFINE h == [i \in 0..k |-> IF i < k THEN g[i] ELSE Step(g, k)]
    <3>3. DOMAIN g = 0..(k - 1) /\ \A i \in 0..(k - 1) : g[i] = Step(g, i)
      BY <3>2
    <3>4. ASSUME NEW i \in 0..k
          PROVE  h[i] = Step(h, i)
      <4>1. CASE i = 0
        <5>1. 0 \in 0..k /\ 0 < k /\ 0 \in 0..(k - 1)
          BY <3>1, <2>4
        <5>2. h[0] = g[0] /\ g[0] = <<>>
          BY <3>3, <5>1
        <5> QED
          BY <4>1, <5>2
      <4>2. CASE i # 0 /\ i < k
        <5>1. i - 1 \in 0..k /\ i - 1 < k /\ i \in 0..(k - 1)
          BY <4>2, <3>1
        <5>2. h[i - 1] = g[i - 1] /\ h[i] = g[i]
          BY <4>2, <5>1
        <5> QED
          BY <3>3, <4>2, <5>1, <5>2
      <4>3. CASE i = k
        <5>1. h[k - 1] = g[k - 1]
          BY <3>1
        <5> QED
          BY <4>3, <5>1, <2>4, <3>1
      <4> QED
        BY <4>1, <4>2, <4>3, <3>1
    <3>5. IsAfter(h, k)
      <4> DEFINE hh == [i \in 0..k |-> Step(h, i)]
      <4>1. \A i \in 0..k : h[i] = hh[i]
        BY <3>4
      <4>2. h = hh
        BY <4>1
      <4> QED
        BY <4>2
    <3> QED
      BY <2>2, <3>5
  <2> QED
    BY <2>3, <2>4
<1> DEFINE After[i \in 0..n] == IF i = 0 THEN <<>> ELSE After[i - 1] \o Spelling(words[i], aliases)
<1>3. Spelled(words, aliases) = After[n]
  BY DEF Spelled, n
<1>4. IsAfter(After, n)
  BY Zenon, <1>2
<1> HIDE DEF After
<1>5. \A i \in 0..n : After[i] = Step(After, i)
  BY <1>4
<1> QED
  BY <1>1, <1>3, <1>5 DEF n

LEMMA ValuedJoined ==
  ASSUME NEW V, NEW s, NEW t, Valued(V, s), Valued(V, t)
  PROVE  Valued(V, s \o t)
<1>1. IsList(s \o t) /\ Len(s) \in Nat /\ Len(t) \in Nat /\ Len(s \o t) = Len(s) + Len(t)
  BY Listing, ListsJoined DEF Valued
<1>2. ASSUME NEW i \in DOMAIN (s \o t) PROVE (s \o t)[i].value \in V
  <2>1. i \in 1..(Len(s) + Len(t))
    BY <1>1, Listing
  <2>2. CASE i <= Len(s)
    <3>1. i \in 1..Len(s) /\ i \in DOMAIN s
      BY <1>1, <2>1, <2>2, Listing DEF Valued
    <3> QED
      BY <3>1, ListsJoined DEF Valued
  <2>3. CASE i > Len(s)
    <3> DEFINE k == i - Len(s)
    <3>1. k \in 1..Len(t) /\ k \in DOMAIN t /\ Len(s) + k = i
      BY <1>1, <2>1, <2>3, Listing DEF Valued
    <3>2. (s \o t)[Len(s) + k] = t[k]
      BY <3>1, ListsJoined DEF Valued
    <3> HIDE DEF k
    <3> QED
      BY <3>1, <3>2 DEF Valued
  <2> QED
    BY <1>1, <2>1, <2>2, <2>3
<1> QED
  BY <1>1, <1>2 DEF Valued

\* A word more.
LEMMA WordCompiled ==
  ASSUME NEW V, Holds(V), NEW read, NEW written, AliasesMean(V, read, written),
         NEW spec \in Specs(V), NEW words, Valued(V, words), Means(V, spec, words),
         NEW w, w.value \in V, Option(spec, w, read).ok
  PROVE  LET all == words \o Spelling(w, written)
         IN  /\ Option(spec, w, read).spec \in Specs(V)
             /\ Valued(V, all) /\ Means(V, Option(spec, w, read).spec, all)
<1> DEFINE s == Option(spec, w, read).spec
           e == Spelling(w, written)
           all == words \o e
           M(c) == merge_current_action(c, spec)
<1>1. /\ s \in Specs(V) /\ Valued(V, e)
      /\ \A c \in Currents(V) : InForce(merge_current_action(c, s)) = InForce(WordByWord(M(c), e))
  <2>1. CASE w.name \in Names
    <3>1. e = <<w>>
      BY <2>1 DEF Spelling
    <3>2. Valued(V, <<w>>)
      <4>1. <<w>> \in Seq({w}) /\ DOMAIN <<w>> = 1..1 /\ <<w>>[1] = w
        OBVIOUS
      <4>2. IsList(<<w>>)
        BY <4>1 DEF IsList
      <4>3. \A i \in DOMAIN <<w>> : <<w>>[i].value \in V
        BY <4>1
      <4> QED
        BY <4>2, <4>3 DEF Valued
    <3>3. ASSUME NEW c \in Currents(V)
          PROVE  s \in Specs(V) /\ InForce(merge_current_action(c, s)) = InForce(WordByWord(M(c), e))
      <4>1. s \in Specs(V) /\ InForce(merge_current_action(c, s)) = InForce(OneWord(M(c), w))
        BY <2>1, WordTheorem
      <4> QED
        BY <3>1, <4>1, SingleWord
    <3>4. NoAction \in Currents(V)
      BY DEF NoAction, Currents, NoStrings, NoLists, Holds
    <3> HIDE DEF s, e
    <3> QED
      BY <3>1, <3>2, <3>3, <3>4
  <2>2. CASE w.name \notin Names /\ w.name \in DOMAIN read
    <3>1. /\ w.name \notin Bools /\ w.name \notin Strings /\ w.name \notin Multis
          /\ w.name \in DOMAIN read \ Names
      BY <2>2 DEF Names, Flags
    <3>2. Option(spec, w, read) = Is(merge_actions(spec, read[w.name]))
      BY <3>1 DEF Option
    <3>3. s = merge_actions(spec, read[w.name])
      BY <3>2 DEF Is
    <3>4. e = written[w.name]
      BY <2>2 DEF Spelling, AliasesMean
    <3>5. /\ read[w.name] \in Specs(V) /\ Valued(V, written[w.name])
          /\ Means(V, read[w.name], written[w.name])
      BY <2>2 DEF AliasesMean
    <3> HIDE DEF s, e
    <3>6. s \in Specs(V)
      BY <3>3, <3>5, AliasTyped
    <3>7. ASSUME NEW c \in Currents(V)
          PROVE  InForce(merge_current_action(c, s)) = InForce(WordByWord(M(c), e))
      <4>1. merge_current_action(c, s) = merge_current_action(M(c), read[w.name])
        BY <3>3, MergeTheorem
      <4>2. M(c) \in Currents(V)
        BY MergedTyped DEF Holds
      <4> HIDE DEF M
      <4> QED
        BY <3>4, <3>5, <4>1, <4>2 DEF Means
    <3> QED
      BY <3>4, <3>5, <3>6, <3>7
  <2>3. CASE w.name \notin Names /\ w.name \notin DOMAIN read
    <3>1. /\ w.name \notin Bools /\ w.name \notin Strings /\ w.name \notin Multis
          /\ w.name \notin DOMAIN read \ Names
      BY <2>3 DEF Names, Flags
    <3>2. Option(spec, w, read) = Is(spec)
      <4>1. CASE w.name = "obsolete"
        BY <2>3, <3>1, <4>1 DEF Option
      <4>2. CASE w.name # "obsolete"
        <5>1. Option(spec, w, read) = Failed
          BY <3>1, <4>2 DEF Option
        <5> QED
          BY <5>1 DEF Failed
      <4> QED
        BY <4>1, <4>2
    <3>3. s = spec
      BY <3>2 DEF Is
    <3>4. e = <<w>>
      BY <2>3 DEF Spelling, AliasesMean
    <3>5. Valued(V, <<w>>)
      <4>1. <<w>> \in Seq({w}) /\ DOMAIN <<w>> = 1..1 /\ <<w>>[1] = w
        OBVIOUS
      <4>2. IsList(<<w>>)
        BY <4>1 DEF IsList
      <4>3. \A i \in DOMAIN <<w>> : <<w>>[i].value \in V
        BY <4>1
      <4> QED
        BY <4>2, <4>3 DEF Valued
    <3>6. ASSUME NEW c PROVE OneWord(c, w) = c
      BY <2>3 DEF OneWord, Names
    <3> HIDE DEF s, e
    <3>7. ASSUME NEW c \in Currents(V)
          PROVE  InForce(merge_current_action(c, s)) = InForce(WordByWord(M(c), e))
      <4>1. WordByWord(M(c), <<w>>) = M(c)
        BY <3>6, SingleWord
      <4> QED
        BY <3>3, <3>4, <4>1
    <3> QED
      BY <3>3, <3>4, <3>5, <3>7
  <2> QED
    BY <2>1, <2>2, <2>3
<1> HIDE DEF s, e
<1>2. Valued(V, all)
  BY <1>1, ValuedJoined
<1>3. ASSUME NEW c \in Currents(V)
      PROVE  InForce(merge_current_action(c, s)) = InForce(WordByWord(c, all))
  <2>1. WordByWord(c, all) = WordByWord(WordByWord(c, words), e)
    BY <1>1, WordsJoined DEF Valued
  <2>2. M(c) \in Currents(V)
    BY MergedTyped DEF Holds
  <2>3. WordByWord(c, words) \in Currents(V)
    BY WordsAlike
  <2>4. InForce(M(c)) = InForce(WordByWord(c, words))
    BY DEF Means
  <2> HIDE DEF M
  <2>5. InForce(WordByWord(M(c), e)) = InForce(WordByWord(WordByWord(c, words), e))
    BY <1>1, <2>2, <2>3, <2>4, WordsAlike
  <2> QED
    BY <1>1, <2>1, <2>5 DEF M
<1>4. Means(V, s, all)
  BY <1>3 DEF Means
<1> QED
  BY <1>1, <1>2, <1>4 DEF s, e

\* A line.
LEMMA LineCompiled ==
  ASSUME NEW V, Holds(V), NEW read, NEW written, AliasesMean(V, read, written),
         NEW line, Valued(V, line), get_actions(line, read).ok
  PROVE  LET all == Spelled(line, written)
         IN  /\ get_actions(line, read).spec \in Specs(V)
             /\ Valued(V, all) /\ Means(V, get_actions(line, read).spec, all)
<1> DEFINE n == Len(line)
<1>1. n \in Nat /\ IsList(line) /\ \A i \in 1..n : line[i].value \in V
  BY Listing DEF Valued
<1>2. PICK g : /\ get_actions(line, read) = g[n]
               /\ \A i \in 0..n : g[i] = IF i = 0 THEN Is(EmptySpec) ELSE Taken(g[i - 1], line[i], read)
  BY <1>1, CompilerLoop
<1>3. PICK h : /\ Spelled(line, written) = h[n]
               /\ \A i \in 0..n : h[i] = IF i = 0 THEN <<>> ELSE h[i - 1] \o Spelling(line[i], written)
  BY <1>1, SpellingLoop
<1> HIDE DEF n
<1> DEFINE Good(i) == g[i].ok => g[i].spec \in Specs(V) /\ Valued(V, h[i]) /\ Means(V, g[i].spec, h[i])
<1>4. \A i \in 0..n : Good(i)
  <2> DEFINE bad == {i \in 0..n : ~Good(i)}
  <2>1. SUFFICES ASSUME bad # {} PROVE FALSE
    OBVIOUS
  <2>2. bad \subseteq Nat
    BY <1>1
  <2>3. \E i \in bad : \A k \in bad : i <= k
    <3> HIDE DEF bad
    <3> QED
      BY <2>1, <2>2, LeastElement
  <2>4. PICK i \in bad : \A k \in bad : i <= k
    BY <2>3
  <2>5. CASE i = 0
    <3>1. Good(0)
      <4>1. g[0] = Is(EmptySpec) /\ h[0] = <<>>
        BY <1>1, <1>2, <1>3
      <4>2. g[0].spec = EmptySpec
        BY <4>1 DEF Is
      <4> QED
        BY <4>1, <4>2, EmptyTyped, NothingMeant
    <3> QED
      BY <2>4, <2>5, <3>1
  <2>6. CASE i # 0
    <3>1. i \in 1..n /\ i - 1 \in 0..n /\ ~(i <= i - 1)
      BY <2>4, <2>6, <1>1
    <3>2. Good(i - 1)
      BY <2>4, <3>1
    <3>3. g[i] = Taken(g[i - 1], line[i], read) /\ h[i] = h[i - 1] \o Spelling(line[i], written)
      BY <1>2, <1>3, <2>4, <2>6
    <3>4. line[i].value \in V
      BY <1>1, <3>1
    <3>5. CASE g[i].ok
      <4>1. g[i - 1].ok
        BY <3>3, <3>5 DEF Taken
      <4>2. g[i] = Option(g[i - 1].spec, line[i], read)
        BY <3>3, <4>1 DEF Taken
      <4> DEFINE spec == g[i - 1].spec
                 words == h[i - 1]
      <4>3. spec \in Specs(V) /\ Valued(V, words) /\ Means(V, spec, words)
        BY <3>2, <4>1
      <4>4. Option(spec, line[i], read).ok
        BY <3>5, <4>2
      <4> HIDE DEF spec, words
      <4>5. /\ Option(spec, line[i], read).spec \in Specs(V)
            /\ Valued(V, words \o Spelling(line[i], written))
            /\ Means(V, Option(spec, line[i], read).spec, words \o Spelling(line[i], written))
        BY <3>4, <4>3, <4>4, WordCompiled
      <4> QED
        BY <3>3, <4>2, <4>5 DEF spec, words
    <3>9. Good(i)
      BY <3>5
    <3> QED
      BY <2>4, <3>9
  <2> QED
    BY <2>5, <2>6
<1>5. Good(n)
  <2> HIDE DEF Good
  <2> QED
    BY <1>1, <1>4
<1> QED
  BY <1>2, <1>3, <1>5

-----------------------------------------------------------------------------
(* load_one_actions_file(): so is a file.                                  *)

\* The sections that were read do what the rules say.
Compiled(V, sections, rules) ==
  /\ IsList(sections) /\ IsList(rules) /\ Len(sections) = Len(rules)
  /\ \A i \in 1..Len(rules) : /\ sections[i].url = rules[i].pattern
                              /\ sections[i].action \in Specs(V) /\ Valued(V, rules[i].words)
                              /\ Means(V, sections[i].action, rules[i].words)

Agrees(V, f, g) ==
  /\ DOMAIN f = {"ok", "mode", "aliases", "spec", "sections"}
  /\ DOMAIN g = {"part", "aliases", "words", "rules"}
  /\ g.part \in {"start", "settings", "description", "alias", "actions"} /\ f.mode = Mode[g.part]
  /\ AliasesMean(V, f.aliases, g.aliases)
  /\ f.spec \in Specs(V) /\ Valued(V, g.words) /\ Means(V, f.spec, g.words)
  /\ Compiled(V, f.sections, g.rules)

LEMMA Modes ==
  /\ Mode["start"] = 1 /\ Mode["settings"] = 2 /\ Mode["description"] = 3 /\ Mode["alias"] = 4
  /\ Mode["actions"] = 5
  /\ Mode.start = 1 /\ Mode.settings = 2 /\ Mode.description = 3 /\ Mode.alias = 4 /\ Mode.actions = 5
  BY DEF Mode

LEMMA NothingRead == ASSUME NEW V, Holds(V) PROVE Agrees(V, StartOfFile, Blank)
<1>1. AliasesMean(V, <<>>, <<>>)
  BY DEF AliasesMean
<1>2. <<>> \in Seq({}) /\ Len(<<>>) = 0
  OBVIOUS
<1>3. Compiled(V, <<>>, <<>>)
  BY <1>2 DEF Compiled, IsList
<1>4. EmptySpec \in Specs(V) /\ Valued(V, <<>>) /\ Means(V, EmptySpec, <<>>)
  BY EmptyTyped, NothingMeant
<1> QED
  BY <1>1, <1>3, <1>4, Modes DEF Agrees, StartOfFile, Blank

\* A rule more.
LEMMA RuleCompiled ==
  ASSUME NEW V, NEW sections, NEW rules, Compiled(V, sections, rules), NEW p,
         NEW spec \in Specs(V), NEW words, Valued(V, words), Means(V, spec, words)
  PROVE  Compiled(V, Append(sections, [url |-> p, action |-> spec]),
                     Append(rules, [pattern |-> p, words |-> words]))
<1> DEFINE s == [url |-> p, action |-> spec]
           r == [pattern |-> p, words |-> words]
           n == Len(rules)
<1>1. /\ IsList(Append(sections, s)) /\ Len(Append(sections, s)) = n + 1 /\ n \in Nat
      /\ IsList(Append(rules, r)) /\ Len(Append(rules, r)) = n + 1 /\ Len(sections) = n
  BY Appended DEF Compiled
<1>2. /\ \A i \in 1..n : Append(sections, s)[i] = sections[i] /\ Append(rules, r)[i] = rules[i]
      /\ Append(sections, s)[n + 1] = s /\ Append(rules, r)[n + 1] = r
  <2>1. PICK S, R : sections \in Seq(S) /\ rules \in Seq(R)
    BY DEF Compiled, IsList
  <2>2. sections \in Seq(S \cup {s}) /\ rules \in Seq(R \cup {r})
    BY <2>1
  <2> HIDE DEF s, r
  <2> QED
    BY <1>1, <2>2
<1>3. s.url = p /\ s.action = spec /\ r.pattern = p /\ r.words = words
  OBVIOUS
<1> HIDE DEF s, r, n
<1>4. ASSUME NEW i \in 1..(n + 1)
      PROVE  /\ Append(sections, s)[i].url = Append(rules, r)[i].pattern
             /\ Append(sections, s)[i].action \in Specs(V) /\ Valued(V, Append(rules, r)[i].words)
             /\ Means(V, Append(sections, s)[i].action, Append(rules, r)[i].words)
  <2>1. CASE i = n + 1
    BY <1>2, <1>3, <2>1
  <2>2. CASE i # n + 1
    <3>1. i \in 1..n
      BY <1>1, <2>2
    <3> QED
      BY <1>2, <3>1 DEF Compiled, n
  <2> QED
    BY <2>1, <2>2
<1> QED
  BY <1>1, <1>4 DEF Compiled, s, r, n

\* A line that can be read.
LineOf(V, line) == IsLine(line) /\ (line.kind # "heading" => Valued(V, line.words))

LEMMA LineAgrees ==
  ASSUME NEW V, Holds(V), NEW f, NEW g, Agrees(V, f, g), NEW line, LineOf(V, line), f.ok,
         ReadLine(f, line).ok
  PROVE  Agrees(V, ReadLine(f, line), OneLine(g, line))
<1> DEFINE h == ReadLine(f, line)
           t == OneLine(g, line)
<1>1. ~Fatal(f).ok
  BY DEF Fatal, Agrees
<1>2. CASE line.kind = "heading"
  <2>1. h = ReadHeading(f, line.name)
    BY <1>2 DEF ReadLine
  <2>2. t = [g EXCEPT !.part = line.name]
    BY <1>2 DEF OneLine
  <2>3. h = [f EXCEPT !.mode = Mode[line.name]] /\ line.name \in {"settings", "description", "alias"}
    BY <1>1, <2>1 DEF ReadHeading
  <2>4. /\ h.mode = Mode[line.name] /\ h.aliases = f.aliases /\ h.spec = f.spec /\ h.sections = f.sections
        /\ DOMAIN h = DOMAIN f
    BY <2>3 DEF Agrees
  <2>5. /\ t.part = line.name /\ t.aliases = g.aliases /\ t.words = g.words /\ t.rules = g.rules
        /\ DOMAIN t = DOMAIN g
    BY <2>2 DEF Agrees
  <2> HIDE DEF h, t
  <2>6. Agrees(V, h, t)
    BY <2>3, <2>4, <2>5 DEF Agrees
  <2> QED
    BY <2>6 DEF h, t
<1>3. CASE line.kind = "section"
  <2> DEFINE r == get_actions(line.words, f.aliases)
             words == Spelled(line.words, g.aliases)
  <2>1. h = ReadSection(f, line.words)
    BY <1>3 DEF ReadLine
  <2>2. t = [g EXCEPT !.part = "actions", !.words = words]
    BY <1>3 DEF OneLine
  <2>3. r.ok /\ h = [f EXCEPT !.mode = Mode.actions, !.spec = r.spec]
    BY <1>1, <2>1 DEF ReadSection
  <2>4. r.spec \in Specs(V) /\ Valued(V, words) /\ Means(V, r.spec, words)
    BY <1>3, <2>3, LineCompiled DEF Agrees, LineOf
  <2> HIDE DEF r, words
  <2>5. /\ h.mode = Mode.actions /\ h.aliases = f.aliases /\ h.spec = r.spec /\ h.sections = f.sections
        /\ DOMAIN h = DOMAIN f
    BY <2>3 DEF Agrees
  <2>6. /\ t.part = "actions" /\ t.aliases = g.aliases /\ t.words = words /\ t.rules = g.rules
        /\ DOMAIN t = DOMAIN g
    BY <2>2 DEF Agrees
  <2> HIDE DEF h, t
  <2>7. Agrees(V, h, t)
    BY <2>4, <2>5, <2>6, Modes DEF Agrees
  <2> QED
    BY <2>7 DEF h, t
<1>4. CASE line.kind = "text"
  <2>1. h = ReadText(f, line)
    BY <1>4 DEF ReadLine
  <2>2. CASE g.part = "start"
    <3>1. f.mode = 1
      BY <2>2, Modes DEF Agrees
    <3>2. h = Fatal(f)
      BY <2>1, <3>1, Modes DEF ReadText
    <3> QED
      BY <1>1, <3>2
  <2>3. CASE g.part \in {"settings", "description"}
    <3>1. f.mode = 2 \/ f.mode = 3
      BY <2>3, Modes DEF Agrees
    <3>2. h = f
      <4>1. CASE f.mode = 2
        <5>1. h = IF line.newer THEN Fatal(f) ELSE f
          BY <2>1, <4>1, Modes DEF ReadText
        <5> QED
          BY <1>1, <5>1
      <4>2. CASE f.mode = 3
        BY <2>1, <4>2, Modes DEF ReadText
      <4> QED
        BY <3>1, <4>1, <4>2
    <3>3. t = g
      BY <1>4, <2>3 DEF OneLine
    <3> QED
      BY <3>2, <3>3
  <2>4. CASE g.part = "alias"
    <3> DEFINE r == get_actions(line.words, f.aliases)
               words == Spelled(line.words, g.aliases)
               n == line.name
    <3>1. f.mode = 4
      BY <2>4, Modes DEF Agrees
    <3>2. h = ReadAlias(f, n, line.words)
      BY <2>1, <3>1, Modes DEF ReadText
    <3>3. t = [g EXCEPT !.aliases = NewAlias(@, n, words)]
      BY <1>4, <2>4 DEF OneLine
    <3>4. r.ok /\ h = [f EXCEPT !.aliases = NewAlias(@, n, r.spec)]
      BY <1>1, <3>2 DEF ReadAlias
    <3>5. r.spec \in Specs(V) /\ Valued(V, words) /\ Means(V, r.spec, words)
      BY <1>4, <3>4, LineCompiled DEF Agrees, LineOf
    <3> HIDE DEF r, words, n
    <3>6. /\ h.mode = f.mode /\ h.aliases = NewAlias(f.aliases, n, r.spec) /\ h.spec = f.spec
          /\ h.sections = f.sections /\ DOMAIN h = DOMAIN f
      BY <3>4 DEF Agrees
    <3>7. /\ t.part = g.part /\ t.aliases = NewAlias(g.aliases, n, words) /\ t.words = g.words
          /\ t.rules = g.rules /\ DOMAIN t = DOMAIN g
      BY <3>3 DEF Agrees
    <3>8. AliasesMean(V, NewAlias(f.aliases, n, r.spec), NewAlias(g.aliases, n, words))
      <4> DEFINE F == NewAlias(f.aliases, n, r.spec)
                 G == NewAlias(g.aliases, n, words)
      <4>1. /\ DOMAIN F = {n} \cup DOMAIN f.aliases
            /\ F[n] = r.spec /\ \A a \in DOMAIN f.aliases : a # n => F[a] = f.aliases[a]
        BY DEF NewAlias
      <4>2. /\ DOMAIN G = {n} \cup DOMAIN g.aliases
            /\ G[n] = words /\ \A a \in DOMAIN g.aliases : a # n => G[a] = g.aliases[a]
        BY DEF NewAlias
      <4> HIDE DEF F, G
      <4>3. AliasesMean(V, F, G)
        BY <3>5, <4>1, <4>2 DEF AliasesMean, Agrees
      <4> QED
        BY <4>3 DEF F, G
    <3> HIDE DEF h, t
    <3>9. Agrees(V, h, t)
      BY <3>6, <3>7, <3>8 DEF Agrees
    <3> QED
      BY <3>9 DEF h, t
  <2>5. CASE g.part = "actions"
    <3> DEFINE s == [url |-> line.pattern, action |-> f.spec]
               r == [pattern |-> line.pattern, words |-> g.words]
    <3>1. f.mode = 5
      BY <2>5, Modes DEF Agrees
    <3>2. h = ReadPattern(f, line.pattern)
      BY <2>1, <3>1, Modes DEF ReadText
    <3>3. t = [g EXCEPT !.rules = Append(@, r)]
      BY <1>4, <2>5 DEF OneLine
    <3>4. h = [f EXCEPT !.sections = Append(@, s)]
      BY <1>1, <3>2 DEF ReadPattern
    <3>5. Compiled(V, Append(f.sections, s), Append(g.rules, r))
      BY RuleCompiled DEF Agrees
    <3> HIDE DEF s, r
    <3>6. /\ h.mode = f.mode /\ h.aliases = f.aliases /\ h.spec = f.spec
          /\ h.sections = Append(f.sections, s) /\ DOMAIN h = DOMAIN f
      BY <3>4 DEF Agrees
    <3>7. /\ t.part = g.part /\ t.aliases = g.aliases /\ t.words = g.words
          /\ t.rules = Append(g.rules, r) /\ DOMAIN t = DOMAIN g
      BY <3>3 DEF Agrees
    <3> HIDE DEF h, t
    <3>8. Agrees(V, h, t)
      BY <3>5, <3>6, <3>7 DEF Agrees
    <3> QED
      BY <3>8 DEF h, t
  <2> QED
    BY <2>2, <2>3, <2>4, <2>5 DEF Agrees
<1> QED
  BY <1>2, <1>3, <1>4 DEF LineOf, IsLine

\* Written(), line by line.
LEMMA WrittenLoop ==
  ASSUME NEW file, IsList(file)
  PROVE  \E g : /\ Written(file) = g[Len(file)].rules
               /\ \A i \in 0..Len(file) : g[i] = IF i = 0 THEN Blank ELSE OneLine(g[i - 1], file[i])
<1> DEFINE n == Len(file)
           Step(g, i) == IF i = 0 THEN Blank ELSE OneLine(g[i - 1], file[i])
           IsAfter(g, k) == g = [i \in 0..k |-> Step(g, i)]
<1>1. n \in Nat
  BY Listing
<1> HIDE DEF n
<1>2. \E g : IsAfter(g, n)
  <2> DEFINE bad == {k \in Nat : ~ \E g : IsAfter(g, k)}
  <2>1. SUFFICES ASSUME bad # {} PROVE FALSE
    BY <1>1
  <2>2. PICK k \in bad : \A i \in bad : k <= i
    BY <2>1, LeastElement
  <2>3. CASE k = 0
    <3> DEFINE g == [i \in 0..0 |-> Blank]
    <3>1. IsAfter(g, 0)
      OBVIOUS
    <3> QED
      BY <2>2, <2>3, <3>1
  <2>4. CASE k # 0
    <3>1. k \in Nat /\ k - 1 \in Nat /\ ~(k <= k - 1)
      BY <2>2, <2>4
    <3>2. PICK g : IsAfter(g, k - 1)
      BY <2>2, <3>1
    <3> DEFINE h == [i \in 0..k |-> IF i < k THEN g[i] ELSE Step(g, k)]
    <3>3. DOMAIN g = 0..(k - 1) /\ \A i \in 0..(k - 1) : g[i] = Step(g, i)
      BY <3>2
    <3>4. ASSUME NEW i \in 0..k
          PROVE  h[i] = Step(h, i)
      <4>1. CASE i = 0
        <5>1. 0 \in 0..k /\ 0 < k /\ 0 \in 0..(k - 1)
          BY <3>1, <2>4
        <5>2. h[0] = g[0] /\ g[0] = Blank
          BY <3>3, <5>1
        <5> QED
          BY <4>1, <5>2
      <4>2. CASE i # 0 /\ i < k
        <5>1. i - 1 \in 0..k /\ i - 1 < k /\ i \in 0..(k - 1)
          BY <4>2, <3>1
        <5>2. h[i - 1] = g[i - 1] /\ h[i] = g[i]
          BY <4>2, <5>1
        <5> QED
          BY <3>3, <4>2, <5>1, <5>2
      <4>3. CASE i = k
        <5>1. h[k - 1] = g[k - 1]
          BY <3>1
        <5> QED
          BY <4>3, <5>1, <2>4, <3>1
      <4> QED
        BY <4>1, <4>2, <4>3, <3>1
    <3>5. IsAfter(h, k)
      <4> DEFINE hh == [i \in 0..k |-> Step(h, i)]
      <4>1. \A i \in 0..k : h[i] = hh[i]
        BY <3>4
      <4>2. h = hh
        BY <4>1
      <4> QED
        BY <4>2
    <3> QED
      BY <2>2, <3>5
  <2> QED
    BY <2>3, <2>4
<1> DEFINE After[i \in 0..n] == IF i = 0 THEN Blank ELSE OneLine(After[i - 1], file[i])
<1>3. Written(file) = After[n].rules
  BY DEF Written, n
<1>4. IsAfter(After, n)
  BY <1>2
<1> HIDE DEF After
<1>5. \A i \in 0..n : After[i] = Step(After, i)
  BY <1>4
<1> QED
  BY <1>1, <1>3, <1>5 DEF n

LEMMA FileCompiled ==
  ASSUME NEW V, Holds(V), NEW lines, IsList(lines), \A i \in DOMAIN lines : LineOf(V, lines[i]),
         load_one_actions_file(lines).ok
  PROVE  Compiled(V, load_one_actions_file(lines).sections, Written(lines))
<1> DEFINE n == Len(lines)
<1>1. n \in Nat /\ \A i \in 1..n : LineOf(V, lines[i])
  BY Listing
<1>2. PICK g : /\ load_one_actions_file(lines) = g[n]
               /\ \A i \in 0..n : g[i] = IF i = 0 THEN StartOfFile ELSE ReadLine(g[i - 1], lines[i])
  BY FileLoop
<1>3. PICK h : /\ Written(lines) = h[n].rules
               /\ \A i \in 0..n : h[i] = IF i = 0 THEN Blank ELSE OneLine(h[i - 1], lines[i])
  BY WrittenLoop
<1> HIDE DEF n
<1> DEFINE Good(i) == g[i].ok => Agrees(V, g[i], h[i])
<1>4. \A i \in 0..n : Good(i)
  <2> DEFINE bad == {i \in 0..n : ~Good(i)}
  <2>1. SUFFICES ASSUME bad # {} PROVE FALSE
    OBVIOUS
  <2>2. bad \subseteq Nat
    BY <1>1
  <2>3. \E i \in bad : \A k \in bad : i <= k
    <3> HIDE DEF bad
    <3> QED
      BY <2>1, <2>2, LeastElement
  <2>4. PICK i \in bad : \A k \in bad : i <= k
    BY <2>3
  <2>5. CASE i = 0
    <3>1. Good(0)
      BY <1>1, <1>2, <1>3, NothingRead
    <3> QED
      BY <2>4, <2>5, <3>1
  <2>6. CASE i # 0
    <3>1. i \in 1..n /\ i - 1 \in 0..n /\ ~(i <= i - 1)
      BY <2>4, <2>6, <1>1
    <3>2. Good(i - 1)
      BY <2>4, <3>1
    <3>3. g[i] = ReadLine(g[i - 1], lines[i]) /\ h[i] = OneLine(h[i - 1], lines[i])
      BY <1>2, <1>3, <2>4, <2>6
    <3>4. LineOf(V, lines[i])
      BY <1>1, <3>1
    <3>5. CASE g[i].ok
      <4>1. g[i - 1].ok
        BY <3>3, <3>5 DEF ReadLine
      <4>2. Agrees(V, ReadLine(g[i - 1], lines[i]), OneLine(h[i - 1], lines[i]))
        BY <3>2, <3>3, <3>4, <3>5, <4>1, LineAgrees
      <4> QED
        BY <3>3, <4>2
    <3>9. Good(i)
      BY <3>5
    <3> QED
      BY <2>4, <3>9
  <2> QED
    BY <2>5, <2>6
<1>5. Good(n)
  <2> HIDE DEF Good
  <2> QED
    BY <1>1, <1>4
<1> QED
  BY <1>2, <1>3, <1>5 DEF Agrees

-----------------------------------------------------------------------------
(* get_url_actions(): what is in force is what is written.                 *)

\* RuleByRule(), one after the other.
RunsOver(start, rules, c) ==
  \E g : /\ RuleByRule(start, rules, c) = g[Len(rules)]
         /\ \A i \in 0..Len(rules) : g[i] = IF i = 0 THEN start ELSE OneRule(g[i - 1], rules[i], c)
LEMMA RulesLoop ==
  ASSUME NEW start, NEW rules, NEW c, IsList(rules)
  PROVE  RunsOver(start, rules, c)
<1> SUFFICES \E g : /\ RuleByRule(start, rules, c) = g[Len(rules)]
                    /\ \A i \in 0..Len(rules) : g[i] = IF i = 0 THEN start ELSE OneRule(g[i - 1], rules[i], c)
  BY DEF RunsOver
<1> DEFINE n == Len(rules)
           Step(g, i) == IF i = 0 THEN start ELSE OneRule(g[i - 1], rules[i], c)
           IsAfter(g, k) == g = [i \in 0..k |-> Step(g, i)]
<1>1. n \in Nat
  BY Listing
<1> HIDE DEF n
<1>2. \E g : IsAfter(g, n)
  <2> DEFINE bad == {k \in Nat : ~ \E g : IsAfter(g, k)}
  <2>1. SUFFICES ASSUME bad # {} PROVE FALSE
    BY <1>1
  <2>2. PICK k \in bad : \A i \in bad : k <= i
    BY <2>1, LeastElement
  <2>3. CASE k = 0
    <3> DEFINE g == [i \in 0..0 |-> start]
    <3>1. IsAfter(g, 0)
      OBVIOUS
    <3> QED
      BY <2>2, <2>3, <3>1
  <2>4. CASE k # 0
    <3>1. k \in Nat /\ k - 1 \in Nat /\ ~(k <= k - 1)
      BY <2>2, <2>4
    <3>2. PICK g : IsAfter(g, k - 1)
      BY <2>2, <3>1
    <3> DEFINE h == [i \in 0..k |-> IF i < k THEN g[i] ELSE Step(g, k)]
    <3>3. DOMAIN g = 0..(k - 1) /\ \A i \in 0..(k - 1) : g[i] = Step(g, i)
      BY <3>2
    <3>4. ASSUME NEW i \in 0..k
          PROVE  h[i] = Step(h, i)
      <4>1. CASE i = 0
        <5>1. 0 \in 0..k /\ 0 < k /\ 0 \in 0..(k - 1)
          BY <3>1, <2>4
        <5>2. h[0] = g[0] /\ g[0] = start
          BY <3>3, <5>1
        <5> QED
          BY <4>1, <5>2
      <4>2. CASE i # 0 /\ i < k
        <5>1. i - 1 \in 0..k /\ i - 1 < k /\ i \in 0..(k - 1)
          BY <4>2, <3>1
        <5>2. h[i - 1] = g[i - 1] /\ h[i] = g[i]
          BY <4>2, <5>1
        <5> QED
          BY <3>3, <4>2, <5>1, <5>2
      <4>3. CASE i = k
        <5>1. h[k - 1] = g[k - 1]
          BY <3>1
        <5> QED
          BY <4>3, <5>1, <2>4, <3>1
      <4> QED
        BY <4>1, <4>2, <4>3, <3>1
    <3>5. IsAfter(h, k)
      <4> DEFINE hh == [i \in 0..k |-> Step(h, i)]
      <4>1. \A i \in 0..k : h[i] = hh[i]
        BY <3>4
      <4>2. h = hh
        BY <4>1
      <4> QED
        BY <4>2
    <3> QED
      BY <2>2, <3>5
  <2> QED
    BY <2>3, <2>4
<1> DEFINE After[i \in 0..n] == IF i = 0 THEN start ELSE OneRule(After[i - 1], rules[i], c)
<1>3. RuleByRule(start, rules, c) = After[n]
  BY DEF RuleByRule, n
<1>4. IsAfter(After, n)
  BY <1>2
<1> HIDE DEF After
<1>5. \A i \in 0..n : After[i] = Step(After, i)
  BY <1>4
<1> QED
  BY <1>1, <1>3, <1>5 DEF n

\* FileByFile(), one after the other.
LEMMA TextsLoop ==
  ASSUME NEW files, IsList(files), NEW c
  PROVE  \E g : /\ FileByFile(files, c) = g[Len(files)]
               /\ \A i \in 0..Len(files) :
                    g[i] = IF i = 0 THEN NoAction ELSE RuleByRule(g[i - 1], Written(files[i]), c)
<1> DEFINE n == Len(files)
           Step(g, i) == IF i = 0 THEN NoAction ELSE RuleByRule(g[i - 1], Written(files[i]), c)
           IsAfter(g, k) == g = [i \in 0..k |-> Step(g, i)]
<1>1. n \in Nat
  BY Listing
<1> HIDE DEF n
<1>2. \E g : IsAfter(g, n)
  <2> DEFINE bad == {k \in Nat : ~ \E g : IsAfter(g, k)}
  <2>1. SUFFICES ASSUME bad # {} PROVE FALSE
    BY <1>1
  <2>2. PICK k \in bad : \A i \in bad : k <= i
    BY <2>1, LeastElement
  <2>3. CASE k = 0
    <3> DEFINE g == [i \in 0..0 |-> NoAction]
    <3>1. IsAfter(g, 0)
      OBVIOUS
    <3> QED
      BY <2>2, <2>3, <3>1
  <2>4. CASE k # 0
    <3>1. k \in Nat /\ k - 1 \in Nat /\ ~(k <= k - 1)
      BY <2>2, <2>4
    <3>2. PICK g : IsAfter(g, k - 1)
      BY <2>2, <3>1
    <3> DEFINE h == [i \in 0..k |-> IF i < k THEN g[i] ELSE Step(g, k)]
    <3>3. DOMAIN g = 0..(k - 1) /\ \A i \in 0..(k - 1) : g[i] = Step(g, i)
      BY <3>2
    <3>4. ASSUME NEW i \in 0..k
          PROVE  h[i] = Step(h, i)
      <4>1. CASE i = 0
        <5>1. 0 \in 0..k /\ 0 < k /\ 0 \in 0..(k - 1)
          BY <3>1, <2>4
        <5>2. h[0] = g[0] /\ g[0] = NoAction
          BY <3>3, <5>1
        <5> QED
          BY <4>1, <5>2
      <4>2. CASE i # 0 /\ i < k
        <5>1. i - 1 \in 0..k /\ i - 1 < k /\ i \in 0..(k - 1)
          BY <4>2, <3>1
        <5>2. h[i - 1] = g[i - 1] /\ h[i] = g[i]
          BY <4>2, <5>1
        <5> QED
          BY <3>3, <4>2, <5>1, <5>2
      <4>3. CASE i = k
        <5>1. h[k - 1] = g[k - 1]
          BY <3>1
        <5> QED
          BY <4>3, <5>1, <2>4, <3>1
      <4> QED
        BY <4>1, <4>2, <4>3, <3>1
    <3>5. IsAfter(h, k)
      <4> DEFINE hh == [i \in 0..k |-> Step(h, i)]
      <4>1. \A i \in 0..k : h[i] = hh[i]
        BY <3>4
      <4>2. h = hh
        BY <4>1
      <4> QED
        BY <4>2
    <3> QED
      BY <2>2, <3>5
  <2> QED
    BY <2>3, <2>4
<1> DEFINE After[i \in 0..n] == IF i = 0 THEN NoAction ELSE RuleByRule(After[i - 1], Written(files[i]), c)
<1>3. FileByFile(files, c) = After[n]
  BY DEF FileByFile, n
<1>4. IsAfter(After, n)
  BY <1>2
<1> HIDE DEF After
<1>5. \A i \in 0..n : After[i] = Step(After, i)
  BY <1>4
<1> QED
  BY <1>1, <1>3, <1>5 DEF n

\* The sections of a file.
LEMMA SectionsAgree ==
  ASSUME NEW V, Holds(V), NEW sections, NEW rules, Compiled(V, sections, rules),
         NEW a \in Currents(V), NEW b \in Currents(V), InForce(a) = InForce(b), NEW applying, NEW c,
         \A i \in 1..Len(rules) : sections[i] \in applying <=> Applies(rules[i].pattern, c)
  PROVE  LET computed == apply_url_actions(sections, a, applying)
             said     == RuleByRule(b, rules, c)
         IN  computed \in Currents(V) /\ said \in Currents(V) /\ InForce(computed) = InForce(said)
<1> DEFINE n == Len(rules)
<1>1. n \in Nat /\ n = Len(sections) /\ IsList(sections) /\ IsList(rules)
  BY Listing DEF Compiled
<1>2. PICK g : /\ apply_url_actions(sections, a, applying) = g[n]
               /\ \A i \in 0..n :
                    g[i] = IF i = 0 THEN a
                           ELSE IF sections[i] \in applying
                                THEN merge_current_action(g[i - 1], sections[i].action)
                                ELSE g[i - 1]
  BY <1>1, SectionsLoop
<1>run. RunsOver(b, rules, c)
  BY <1>1, RulesLoop
<1>3. PICK h : /\ RuleByRule(b, rules, c) = h[n]
               /\ \A i \in 0..n : h[i] = IF i = 0 THEN b ELSE OneRule(h[i - 1], rules[i], c)
  BY <1>run DEF RunsOver
<1> HIDE DEF n
<1> DEFINE Good(i) == g[i] \in Currents(V) /\ h[i] \in Currents(V) /\ InForce(g[i]) = InForce(h[i])
<1>4. \A i \in 0..n : Good(i)
  <2> DEFINE bad == {i \in 0..n : ~Good(i)}
  <2>1. SUFFICES ASSUME bad # {} PROVE FALSE
    OBVIOUS
  <2>2. bad \subseteq Nat
    BY <1>1
  <2>3. \E i \in bad : \A k \in bad : i <= k
    <3> HIDE DEF bad
    <3> QED
      BY <2>1, <2>2, LeastElement
  <2>4. PICK i \in bad : \A k \in bad : i <= k
    BY <2>3
  <2>5. CASE i = 0
    <3>1. Good(0)
      BY <1>1, <1>2, <1>3
    <3> QED
      BY <2>4, <2>5, <3>1
  <2>6. CASE i # 0
    <3>1. i \in 1..n /\ i - 1 \in 0..n /\ ~(i <= i - 1)
      BY <2>4, <2>6, <1>1
    <3>2. Good(i - 1)
      BY <2>4, <3>1
    <3>3. /\ g[i] = IF sections[i] \in applying THEN merge_current_action(g[i - 1], sections[i].action)
                    ELSE g[i - 1]
          /\ h[i] = IF Applies(rules[i].pattern, c) THEN WordByWord(h[i - 1], rules[i].words) ELSE h[i - 1]
      BY <1>2, <1>3, <2>4, <2>6 DEF OneRule
    <3>4. /\ sections[i] \in applying <=> Applies(rules[i].pattern, c)
          /\ sections[i].action \in Specs(V) /\ Valued(V, rules[i].words)
          /\ Means(V, sections[i].action, rules[i].words)
      BY <3>1 DEF Compiled, n
    <3>5. CASE Applies(rules[i].pattern, c)
      <4> DEFINE x == g[i - 1]
                 y == h[i - 1]
                 spec == sections[i].action
                 words == rules[i].words
      <4>1. x \in Currents(V) /\ y \in Currents(V) /\ InForce(x) = InForce(y)
        BY <3>2
      <4>2. g[i] = merge_current_action(x, spec) /\ h[i] = WordByWord(y, words)
        BY <3>3, <3>4, <3>5
      <4>3. spec \in Specs(V) /\ Valued(V, words) /\ Means(V, spec, words)
        BY <3>4
      <4> HIDE DEF x, y, spec, words
      <4>4. InForce(merge_current_action(x, spec)) = InForce(WordByWord(x, words))
        BY <4>1, <4>3 DEF Means
      <4>5. /\ InForce(WordByWord(x, words)) = InForce(WordByWord(y, words))
            /\ WordByWord(y, words) \in Currents(V)
        BY <4>1, <4>3, WordsAlike
      <4>6. merge_current_action(x, spec) \in Currents(V)
        BY <4>1, <4>3, MergedTyped DEF Holds
      <4> QED
        BY <4>2, <4>4, <4>5, <4>6
    <3>6. CASE ~Applies(rules[i].pattern, c)
      BY <3>2, <3>3, <3>4, <3>6
    <3>9. Good(i)
      BY <3>5, <3>6
    <3> QED
      BY <2>4, <3>9
  <2> QED
    BY <2>5, <2>6
<1>5. Good(n)
  <2> HIDE DEF Good
  <2> QED
    BY <1>1, <1>4
<1> QED
  BY <1>2, <1>3, <1>5

\* All files.
LEMMA FilesAgree ==
  ASSUME NEW V, Holds(V), NEW c, IsList(c.files), NEW files, IsList(files), Len(files) = Len(c.files),
         \A i \in 1..Len(files) : Compiled(V, c.files[i].sections, Written(files[i])),
         NEW applying, NEW d,
         \A i \in 1..Len(files) : \A j \in 1..Len(Written(files[i])) :
            c.files[i].sections[j] \in applying <=> Applies(Written(files[i])[j].pattern, d)
  PROVE  InForce(Merged(c, NoAction, applying)) = InForce(FileByFile(files, d))
<1> DEFINE n == Len(files)
<1>1. n \in Nat /\ n = Len(c.files)
  BY Listing
<1>2. PICK g : /\ Merged(c, NoAction, applying) = g[n]
               /\ \A i \in 0..n : g[i] = IF i = 0 THEN NoAction
                                         ELSE apply_url_actions(c.files[i].sections, g[i - 1], applying)
  BY <1>1, FilesLoop
<1>3. PICK h : /\ FileByFile(files, d) = h[n]
               /\ \A i \in 0..n : h[i] = IF i = 0 THEN NoAction
                                         ELSE RuleByRule(h[i - 1], Written(files[i]), d)
  BY <1>1, TextsLoop
<1> HIDE DEF n
<1> DEFINE Good(i) == g[i] \in Currents(V) /\ h[i] \in Currents(V) /\ InForce(g[i]) = InForce(h[i])
<1>4. \A i \in 0..n : Good(i)
  <2> DEFINE bad == {i \in 0..n : ~Good(i)}
  <2>1. SUFFICES ASSUME bad # {} PROVE FALSE
    OBVIOUS
  <2>2. bad \subseteq Nat
    BY <1>1
  <2>3. \E i \in bad : \A k \in bad : i <= k
    <3> HIDE DEF bad
    <3> QED
      BY <2>1, <2>2, LeastElement
  <2>4. PICK i \in bad : \A k \in bad : i <= k
    BY <2>3
  <2>5. CASE i = 0
    <3>1. Good(0)
      <4>1. NoAction \in Currents(V)
        BY DEF NoAction, Currents, NoStrings, NoLists, Holds
      <4> QED
        BY <1>1, <1>2, <1>3, <4>1
    <3> QED
      BY <2>4, <2>5, <3>1
  <2>6. CASE i # 0
    <3>1. i \in 1..n /\ i - 1 \in 0..n /\ ~(i <= i - 1)
      BY <2>4, <2>6, <1>1
    <3>2. Good(i - 1)
      BY <2>4, <3>1
    <3>3. /\ g[i] = apply_url_actions(c.files[i].sections, g[i - 1], applying)
          /\ h[i] = RuleByRule(h[i - 1], Written(files[i]), d)
      BY <1>2, <1>3, <2>4, <2>6
    <3>4. /\ Compiled(V, c.files[i].sections, Written(files[i]))
          /\ \A j \in 1..Len(Written(files[i])) :
               c.files[i].sections[j] \in applying <=> Applies(Written(files[i])[j].pattern, d)
      BY <3>1 DEF n
    <3>9. Good(i)
      BY <3>2, <3>3, <3>4, SectionsAgree
    <3> QED
      BY <2>4, <3>9
  <2> QED
    BY <2>5, <2>6
<1>5. Good(n)
  <2> HIDE DEF Good
  <2> QED
    BY <1>1, <1>4
<1> QED
  BY <1>2, <1>3, <1>5

\* There is a set of all the values in the files.
LEMMA DiskValued ==
  ASSUME NEW d \in Disks
  PROVE  \E V : /\ Holds(V)
               /\ \A f \in DOMAIN d.actions : /\ IsList(d.actions[f])
                                              /\ \A i \in DOMAIN d.actions[f] : LineOf(V, d.actions[f][i])
<1> DEFINE Of(line) == {line.words[k].value : k \in DOMAIN line.words}
           In(f) == UNION {Of(d.actions[f][i]) : i \in DOMAIN d.actions[f]}
           V == {NoValue, NoReason} \cup UNION {In(f) : f \in DOMAIN d.actions}
<1>1. Holds(V)
  BY DEF Holds
<1>2. ASSUME NEW f \in DOMAIN d.actions PROVE IsList(d.actions[f])
  BY DisksAssumption DEF IsList
<1>3. ASSUME NEW f \in DOMAIN d.actions, NEW i \in DOMAIN d.actions[f] PROVE LineOf(V, d.actions[f][i])
  <2> DEFINE line == d.actions[f][i]
  <2>1. IsLine(line)
    BY DisksAssumption
  <2>2. Of(line) \subseteq V
    <3>1. Of(line) \subseteq In(f)
      OBVIOUS
    <3>2. In(f) \subseteq V
      <4> HIDE DEF In
      <4> QED
        OBVIOUS
    <3> HIDE DEF Of, In, V
    <3> QED
      BY <3>1, <3>2
  <2> HIDE DEF V, line
  <2>3. line.kind # "heading" => Valued(V, line.words)
    BY <2>1, <2>2 DEF IsLine, Valued, IsList
  <2> QED
    BY <2>1, <2>3 DEF LineOf, line
<1> HIDE DEF V
<1> QED
  BY <1>1, <1>2, <1>3

\* The action in force for a new request is that of its URL.
AsMatched(t) ==
  \E s : /\ Shaped(s) /\ s.files = t.files /\ s.http = t.http /\ s.clientTags = t.clientTags
         /\ t.action = IF "ToggledOn" \in t.flags THEN get_url_actions(s).action ELSE NoAction

LEMMA ReceivedMatched ==
  ASSUME NEW c, Shaped(c), NEW r, receive_client_request(c, r).rsp = NoResponse
  PROVE  AsMatched(receive_client_request(c, r).csp)
<1>1. ASSUME NEW http, IsHttp(http)
      PROVE  AsMatched(Received(c, r, http).csp)
  <2> DEFINE c1 == [c EXCEPT !.http = http, !.body = r.body]
             c2 == ForceNoted(c1, r.line)
             c3 == Matched(c2)
             c4 == [c3 EXCEPT !.head = Listed(r.head, http.cmd)]
  <2>1. Shaped(c1)
    BY <1>1 DEF Shaped, CspFields
  <2> HIDE DEF c1
  <2>2. Shaped(c2)
    BY <2>1, ForceKept DEF Kept
  <2> HIDE DEF c2
  <2>3. \E a : get_url_actions(c2) = [c2 EXCEPT !.action = a]
    BY DEF get_url_actions
  <2>4. /\ Shaped(c3) /\ c3.files = c2.files /\ c3.http = c2.http /\ c3.clientTags = c2.clientTags
        /\ c3.flags = c2.flags
        /\ c3.action = IF "ToggledOn" \in c2.flags THEN get_url_actions(c2).action ELSE NoAction
    <3>1. CASE "ToggledOn" \in c2.flags
      <4>1. c3 = get_url_actions(c2)
        BY <3>1 DEF Matched
      <4> HIDE DEF c3
      <4> QED
        BY <2>2, <2>3, <3>1, <4>1 DEF Shaped, CspFields
    <3>2. CASE "ToggledOn" \notin c2.flags
      <4>1. c3 = [c2 EXCEPT !.action = NoAction]
        BY <3>2 DEF Matched
      <4> HIDE DEF c3
      <4> QED
        BY <2>2, <3>2, <4>1 DEF Shaped, CspFields
    <3> QED
      BY <3>1, <3>2
  <2> HIDE DEF c3
  <2>5. /\ c4.files = c3.files /\ c4.http = c3.http /\ c4.clientTags = c3.clientTags
        /\ c4.flags = c3.flags /\ c4.action = c3.action
    BY <2>4 DEF Shaped, CspFields
  <2>6. Received(c, r, http) = Goes(c4)
    BY DEF Received, c1, c2, c3, c4
  <2> HIDE DEF c4
  <2>7. AsMatched(c4)
    BY <2>2, <2>4, <2>5 DEF AsMatched
  <2> QED
    BY <2>6, <2>7 DEF Goes
<1> DEFINE line == Unforced(c, r.line)
           http == parse_http_request(line)
           host == get_destination_from_headers(http, r.head["Host"])
           a == receive_client_request(c, r)
           elsewhere == http.host = NoHost
           dest == IF elsewhere THEN host ELSE http
<1>2. \/ a = Tells(c, Error(400, "FTP")) \/ a = Tells(c, Error(400, "bad-request"))
      \/ a = Tells(c, Error(400, "missing-destination"))
      \/ http.ok /\ a = Received(c, r, dest)
  BY DEF receive_client_request
<1>3. http.ok => IsHttp(http) /\ IsHttp(host)
  <2> HIDE DEF line
  <2>1. http.ok => IsHttp(http)
    BY RequestParsed
  <2> HIDE DEF http
  <2> QED
    BY <2>1, HostGiven DEF get_destination_from_headers
<1>4. \A what : Tells(c, Error(400, what)).rsp # NoResponse
  BY DEF Tells, Error, Response, NoResponse
<1>5. a.rsp = NoResponse
  OBVIOUS
<1> HIDE DEF a, http, host
<1> QED
  BY <1>1, <1>2, <1>3, <1>4, <1>5 DEF a

RatedByUrl == at = "received" => AsMatched(csp)

LEMMA RatedKept == ASSUME IInv, RatedByUrl, [Next]_vars PROVE RatedByUrl'
<1>1. CASE ReceiveRequest
  <2>1. PICK r \in Requests, tags \in ClientTagSets :
          Does(receive_client_request([csp EXCEPT !.clientTags = tags, !.clientAddress = TRUE], r), "received")
    BY <1>1 DEF ReceiveRequest
  <2> DEFINE c == [csp EXCEPT !.clientTags = tags, !.clientAddress = TRUE]
             a == receive_client_request(c, r)
  <2>2. Shaped(c)
    BY DEF IInv, Shaped, CspFields
  <2>3. csp' = a.csp /\ at' = IF a.rsp = NoResponse THEN "received" ELSE "closed"
    BY <2>1 DEF Does, Ends
  <2> HIDE DEF c
  <2>4. a.rsp = NoResponse => AsMatched(a.csp)
    BY <2>2, ReceivedMatched
  <2> HIDE DEF a
  <2>5. at' = "received" => AsMatched(csp')
    BY <2>3, <2>4
  <2> QED
    BY <2>5 DEF RatedByUrl, AsMatched
<1>2. CASE Next /\ ~ReceiveRequest
  <2>1. at' # "received"
    <3>1. CASE LoadFiles \/ Quiet
      BY <3>1 DEF LoadFiles, Loads, Quiet, Handshake, SkipBody, BodyLost, AskParent, ServerHandshake, Send, SendFails,
         ContinueInner, Ends, AfterBody
    <3>2. CASE ParseRequest \/ Decide \/ ReceiveInner \/ ReadBody \/ Connect
      BY <3>2, ParseRequestFrame, DecideFrame, ReceiveInnerFrame, ReadBodyFrame, ConnectFrame DEF Connecting
    <3>3. CASE Answer \/ NextRequest \/ NextClient
      BY <3>3, AnswerFrame, NextRequestFrame, NextClientFrame
    <3> QED
      BY <1>2, <3>1, <3>2, <3>3 DEF Next, Quiet
  <2> QED
    BY <2>1 DEF RatedByUrl
<1>3. CASE UNCHANGED vars
  BY <1>3 DEF vars, RatedByUrl, AsMatched
<1> QED
  BY <1>1, <1>2, <1>3

\* Patterns that match hosts as they are documented to match URLs so.
LEMMA DescribedApplies ==
  ASSUME NEW c, NEW p, p.kind = "URL" => (host_matches(c.http.host, p) <=> DescribedHost(p, c.http.host))
  PROVE  (url_match(p, c.http) \/ client_tag_match(p, c.clientTags)) <=> Applies(p, c)
  BY DEF url_match, client_tag_match, Applies, Described, port_matches, path_matches, match_portlist

LEMMA MatchedAsWritten ==
  ASSUME IInv, Ruled, RatedByUrl, at = "received", PatternsMatchAsDescribed
  PROVE  ActionsAsWritten
<1> DEFINE names == csp.config.actions_file
           files == [i \in DOMAIN names |-> disk.actions[names[i]]]
           read  == [i \in DOMAIN names |-> load_one_actions_file(files[i])]
           list  == [i \in DOMAIN names |-> [loaded |-> TRUE, sections |-> read[i].sections]]
<1>1. AreLoaded(csp)
  BY RuledLoaded
<1>2. Range(names) \subseteq DOMAIN disk.actions
  BY DEF Ruled, ActionsFiles
<1>3. csp.files = list /\ \A i \in DOMAIN names : read[i].ok
  BY Zenon, <1>2 DEF Ruled, ActionsFiles, load_action_files
<1>4. IsList(files) /\ Len(files) = Len(csp.files) /\ \A i \in 1..Len(files) : i \in DOMAIN names
  <2>1. DOMAIN csp.files = DOMAIN names
    BY Zenon, <1>3
  <2>2. IsList(csp.files) /\ Len(csp.files) \in Nat /\ DOMAIN csp.files = 1..Len(csp.files)
    BY <1>1, Listing DEF AreLoaded
  <2> DEFINE n == Len(csp.files)
  <2>3. files \in [1..n -> {files[i] : i \in 1..n}]
    BY <2>1, <2>2
  <2> HIDE DEF files, n
  <2>4. IsList(files)
    BY <2>2, <2>3, MadeList DEF n
  <2>5. Len(files) = n
    BY <2>2, <2>3, <2>4, Listing DEF n
  <2> QED
    BY <2>1, <2>2, <2>4, <2>5 DEF n
<1>5. \A i \in DOMAIN names : names[i] \in DOMAIN disk.actions
  BY <1>2 DEF Range
<1>6. PICK V : /\ Holds(V)
               /\ \A f \in DOMAIN disk.actions :
                    /\ IsList(disk.actions[f])
                    /\ \A i \in DOMAIN disk.actions[f] : LineOf(V, disk.actions[f][i])
  BY DiskValued DEF Ruled
<1>7. ASSUME NEW i \in DOMAIN names
      PROVE  /\ Compiled(V, csp.files[i].sections, Written(files[i]))
             /\ i \in DOMAIN csp.files
  <2> DEFINE lines == disk.actions[names[i]]
  <2>1. IsList(lines) /\ \A k \in DOMAIN lines : LineOf(V, lines[k])
    BY <1>5, <1>6
  <2>2. load_one_actions_file(lines).ok
    BY Zenon, <1>3
  <2>3. Compiled(V, load_one_actions_file(lines).sections, Written(lines))
    BY <1>6, <2>1, <2>2, FileCompiled
  <2>4. csp.files[i].sections = load_one_actions_file(lines).sections /\ files[i] = lines
    <3>1. files[i] = lines /\ read[i] = load_one_actions_file(files[i]) /\ list[i].sections = read[i].sections
      OBVIOUS
    <3> HIDE DEF files, read, list, lines
    <3> QED
      BY <1>3, <3>1
  <2> HIDE DEF lines, files
  <2> QED
    BY <1>3, <2>3, <2>4
<1> HIDE DEF files, read, list
<1>8. PICK s : /\ Shaped(s) /\ s.files = csp.files /\ s.http = csp.http /\ s.clientTags = csp.clientTags
               /\ csp.action = IF "ToggledOn" \in csp.flags THEN get_url_actions(s).action ELSE NoAction
  BY DEF RatedByUrl, AsMatched
<1> DEFINE applying == {x \in Sections(s) : url_match(x.url, s.http) \/ client_tag_match(x.url, s.clientTags)}
           used == [s EXCEPT !.files = s.files]
<1>9. get_url_actions(s).action = Merged(used, NoAction, applying) /\ used.files = csp.files
  <2>1. {i \in DOMAIN s.files : ~s.files[i].loaded} = {}
    BY <1>1, <1>8 DEF AreLoaded
  <2>2. used.files = s.files
    BY <1>8 DEF Shaped, CspFields
  <2>3. get_url_actions(s) = [s EXCEPT !.action = Merged(used, NoAction, applying)]
    BY <2>1 DEF get_url_actions
  <2> HIDE DEF used, applying
  <2> QED
    BY <1>8, <2>2, <2>3 DEF Shaped, CspFields
<1>10. ASSUME NEW i \in DOMAIN names, NEW j \in 1..Len(Written(files[i]))
       PROVE  csp.files[i].sections[j] \in applying <=> Applies(Written(files[i])[j].pattern, csp)
  <2> DEFINE x == csp.files[i].sections[j]
             p == Written(files[i])[j].pattern
  <2>1. /\ i \in DOMAIN csp.files /\ x.url = p /\ IsList(csp.files[i].sections)
        /\ Len(csp.files[i].sections) = Len(Written(files[i]))
    BY <1>7 DEF Compiled
  <2>2. j \in DOMAIN csp.files[i].sections
    BY <2>1, Listing
  <2>3. x \in Sections(s)
    BY <1>8, <2>1, <2>2 DEF Sections, Range
  <2>4. p.kind = "URL" => (host_matches(csp.http.host, p) <=> DescribedHost(p, csp.http.host))
    BY <2>1, <2>2 DEF PatternsMatchAsDescribed
  <2>5. (url_match(p, csp.http) \/ client_tag_match(p, csp.clientTags)) <=> Applies(p, csp)
    BY <2>4, DescribedApplies
  <2> HIDE DEF x, p
  <2>6. x \in applying <=> Applies(p, csp)
    BY <1>8, <2>1, <2>3, <2>5
  <2> QED
    BY <2>6 DEF x, p
<1> HIDE DEF applying, used
<1>11. InForce(Merged(used, NoAction, applying)) = InForce(FileByFile(files, csp))
  BY <1>1, <1>4, <1>6, <1>7, <1>9, <1>10, FilesAgree DEF AreLoaded
<1> QED
  BY <1>8, <1>9, <1>11 DEF ActionsAsWritten, files

\* What is in force for a request is what the files say word by word, the last word winning,
\* if the patterns in them match hosts as they are documented to (load_one_actions_file(),
\* get_actions(), merge_actions(), get_url_actions()).
THEOREM InForceAsWritten == Spec => [](PatternsMatchAsDescribed => ActionsAsWritten)
<1>1. Init => RatedByUrl
  BY DEF Init, RatedByUrl
<1>2. IInv /\ RatedByUrl /\ [Next]_vars => RatedByUrl'
  BY RatedKept
<1>3. IInv /\ Ruled /\ RatedByUrl => (PatternsMatchAsDescribed => ActionsAsWritten)
  <2>1. CASE at = "received"
    BY <2>1, MatchedAsWritten
  <2>2. CASE at # "received"
    BY <2>2 DEF ActionsAsWritten
  <2> QED
    BY <2>1, <2>2
<1> QED
  BY <1>1, <1>2, <1>3, RequestInvariant, RulesAsLoaded, PTL DEF Spec

=============================================================================
