------------------------------- MODULE Policy -------------------------------
(***************************************************************************)
(* What becomes of a request (filters.c, cgi.c, jcc.c): the crunchers,     *)
(* each of which may answer it, and the forwarder it is sent to.           *)
(*                                                                         *)
(* csp has, beside what ClientHeaders and Actions describe, https (the     *)
(* https_headers), trust (the loaded trust file) and appended, the entries *)
(* written to that file.  A referrer stands for http://host/.              *)
(***************************************************************************)
EXTENDS Actions, ClientHeaders

CONSTANTS
  Rewritten(_, _),  \* what a pcrs command makes of a URL, NoUrl without a hit
  Embedded(_, _),   \* the last URL within a path, decoded or not, NoUrl without one
  CgiHosts,         \* CGI_SITE_1_HOST, CGI_SITE_2_HOST
  CgiPages          \* the paths of cgi_dispatchers: a function to [name, harmless]

NoUrl == [scheme |-> "none", host |-> <<>>, port |-> 0, path |-> ""]
Url(scheme, host, port, path) == [scheme |-> scheme, host |-> host, port |-> port, path |-> path]

NoResponse == [reason |-> "none", status |-> 0, what |-> "nothing"]
Response(reason, status, what) == [reason |-> reason, status |-> status, what |-> what]
Answers(csp, rsp) == [csp |-> csp, rsp |-> rsp]

\* get_header_value(), grep_cgi_referrer(): of the list the request's headers are in.
HeadersAsked(csp) == IF csp.http.client_ssl THEN csp.https ELSE csp.head

-----------------------------------------------------------------------------
(* The crunchers.                                                          *)

\* direct_response() looks at csp->headers.
direct_response(csp) ==
  IF /\ csp.http.method \in {"TRACE", "OPTIONS"}
     /\ "Max-Forwards" \in DOMAIN csp.head /\ csp.head["Max-Forwards"] = 0
  THEN Response("UNSUPPORTED", 501, "error") ELSE NoResponse

connect_port_is_forbidden(csp) ==
  On(csp, "limit-connect") /\ ~match_portlist(Value(csp, "limit-connect"), csp.http.port)

\* A request to load the page anyway can't be made for a CONNECT request.
BlockedPage(csp) ==
  IF Enabled(csp, "enforce-blocks") \/ csp.http.method = "CONNECT" THEN "page" ELSE "page-with-a-way-past-it"

block_url(csp) ==
  LET blocker == Value(csp, "set-image-blocker") IN
  CASE ~On(csp, "block") -> NoResponse
    [] On(csp, "set-image-blocker") /\ On(csp, "handle-as-image") ->
         IF blocker \in {"pattern", "blank"} THEN Response("BLOCKED", 403, blocker)
         ELSE Response("BLOCKED", 302, "image")
    [] On(csp, "handle-as-empty-document") ->
         Response("BLOCKED", IF Enabled(csp, "handle-as-empty-doc-returns-ok") THEN 200 ELSE 403, "empty")
    [] OTHER -> Response("BLOCKED", 403, BlockedPage(csp))

\* is_untrusted_url(): the first entry that matches decides.  A page that a trusted
\* referrer links to becomes trusted, for the requests after the file is loaded again.
PortOf(r) == IF r.port # 0 THEN r.port ELSE IF r.scheme = "https" THEN 443 ELSE 80
TrustedReferrer(csp) ==
  LET h == HeadersAsked(csp) IN
  /\ "Referer" \in DOMAIN h /\ h["Referer"].host # <<>>
  /\ \E p \in csp.trust.referrers :
       url_match(p, [host |-> h["Referer"].host, path |-> "/", port |-> PortOf(h["Referer"])])
trust_url(csp) ==
  LET first == SelectInSeq(csp.trust.entries, LAMBDA e : url_match(e.url, csp.http))
      page  == Response("UNTRUSTED", 403, BlockedPage(csp))
  IN  CASE ~csp.trust.loaded -> Answers(csp, NoResponse)
        [] first # 0 -> Answers(csp, IF csp.trust.entries[first].reject THEN page ELSE NoResponse)
        [] TrustedReferrer(csp) -> Answers([csp EXCEPT !.appended = @ \cup {csp.http.host}], NoResponse)
        [] OTHER -> Answers(csp, page)

rewrite_url(url, command) == Rewritten(command, url)
get_last_url(url, mode) ==
  LET within == Embedded(url.path, mode) IN
  IF within # NoUrl THEN within ELSE IF url.scheme = "path" THEN NoUrl ELSE url

\* The value of +redirect is [command, url]; with a command url is not used.
redirect_url(csp) ==
  LET to        == Value(csp, "redirect")
      requested == IF csp.http.client_ssl THEN Url("https", csp.http.host, csp.http.port, csp.http.path)
                   ELSE csp.http.url
      given == CASE ~On(csp, "redirect") -> NoUrl
                 [] to.command # ""      -> rewrite_url(requested, to.command)
                 [] OTHER                -> to.url
      path  == Url("path", <<>>, 0, csp.http.path)
      new   == IF On(csp, "fast-redirects")
               THEN get_last_url(IF given # NoUrl THEN given ELSE path, Value(csp, "fast-redirects"))
               ELSE given
  IN  IF new = NoUrl \/ new = csp.http.url THEN NoResponse ELSE Response("REDIRECTED", 302, new)

\* Pages that change something are for links of Privoxy's own pages only.
referrer_is_safe(csp) ==
  LET h == HeadersAsked(csp) IN
  /\ "Referer" \in DOMAIN h
  /\ \/ h["Referer"].host \in CgiHosts /\ h["Referer"].port = 0
     \/ /\ "trusted-cgi-referer" \in DOMAIN csp.config.text
        /\ h["Referer"].host = csp.config.text["trusted-cgi-referer"]

dispatch_known_cgi(csp) ==
  LET page == CgiPages[csp.http.path] IN
  IF csp.http.path \notin DOMAIN CgiPages THEN "404"
  ELSE IF page.harmless \/ referrer_is_safe(csp) THEN page.name
  ELSE IF page.name = "toggle" THEN "toggle-unchanged" ELSE "disabled"

\* A request for "*" is for no page, whatever its host.
ForAnotherSite(csp) == csp.http.host \notin CgiHosts \/ csp.http.path = "*"
dispatch_cgi(csp) ==
  IF ForAnotherSite(csp) THEN NoResponse ELSE Response("CGI_CALL", 200, dispatch_known_cgi(csp))

HeedsForce == {"direct_response"}                         \* mutant of IgnoresForce
IgnoresForce  == {"direct_response", "dispatch_cgi"}
CountsAsReject == {"direct_response", "block_url", "trust_url"}

cruncher(csp, name) ==
  CASE name = "direct_response" -> Answers(csp, direct_response(csp))
    [] name = "block_url"       -> Answers(csp, block_url(csp))
    [] name = "trust_url"       -> trust_url(csp)
    [] name = "redirect_url"    -> Answers(csp, redirect_url(csp))
    [] name = "dispatch_cgi"    -> Answers(csp, dispatch_cgi(csp))

Asked(csp, name) == name \in IgnoresForce \/ ("ToggledOn" \in csp.flags /\ "Forced" \notin csp.flags)
Ask(a, name) ==
  IF a.rsp # NoResponse \/ ~Asked(a.csp, name) THEN a
  ELSE LET b == cruncher(a.csp, name)
           f == IF name \in CountsAsReject THEN {"Crunched", "Rejected"} ELSE {"Crunched"}
       IN  IF b.rsp = NoResponse THEN b ELSE [b EXCEPT !.csp.flags = @ \cup f]
crunchers_all(a) ==
  Ask(Ask(Ask(Ask(Ask(a, "direct_response"), "block_url"), "trust_url"), "redirect_url"), "dispatch_cgi")

\* The first answer is sent.  With allow-cgi-request-crunching the CGI pages come last,
\* otherwise first.
crunch_response_triggered(csp) ==
  LET early == IF Enabled(csp, "allow-cgi-request-crunching") THEN NoResponse ELSE dispatch_cgi(csp)
  IN  crunchers_all([Answers(csp, early) EXCEPT !.csp = When(early # NoResponse, Raised(@, "Crunched"), @)])

-----------------------------------------------------------------------------
(* forward_url().  A forwarder is [type, gateway, parent].                 *)

Direct == [type |-> "none", gateway |-> "", parent |-> ""]
Fwd(type, gateway, parent) ==
  [type |-> type, gateway |-> gateway, parent |-> IF parent = "." THEN "" ELSE parent]

\* The words of +forward-override; anything else ends Privoxy.
get_forward_override_settings(words) ==
  CASE words[1] = "forward"           -> Fwd("none", "", words[2])
    [] words[1] = "forward-webserver" -> Fwd("webserver", "", words[2])
    [] words[1] = "forward-socks4"    -> Fwd("socks4", words[2], words[3])
    [] words[1] = "forward-socks4a"   -> Fwd("socks4a", words[2], words[3])
    [] words[1] = "forward-socks5"    -> Fwd("socks5", words[2], words[3])
    [] words[1] = "forward-socks5t"   -> Fwd("socks5t", words[2], words[3])

forward_url(csp) ==
  LET found == SelectInSeq(csp.config.forward, LAMBDA f : url_match(f.url, csp.http))
  IN  IF On(csp, "forward-override") THEN get_forward_override_settings(Value(csp, "forward-override"))
      ELSE IF found = 0 THEN Direct ELSE csp.config.forward[found].fwd
=============================================================================
