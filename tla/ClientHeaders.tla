--------------------------- MODULE ClientHeaders ---------------------------
(***************************************************************************)
(* Editing the head of a request (parsers.c): sed() with client_patterns   *)
(* and add_client_headers.  The taggers that run before are in Actions.    *)
(*                                                                         *)
(* csp has, beside head and flags, http (the request), action (what is in  *)
(* force), config, expected (expected_client_content_length), failed and    *)
(* keepAliveTimeout.                                                       *)
(* csp.head["line"] is the request line.  A host's header says             *)
(* [host, port], a referrer [scheme, host, port, forced]; X-Forwarded-For a *)
(* sequence of addresses.  Where only "is there a known value?" matters, "bad" is the  *)
(* value that can't be read.                                               *)
(***************************************************************************)
EXTENDS Head, UrlMatch

CONSTANTS
  Client,                \* csp->ip_addr_str
  HeaderFilter(_, _, _)  \* a client-header filter, the name and the value of a header:
                         \* {the new value}, or {} when nothing is left

On(csp, action)    == action \in csp.action.flags
Value(csp, action) == csp.action.string[action]
Enabled(csp, d)    == d \in csp.config.on
Lowered(csp, flag) == [csp EXCEPT !.flags = @ \ {flag}]

-----------------------------------------------------------------------------
(* The handlers.  Each is called with its header present.                  *)

NeverForged(csp, mode) == FALSE                           \* mutant of Elsewhere
\* Whether s is in t behind the first i characters.
Stands(s, t, i) == i + Len(s) <= Len(t) /\ SubSeq(t, i + 1, i + Len(s)) = s
Protocol(scheme) == IF scheme = "http" THEN <<"h", "t", "t", "p">> ELSE <<"h", "t", "t", "p", "s">>

\* strstr() of hostport in the referrer from "http" on.  The referrer is cut so that
\* hostport can begin at its host and, as "http" is shorter than "https", at the second
\* character of an http referrer's host; or it is a piece of the protocol's name.
Mentions(r, hostport) ==
  LET name  == HostText(hostport)
      spare == IF r.scheme = "http" THEN 1 ELSE 0
  IN  /\ r.scheme \in {"http", "https"}
      /\ \/ \E i \in 0..spare : Stands(name, HostText(r), i)
         \/ \E i \in 0..4 : Stands(name, Protocol(r.scheme), i)

\* handle_conditional_hide_referrer_parameter(): the referrer is another host's.
Elsewhere(csp, mode) ==
  Value(csp, "hide-referrer") = mode /\ ~Mentions(csp.head["Referer"], csp.http.hostport)

Referrer(to) == [scheme |-> "http", host |-> to.host, port |-> to.port, forced |-> FALSE]
Cleaned(csp) == Says(csp, "Referer", [csp.head["Referer"] EXCEPT !.forced = FALSE])
Forged(csp, to) == Says(csp, "Referer", Referrer(to))
Called(name) == [host |-> <<<<name>>>>, port |-> 0]

client_referrer(csp) ==
  LET mode == Value(csp, "hide-referrer")
  IN  IF ~On(csp, "hide-referrer") THEN Cleaned(csp)
      ELSE CASE mode = "block" \/ Elsewhere(csp, "conditional-block") -> Crunched(csp, "Referer")
             [] mode = "forge" \/ Elsewhere(csp, "conditional-forge") -> Forged(csp, csp.http.hostport)
             [] mode \in {"conditional-block", "conditional-forge"} /\ ~Elsewhere(csp, mode) -> Cleaned(csp)
             [] OTHER -> Forged(csp, Called(mode))

\* client_from(), client_accept_language()
Replaced(csp, name, action) ==
  IF ~On(csp, action) THEN csp
  ELSE IF Value(csp, action) = "block" THEN Crunched(csp, name)
  ELSE Says(csp, name, Value(csp, action))

client_uagent(csp) ==
  When(On(csp, "hide-user-agent"), Says(csp, "User-Agent", Value(csp, "hide-user-agent")), csp)
client_ua(csp)          == When(On(csp, "hide-user-agent"), Crunched(csp, "UA-OS"), csp)
client_send_cookie(csp) == When(On(csp, "crunch-outgoing-cookies"), Crunched(csp, "Cookie"), csp)
client_te(csp)          == When(On(csp, "prevent-compression"), Crunched(csp, "TE"), csp)
client_if_none_match(csp) ==
  When(On(csp, "crunch-if-none-match"), Crunched(csp, "If-None-Match"), csp)
client_accept_encoding(csp) ==
  LET noted == When(Enabled(csp, "enable-compression"), Raised(csp, "ClientSupportsDeflate"), csp)
  IN  When(On(csp, "prevent-compression"), Crunched(noted, "Accept-Encoding"), noted)

client_x_forwarded(csp) ==
  LET mode == Value(csp, "change-x-forwarded-for") IN
  CASE ~On(csp, "change-x-forwarded-for") -> csp
    [] mode = "block" -> Crunched(csp, "X-Forwarded-For")
    [] mode = "add"   -> Raised(Says(csp, "X-Forwarded-For", Append(csp.head["X-Forwarded-For"], Client)),
                                "XForwardedForAppended")
    [] OTHER -> csp

\* A request that has no destination yet takes it from here.
client_host(csp) ==
  LET h    == csp.head["Host"]
      port == IF h.port # 0 THEN h.port ELSE IF csp.http.ssl THEN 443 ELSE 80
  IN  IF h.host = <<>> THEN Crunched(csp, "Host")
      ELSE Raised(When(csp.http.host = <<>>, [csp EXCEPT !.http.host = h.host, !.http.port = port,
                                                                     !.http.hostport = h], csp),
                  "HostHeaderSet")

\* "1955" is the date some clients use to force a reload.
client_if_modified_since(csp) ==
  LET date == csp.head["If-Modified-Since"] IN
  CASE date = "1955" -> Crunched(csp, "If-Modified-Since")
    [] ~On(csp, "hide-if-modified-since") -> csp
    [] Value(csp, "hide-if-modified-since") = "block" \/ date = "bad" -> Crunched(csp, "If-Modified-Since")
    [] OTHER -> Says(csp, "If-Modified-Since", "random")

client_save_content_length(csp) ==
  LET n == csp.head["Content-Length"]
  IN  IF n = -1 THEN Crunched(csp, "Content-Length") ELSE [csp EXCEPT !.expected = n]

client_keep_alive(csp) ==
  LET n == csp.head["Keep-Alive"]
  IN  IF Enabled(csp, "keep-alive-timeout") /\ 0 <= n /\ n < csp.config.number["keep-alive-timeout"] THEN [csp EXCEPT !.keepAliveTimeout = n]
      ELSE Crunched(csp, "Keep-Alive")

client_proxy_connection(csp) ==
  Crunched(When(csp.head["Proxy-Connection"] # "close" /\ ~csp.http.ssl,
                Raised(csp, "ClientKeepAlive"), csp), "Proxy-Connection")

client_connection(csp) ==
  LET tainted == "Tainted" \in csp.flags
      edited  ==
        IF csp.head["Connection"] = "close"
        THEN IF Enabled(csp, "connection-sharing") /\ ~tainted /\ ~csp.http.client_ssl
             THEN IF csp.http.version = "1.1"
                  THEN Lowered(Crunched(csp, "Connection"), "ClientKeepAlive")
                  ELSE Says(csp, "Connection", "keep-alive")
             ELSE Lowered(csp, "ClientKeepAlive")
        ELSE IF Enabled(csp, "keep-alive-timeout") /\ ~tainted THEN Raised(csp, "ClientKeepAlive")
        ELSE Says(csp, "Connection", "close")
  IN  Raised(edited, "ConnectionHeaderSet")

client_max_forwards(csp) ==
  LET n == csp.head["Max-Forwards"] IN
  IF csp.http.method \notin {"TRACE", "OPTIONS"} \/ n = 0 THEN csp
  ELSE IF n > 0 THEN Says(csp, "Max-Forwards", n - 1) ELSE Crunched(csp, "Max-Forwards")

\* content_filters_enabled()
ContentFilters(csp) ==
  \/ On(csp, "deanimate-gifs") \/ csp.action.multi["filter"] # {}
  \/ csp.action.multi["external-filter"] # {}
client_range(csp, name) ==
  When(ContentFilters(csp) /\ csp.head[name] # "from-the-start", Crunched(csp, name), csp)

client_x_filter(csp) ==
  IF csp.head["X-Filter"] # "No" \/ ~Enabled(csp, "enable-remote-http-toggle") THEN csp
  ELSE Crunched(When(On(csp, "force-text-mode"), csp, Raised(csp, "NoFiltering")), "X-Filter")

proxy_authentication(csp) ==
  When(Enabled(csp, "enable-proxy-authentication-forwarding"), csp, Crunched(csp, "Proxy-Authorization"))

client_expect(csp) ==
  When(csp.head["Expect"] # "100-continue", Raised(csp, "UnsupportedExpectation"), csp)

client_patterns ==
  <<"Referer", "User-Agent", "UA-OS", "From", "Cookie", "X-Forwarded-For", "Accept-Encoding", "TE",
    "Host", "If-Modified-Since", "Content-Length", "Keep-Alive", "Proxy-Connection", "Connection",
    "Max-Forwards", "Accept-Language", "If-None-Match", "Range", "Request-Range", "If-Range",
    "X-Filter", "Proxy-Authorization", "Expect">>

parser(csp, name) ==
  CASE name = "Referer"             -> client_referrer(csp)
    [] name = "User-Agent"          -> client_uagent(csp)
    [] name = "UA-OS"               -> client_ua(csp)
    [] name = "From"                -> Replaced(csp, name, "hide-from-header")
    [] name = "Cookie"              -> client_send_cookie(csp)
    [] name = "X-Forwarded-For"     -> client_x_forwarded(csp)
    [] name = "Accept-Encoding"     -> client_accept_encoding(csp)
    [] name = "TE"                  -> client_te(csp)
    [] name = "Host"                -> client_host(csp)
    [] name = "If-Modified-Since"   -> client_if_modified_since(csp)
    [] name = "Content-Length"      -> client_save_content_length(csp)
    [] name = "Keep-Alive"          -> client_keep_alive(csp)
    [] name = "Proxy-Connection"    -> client_proxy_connection(csp)
    [] name = "Connection"          -> client_connection(csp)
    [] name = "Max-Forwards"        -> client_max_forwards(csp)
    [] name = "Accept-Language"     -> Replaced(csp, name, "hide-accept-language")
    [] name = "If-None-Match"       -> client_if_none_match(csp)
    [] name = "X-Filter"            -> client_x_filter(csp)
    [] name = "Proxy-Authorization" -> proxy_authentication(csp)
    [] name = "Expect"              -> client_expect(csp)
    [] OTHER                        -> client_range(csp, name)

Parsed(s, name) == When(Has(s, name), parser(s, name), s)
Handled(csp) ==
  LET After[n \in 0..Len(client_patterns)] ==
        IF n = 0 THEN csp ELSE Parsed(After[n - 1], client_patterns[n])
  IN  After[Len(client_patterns)]

\* The two handlers of every header, the request line among them.
crunch_client_header(csp) ==
  When(On(csp, "crunch-client-header"), Crunched(csp, Value(csp, "crunch-client-header")), csp)

Filtered(head, f) ==
  LET says == [n \in DOMAIN head |-> HeaderFilter(f, n, head[n])]
      left == {n \in DOMAIN head : says[n] # {}}
  IN  [n \in left |-> CHOOSE v \in says[n] : TRUE]
filter_header(csp) ==
  When("NoFiltering" \in csp.flags, csp,
       [csp EXCEPT !.head = FoldSet(LAMBDA f, h : Filtered(h, f), @, csp.action.multi["client-header-filter"])])

-----------------------------------------------------------------------------
(* What is added.                                                          *)

client_host_adder(csp) ==
  CASE "HostHeaderSet" \in csp.flags -> csp
    [] csp.http.host = <<>>          -> [csp EXCEPT !.failed = TRUE]
    [] OTHER -> Says(csp, "Host", [host |-> csp.http.host, port |-> csp.http.port])

client_x_forwarded_for_adder(csp) ==
  When(/\ On(csp, "change-x-forwarded-for") /\ Value(csp, "change-x-forwarded-for") = "add"
       /\ "XForwardedForAppended" \notin csp.flags,
       Says(csp, "X-Forwarded-For", <<Client>>), csp)

\* What is added is a header, never a request line.
client_xtra_adder(csp) ==
  LET added == csp.action.multi["add-header"] \ {"line"}
  IN  [csp EXCEPT !.head = [n \in DOMAIN @ \cup added |-> IF n \in added THEN "added" ELSE @[n]]]

client_connection_header_adder(csp) ==
  IF "ConnectionHeaderSet" \in csp.flags \/ csp.http.ssl THEN csp
  ELSE When(Enabled(csp, "keep-alive-timeout") /\ "Tainted" \notin csp.flags /\ csp.http.version = "1.1",
            Raised(csp, "ClientKeepAlive"), Says(csp, "Connection", "close"))

add_client_headers(csp) ==
  IF csp.failed THEN csp
  ELSE client_connection_header_adder(client_xtra_adder(client_x_forwarded_for_adder(csp)))

\* The handlers of sed(), then the adders.
EditedHead(csp) ==
  add_client_headers(client_host_adder(filter_header(crunch_client_header(Handled(csp)))))
=============================================================================
