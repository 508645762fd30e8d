------------------------------ MODULE Request ------------------------------
(***************************************************************************)
(* What Privoxy does with a request, from the client's bytes to what it    *)
(* sends and to whom (jcc.c): chat(), and continue_https_chat() for the    *)
(* requests that follow in a TLS connection it inspects.  The rules are    *)
(* those of Actions, the edited headers those of ClientHeaders, the answers *)
(* and forwarders those of Policy, the configuration that of ConfigFile.   *)
(*                                                                         *)
(* A request of a client is [line, head, body]; the head has no "line".    *)
(* A body is [id, size].  csp has, beside the fields of the other modules, *)
(* body, tunnel (use_ssl_tunnel), clientAddress (whether it is set),       *)
(* dontVerify and conn, the server_connection: whether it is open, whether *)
(* with TLS, to which host and port and through which forwarder;           *)
(* rewritten notes for the properties that a filter changed the request    *)
(* line ("Rewrite detected").                                              *)
(***************************************************************************)
EXTENDS ConfigFile

CONSTANTS
  Disks,          \* what is in the files: [config, actions, trust]
  Requests,       \* what clients send
  InnerRequests,  \* what they send once a connection is encrypted
  ClientTagSets,  \* the tags a client may have
  BodyFilter(_, _),
  ForcedPaths     \* the paths with FORCE_PREFIX: a function to those without

\* The shape of requests.
ASSUME RequestAssumption ==
  \A r \in Requests \cup InnerRequests :
    /\ DOMAIN r.line = {"method", "url", "version"}
    /\ DOMAIN r.line.url = {"scheme", "host", "port", "path"}
    /\ IsFiniteSet(DOMAIN r.head)
    /\ "Referer" \in DOMAIN r.head => DOMAIN r.head["Referer"] = {"scheme", "host", "port", "forced"}
\* A file has lines, a line of an actions file words.
ASSUME DisksAssumption ==
  \A d \in Disks :
    /\ d.config \in Seq(Range(d.config))
    /\ \A f \in DOMAIN d.actions : /\ d.actions[f] \in Seq(Range(d.actions[f]))
                                  /\ \A i \in DOMAIN d.actions[f] : IsLine(d.actions[f][i])

VARIABLES
  csp,
  disk,   \* the lines of the configuration, of each actions file and of the trust file
  at,     \* where chat() is
  asked,  \* the request that is worked on, as the client sent it
  wire,   \* what was sent for it to a server or parent proxy
  told    \* what the client got

vars == <<csp, disk, at, asked, wire, told>>

NoConn == [open |-> FALSE, tls |-> FALSE, host |-> NoHost, port |-> 0, fwd |-> Direct]
NoBody == [id |-> "none", size |-> 0]
NoHttp == [ok |-> FALSE, ssl |-> FALSE, client_ssl |-> FALSE, server_ssl |-> FALSE, host |-> NoHost,
           port |-> 0, path |-> "", method |-> "", version |-> "", url |-> NoUrl, cmd |-> "none",
           hostport |-> [host |-> NoHost, port |-> 0]]
NoWire == [tls |-> FALSE, host |-> NoHost, port |-> 0, fwd |-> Direct, head |-> <<>>, body |-> NoBody]
NotAsked == [line |-> "none", head |-> <<>>, body |-> NoBody]

Error(status, what) == Response("ERROR", status, what)

\* A new csp, or prepare_csp_for_next_request().
Fresh(c, toggled) ==
  [c EXCEPT !.head = <<>>, !.https = <<>>, !.http = NoHttp, !.action = NoAction, !.tags = {},
            !.clientTags = {}, !.clientAddress = FALSE, !.expected = 0, !.body = NoBody,
            !.failed = FALSE, !.tunnel = FALSE, !.rewritten = FALSE,
            !.flags = IF toggled THEN {"ToggledOn"} ELSE {}]

Csp ==
  [config |-> Defaults, trust |-> NoTrust, files |-> <<>>, appended |-> {}, conn |-> NoConn,
   head |-> <<>>, https |-> <<>>, http |-> NoHttp, action |-> NoAction, tags |-> {}, clientTags |-> {},
   clientAddress |-> FALSE, expected |-> 0, body |-> NoBody, failed |-> FALSE, flags |-> {},
   keepAliveTimeout |-> 0, tunnel |-> FALSE, dontVerify |-> FALSE, rewritten |-> FALSE]

Init ==
  /\ csp = Csp /\ disk \in Disks
  /\ at = "starting" /\ asked = NotAsked /\ wire = NoWire /\ told = NoResponse

\* A file that isn't there, or can't be loaded, ends Privoxy.
ActionsFiles(config) ==
  IF Range(config.actions_file) \subseteq DOMAIN disk.actions
  THEN load_action_files([i \in DOMAIN config.actions_file |-> disk.actions[config.actions_file[i]]])
  ELSE [ok |-> FALSE, list |-> <<>>]
TrustFile(config) == IF "trustfile" \in DOMAIN config.text THEN load_trustfile(disk.trust) ELSE NoTrust

Loads(config, read, trust) ==
  IF config.ok /\ read.ok /\ trust.ok
  THEN /\ at' = "idle"
       /\ \E toggled \in BOOLEAN :
            csp' = [Fresh(csp, toggled) EXCEPT !.config = config, !.files = read.list, !.trust = trust,
                                               !.keepAliveTimeout = config.number["keep-alive-timeout"]]
  ELSE at' = "exited" /\ UNCHANGED csp
LoadFiles ==
  /\ at = "starting"
  /\ \E config \in {load_config(disk.config)} : Loads(config, ActionsFiles(config), TrustFile(config))
  /\ UNCHANGED <<disk, asked, wire, told>>

\* The outcome of a step of chat(): it goes on, or the client is told why it doesn't.
Goes(c)     == [csp |-> c, rsp |-> NoResponse]
Tells(c, rsp) == [csp |-> c, rsp |-> rsp]

Ends(c, rsp, where) == csp' = c /\ told' = rsp /\ at' = where
Does(a, where) == Ends(a.csp, a.rsp, IF a.rsp = NoResponse THEN where ELSE "closed")
\* The crunchers are asked.  A client that got their answer may send its next request.
Crunch(a, where) == Ends(a.csp, a.rsp, IF a.rsp = NoResponse THEN where ELSE "answered")
Same == UNCHANGED <<disk, asked, wire>>

-----------------------------------------------------------------------------
(* receive_client_request()                                                *)

client_protocol_is_unsupported(r) == r.line.method = "GET" /\ r.line.url.scheme = "ftp"

force_required(c, line) ==
  /\ line.url.path \in DOMAIN ForcedPaths /\ line.url.scheme \in {"http", "path", "none"}
  /\ ~Enabled(c, "enforce-blocks")
Unforced(c, line) == [line EXCEPT !.url.path = IF force_required(c, line) THEN ForcedPaths[@] ELSE @]
ForceNoted(c, line) == When(force_required(c, line), Raised(c, "Forced"), c)

\* get_destination_from_headers(), get_destination_from_https_headers()
WithHost(http, h, port, url) ==
  [http EXCEPT !.host = h.host, !.port = IF h.port # 0 THEN h.port ELSE port, !.url = url,
               !.cmd = [@ EXCEPT !.url = url], !.hostport = h]
get_destination_from_headers(http, h) ==
  WithHost(http, h, 80, Url("http", h.host, h.port, http.path))
get_destination_from_https_headers(http, h) ==
  WithHost(http, h, 443, Url("path", NoHost, 0, http.path))

Listed(head, line) == [n \in DOMAIN head \cup {"line"} |-> IF n = "line" THEN line ELSE head[n]]

Matched(c) == IF "ToggledOn" \in c.flags THEN get_url_actions(c) ELSE [c EXCEPT !.action = NoAction]

NotConnect(http) == http.ssl /\ http.method # "CONNECT"

\* The request has a destination now.
Received(c, r, http) ==
  LET noted == ForceNoted([c EXCEPT !.http = http, !.body = r.body], r.line)
  IN  Goes([Matched(noted) EXCEPT !.head = Listed(r.head, http.cmd)])

receive_client_request(c, r) ==
  LET http == parse_http_request(Unforced(c, r.line))
      \* get_request_destination_elsewhere()
      elsewhere == http.host = NoHost
  IN  CASE client_protocol_is_unsupported(r)   -> Tells(c, Error(400, "FTP"))
        [] ~http.ok \/ NotConnect(http)        -> Tells(c, Error(400, "bad-request"))
        [] elsewhere /\ ~Enabled(c, "accept-intercepted-requests")  -> Tells(c, Error(400, "bad-request"))
        [] elsewhere /\ "Host" \notin DOMAIN r.head -> Tells(c, Error(400, "missing-destination"))
        [] OTHER -> Received(c, r, IF elsewhere THEN get_destination_from_headers(http, r.head["Host"])
                                   ELSE http)

ReceiveRequest ==
  /\ at = "idle"
  /\ \E r \in Requests, tags \in ClientTagSets :
       /\ asked' = r
       /\ Does(receive_client_request([csp EXCEPT !.clientTags = tags, !.clientAddress = TRUE], r), "received")
  /\ UNCHANGED <<disk, wire>>

-----------------------------------------------------------------------------
(* parse_client_request()                                                  *)

sed(c) == EditedHead(check_negative_tag_patterns(scan_headers(c)))

\* A filter may have rewritten the request line.
change_request_destination(c, http) ==
  IF ~http.ok \/ NotConnect(http) THEN Tells(c, Error(400, "messed-up")) 
  ELSE Goes([c EXCEPT !.http = http, !.rewritten = TRUE])

Edited(c) ==
  CASE c.failed                     -> Tells(c, Error(400, "bad-request"))
    [] ~Has(c, "line")              -> Tells(c, Error(400, "messed-up"))
    [] c.head["line"] # c.http.cmd  -> change_request_destination(c, parse_http_request(c.head["line"]))
    [] OTHER                        -> Goes(c)
client_has_unsupported_expectations(a) ==
  IF a.rsp = NoResponse /\ "UnsupportedExpectation" \in a.csp.flags
  THEN Tells(a.csp, Error(417, "expectation-failed")) ELSE a

get_expected_content_length(head) ==
  IF "Content-Length" \in DOMAIN head /\ head["Content-Length"] # -1 THEN head["Content-Length"] ELSE 0

Prepared(c) ==
  LET kept == When(Enabled(c, "keep-alive-timeout") /\ c.http.version = "1.1" /\ ~c.http.ssl, Raised(c, "ClientKeepAlive"), c)
  IN  IF c.http.ssl THEN kept ELSE [kept EXCEPT !.expected = get_expected_content_length(c.head)]

parse_client_request(c) == client_has_unsupported_expectations(Edited(sed(Prepared(c))))

ParseRequest == at = "received" /\ Does(parse_client_request(csp), "parsed") /\ Same

-----------------------------------------------------------------------------
(* Tunnel, inspect or answer.                                              *)

cgi_page_requested(h) == h \in CgiHosts

Inspection(c) ==
  LET tunnel == c.http.ssl /\ ~On(c, "https-inspection") /\ ~cgi_page_requested(c.http.host)
      ours   == c.http.ssl /\ ~tunnel
  IN  [c EXCEPT !.tunnel = tunnel, !.http.client_ssl = ours, !.http.server_ssl = ours,
                !.dontVerify = @ \/ (c.http.ssl /\ On(c, "ignore-certificate-errors"))]

PortChecked(c) ==
  IF c.http.ssl /\ connect_port_is_forbidden(c)
  THEN [c EXCEPT !.action.flags = @ \cup {"block"}, !.http.ssl = FALSE,
                 !.http.client_ssl = FALSE, !.http.server_ssl = FALSE]
  ELSE c

Decided(c) ==
  IF c.http.client_ssl THEN Ends(c, NoResponse, "handshake") ELSE Crunch(crunch_response_triggered(c), "body")
Decide == at = "parsed" /\ Decided(PortChecked(Inspection(csp))) /\ Same

\* create_client_ssl_connection()
Handshake ==
  /\ at = "handshake"
  /\ \E where \in {"encrypted", "closed"} : Ends(csp, told, where)
  /\ Same

-----------------------------------------------------------------------------
(* process_encrypted_request_headers()                                     *)

\* sed_https(): the tags of the CONNECT request are forgotten, its flags are not.
sed_https(c) ==
  LET Swapped(s) == [s EXCEPT !.https = s.head, !.head = c.head]
  IN  Swapped(sed([c EXCEPT !.head = c.https, !.tags = {}]))

\* A line without a host goes to the host it went to anyway.  A request that needs no
\* TLS any more is moved to csp->headers.
NewLine(http) ==
  [method |-> http.method, url |-> Url("path", NoHost, 0, http.path), version |-> http.version]
Moved(c, http, inner) ==
  Goes(IF http.server_ssl THEN [c EXCEPT !.http = http, !.https = inner, !.rewritten = TRUE]
       ELSE [c EXCEPT !.http = http, !.head = inner, !.https = <<>>, !.rewritten = TRUE])
change_encrypted_request_destination(c, http) ==
  LET same  == http.host = NoHost
      moved == [http EXCEPT !.host = IF same THEN c.http.host ELSE @,
                            !.port = IF same THEN c.http.port ELSE @,
                            !.hostport = IF same THEN [host |-> c.http.host, port |-> c.http.port] ELSE @,
                            !.ssl = same \/ @, !.server_ssl = same \/ http.ssl, !.client_ssl = TRUE,
                            !.version = IF On(c, "downgrade-http-version") THEN "1.0" ELSE @]
  IN  IF http.ok THEN Moved(c, moved, [c.https EXCEPT !["line"] = NewLine(moved)])
      ELSE Tells(c, Error(400, "messed-up"))

EditedInner(c) ==
  CASE c.failed                     -> Tells(c, Error(400, "bad-request"))
    [] "line" \notin DOMAIN c.https -> Tells(c, Error(400, "messed-up"))
    [] c.https["line"] # c.http.cmd ->
         change_encrypted_request_destination(c, parse_http_request(c.https["line"]))
    [] OTHER                        -> Goes(c)

\* With the action of the CONNECT request while Privoxy is toggled off.
InnerReceived(c, r, http) ==
  LET dest  == [http EXCEPT !.client_ssl = TRUE, !.server_ssl = TRUE]
      noted == ForceNoted([c EXCEPT !.http = dest, !.body = r.body, !.rewritten = FALSE], r.line)
      rated == IF "ToggledOn" \in c.flags THEN get_url_actions(noted) ELSE noted
  IN  EditedInner(sed_https([rated EXCEPT !.https = Listed(r.head, http.cmd), !.http.ssl = TRUE]))

process_encrypted_request_headers(c, r) ==
  LET http == parse_http_request(Unforced(c, r.line))
  IN  CASE client_protocol_is_unsupported(r) -> Tells(c, Error(400, "FTP"))
        [] ~http.ok \/ "Host" \notin DOMAIN r.head -> Tells(c, Error(400, "bad-request"))
        [] OTHER -> InnerReceived(When(Enabled(c, "keep-alive-timeout"), Raised(c, "ClientKeepAlive"), c), r,
                                  get_destination_from_https_headers(http, r.head["Host"]))

\* The first request is at "encrypted", the following ones, for which continue_https_chat()
\* opens no new connection, at "waiting".
Opened(c) == c.conn.open /\ c.conn.tls

Asks(a, where) ==
  IF a.rsp # NoResponse THEN Ends(a.csp, a.rsp, "closed") ELSE Crunch(crunch_response_triggered(a.csp), where)

ReceiveInner ==
  /\ at \in {"encrypted", "waiting"}
  /\ \E r \in InnerRequests, tags \in ClientTagSets :
       /\ asked' = r
       /\ Asks(process_encrypted_request_headers(
                 [csp EXCEPT !.clientAddress = TRUE, !.clientTags = IF csp.clientAddress THEN @ ELSE tags], r),
               CASE at = "encrypted" -> "body" [] Opened(csp) -> "body-again" [] OTHER -> "closed")
  /\ UNCHANGED <<disk, wire>>

-----------------------------------------------------------------------------
(* The client's body.                                                      *)

BodyWanted(c) ==
  /\ c.expected # 0 /\ c.expected <= c.config.number["buffer-limit"]
  /\ c.action.multi["client-body-filter"] # {} \/ c.action.multi["client-body-tagger"] # {}

AfterBody == IF at = "body" THEN "forward" ELSE "continue"

\* The header is looked for in https_headers if the client uses TLS.
update_client_headers(c, size) ==
  CASE c.http.client_ssl /\ "Content-Length" \in DOMAIN c.https ->
         Goes([c EXCEPT !.https["Content-Length"] = size])
    [] ~c.http.client_ssl /\ Has(c, "Content-Length") -> Goes(Says(c, "Content-Length", size))
    [] OTHER -> Tells(c, Error(0, "nothing"))

execute_client_body_filters(c) ==
  FoldSet(LAMBDA f, body : BodyFilter(f, body), c.body, c.action.multi["client-body-filter"])

Refilled(c, body) ==
  IF body.size = c.expected THEN Goes([c EXCEPT !.body = body, !.expected = 0])
  ELSE update_client_headers([c EXCEPT !.body = body, !.expected = 0], body.size)
BodyFiltered(c) == Refilled(c, execute_client_body_filters(c))

SkipBody == at \in {"body", "body-again"} /\ ~BodyWanted(csp) /\ Ends(csp, told, AfterBody) /\ Same

BodyLost ==
  /\ at \in {"body", "body-again"} /\ BodyWanted(csp)
  /\ Ends(csp, IF at = "body" THEN Error(400, "body") ELSE told, "closed")
  /\ Same

NotAskedAgain(c) == Goes(c)                               \* mutant of TaggersHeeded
TaggersHeeded(c) == crunch_response_triggered(c)

BodyTagged(c) ==
  IF c.action.multi["client-body-tagger"] = {} THEN Goes(c)
  ELSE TaggersHeeded(execute_client_body_taggers(c, c.body))
Filters(a) ==
  IF a.rsp # NoResponse THEN Crunch(a, "answered") ELSE Does(BodyFiltered(a.csp), AfterBody)

\* read_http_request_body(): as many bytes came as were announced.
ReadBody ==
  /\ at \in {"body", "body-again"} /\ BodyWanted(csp) /\ csp.body.size = csp.expected
  /\ Filters(BodyTagged(csp)) /\ Same

-----------------------------------------------------------------------------
(* To a server.                                                            *)

Parent(fwd) == fwd.parent # ""

\* build_request_line(), for the request of csp->headers.
build_request_line(c, fwd) ==
  LET version == IF On(c, "downgrade-http-version") THEN "1.0" ELSE c.http.version
      proxied == Parent(fwd) /\ fwd.type # "webserver"
      line    == [method  |-> IF proxied /\ c.http.client_ssl THEN "CONNECT" ELSE c.http.method,
                  url     |-> CASE proxied /\ c.http.client_ssl -> Url("none", c.http.host, c.http.port, "")
                                [] proxied -> c.http.url
                                [] OTHER   -> Url("path", NoHost, 0, c.http.path),
                  version |-> version]
  IN  Says([c EXCEPT !.http.version = version], "line", line)

\* Mutant of connection_destination_matches.
HostNotCompared(conn, http, fwd) == conn.port = http.port /\ conn.fwd = fwd
connection_destination_matches(conn, http, fwd) ==
  conn.host = http.host /\ conn.port = http.port /\ conn.fwd = fwd

Connected(c, fwd, tls) ==
  [c EXCEPT !.conn = [open |-> TRUE, tls |-> tls, host |-> c.http.host, port |-> c.http.port, fwd |-> fwd]]
Inspects(c) == c.http.ssl /\ ~c.tunnel

Connects(c, fwd) ==
  \/ Ends(Connected(c, fwd, FALSE), told,
          CASE Inspects(c) /\ Parent(fwd) -> "ask-parent"
            [] Inspects(c) /\ ~Parent(fwd) -> "server-handshake"
            [] OTHER -> "send")
  \/ Ends([c EXCEPT !.conn = NoConn], Error(503, "connect-failed"), "closed")
Reaches(c, fwd) ==
  IF c.conn.open /\ connection_destination_matches(c.conn, c.http, fwd) THEN Ends(c, told, "send")
  ELSE Connects(c, fwd)

Connect ==
  /\ at = "forward"
  /\ \E fwd \in {forward_url(csp)} : Reaches(build_request_line(csp, fwd), fwd)
  /\ Same

\* The parent proxy is sent the CONNECT request that is in csp->headers.
AskParent ==
  /\ at = "ask-parent"
  /\ \/ Ends([csp EXCEPT !.head = <<>>], told, "server-handshake")
     \/ Ends([csp EXCEPT !.head = <<>>], Error(503, "connect-failed"), "closed")
  /\ Same

\* create_server_ssl_connection(): an invalid certificate is shown to the client unless it
\* needn't be verified.
ServerHandshake ==
  /\ at = "server-handshake"
  /\ \E certificate \in {"valid", "invalid", "none"} :
       CASE certificate = "none" -> Ends(csp, Error(503, "connect-failed"), "closed")
         [] certificate = "invalid" /\ ~csp.dontVerify -> Ends(csp, Error(403, "certificate"), "closed")
         [] OTHER -> Ends([csp EXCEPT !.conn.tls = TRUE], told, "send")
  /\ Same

Sends(c, head) ==
  wire' = [tls |-> c.conn.tls, host |-> c.conn.host, port |-> c.conn.port, fwd |-> c.conn.fwd,
           head |-> head, body |-> c.body]

\* What is left of csp->headers is what was sent without TLS.  The bytes of a tunnel are
\* not looked at.
Send ==
  /\ at = "send" /\ at' = "sent"
  /\ IF Inspects(csp) THEN Sends(csp, csp.https) /\ csp' = [csp EXCEPT !.head = <<>>]
     ELSE IF csp.http.ssl /\ ~Parent(csp.conn.fwd)
     THEN Sends(csp, <<>>) /\ csp' = [csp EXCEPT !.head = <<>>]
     ELSE Sends(csp, csp.head) /\ csp' = csp
  /\ UNCHANGED <<disk, asked, told>>

SendFails == at = "send" /\ Ends(csp, Error(503, "connect-failed"), "closed") /\ Same

\* continue_https_chat(): the connection stays the one of the first request.
ContinueInner ==
  /\ at = "continue"
  /\ IF connection_destination_matches(csp.conn, csp.http, forward_url(csp))
     THEN at' = "sent" /\ Sends(csp, csp.https) /\ UNCHANGED <<csp, told>>
     ELSE at' = "closed" /\ UNCHANGED <<csp, wire, told>>
  /\ UNCHANGED <<disk, asked>>

Answer ==
  /\ at = "sent" /\ at' = "answered"
  /\ told' = Response("SERVER", 200, "answer")
  /\ \E conn \in {csp.conn, NoConn} : csp' = [csp EXCEPT !.conn = conn, !.dontVerify = FALSE]
  /\ UNCHANGED <<disk, asked, wire>>

\* serve(): client_use_ssl() tells the two kinds of requests apart.  The toggle is looked
\* at again.
NextRequest ==
  /\ at = "answered" /\ "ClientKeepAlive" \in csp.flags
  /\ told.reason = "SERVER" => ~csp.tunnel /\ (csp.http.client_ssl => csp.conn.open)
  /\ at' = IF csp.http.client_ssl THEN "waiting" ELSE "idle"
  /\ \E toggled \in BOOLEAN :
       csp' = [Fresh(csp, toggled) EXCEPT !.http.client_ssl = csp.http.client_ssl]
  /\ asked' = NotAsked /\ wire' = NoWire /\ told' = NoResponse
  /\ UNCHANGED disk

\* The connection ends, another client's begins.
NextClient ==
  /\ at \in {"answered", "closed"} /\ at' = "idle"
  /\ \E toggled \in BOOLEAN :
       csp' = [Fresh(csp, toggled) EXCEPT !.conn = NoConn, !.dontVerify = FALSE]
  /\ asked' = NotAsked /\ wire' = NoWire /\ told' = NoResponse
  /\ UNCHANGED disk

Next ==
  \/ LoadFiles \/ ReceiveRequest \/ ParseRequest \/ Decide \/ Handshake \/ ReceiveInner
  \/ SkipBody \/ BodyLost \/ ReadBody
  \/ Connect \/ AskParent \/ ServerHandshake \/ Send \/ SendFails \/ ContinueInner
  \/ Answer \/ NextRequest \/ NextClient

Spec == Init /\ [][Next]_vars

-----------------------------------------------------------------------------
(* Properties.                                                             *)

\* A pattern as it is documented: an unanchored side may lie within the name.
DescribedHost(p, h) ==
  \/ p.labels = <<>>
  \/ \E i \in 1..(Len(h) - Len(p.labels) + 1) :
       /\ p.left \/ i = 1
       /\ p.right \/ i + Len(p.labels) - 1 = Len(h)
       /\ \A n \in DOMAIN p.labels : Glob(p.labels[n], h[i + n - 1])
Described(p, http) ==
  /\ p.kind = "URL"
  /\ p.ports = NoPorts \/ \E i \in p.ports : i.min <= http.port /\ http.port <= i.max
  /\ DescribedHost(p, http.host)
  /\ p.paths = AnyPath \/ http.path \in p.paths

\* What is written in a file: the words of every pattern, with those of the aliases.  The
\* name of an action is no alias.
Spelling(w, aliases) == IF w.name \in DOMAIN aliases \ Names THEN aliases[w.name] ELSE <<w>>
Spelled(words, aliases) ==
  LET Upto[n \in 0..Len(words)] == IF n = 0 THEN <<>> ELSE Upto[n - 1] \o Spelling(words[n], aliases)
  IN  Upto[Len(words)]
OneLine(f, line) ==
  CASE line.kind = "heading" -> [f EXCEPT !.part = line.name]
    [] line.kind = "section" -> [f EXCEPT !.part = "actions", !.words = Spelled(line.words, f.aliases)]
    [] line.kind = "text" /\ f.part = "alias" ->
         [f EXCEPT !.aliases = NewAlias(@, line.name, Spelled(line.words, f.aliases))]
    [] line.kind = "text" /\ f.part = "actions" ->
         [f EXCEPT !.rules = Append(@, [pattern |-> line.pattern, words |-> f.words])]
    [] OTHER -> f
Blank == [part |-> "start", aliases |-> <<>>, words |-> <<>>, rules |-> <<>>]
Written(file) ==
  LET Upto[n \in 0..Len(file)] == IF n = 0 THEN Blank ELSE OneLine(Upto[n - 1], file[n])
  IN  Upto[Len(file)].rules

\* What the rules for a request make of what is in force, a, one after the other.
Applies(p, c) == Described(p, c.http) \/ (p.kind = "CLIENT-TAG" /\ p.tags \cap c.clientTags # {})
OneRule(a, rule, c) == IF Applies(rule.pattern, c) THEN WordByWord(a, rule.words) ELSE a
RuleByRule(a, rules, c) ==
  LET After[n \in 0..Len(rules)] == IF n = 0 THEN a ELSE OneRule(After[n - 1], rules[n], c)
  IN  After[Len(rules)]
FileByFile(files, c) ==
  LET After[n \in 0..Len(files)] ==
        IF n = 0 THEN NoAction ELSE RuleByRule(After[n - 1], Written(files[n]), c)
  IN  After[Len(files)]

\* Aliases, masks and removal lists are only a way to compute it: what is in force for a
\* request is what the words of the sections that match its URL or the client's tags
\* say, one after the other, the last one winning, with the patterns as documented; and
\* nothing is while Privoxy is toggled off.
ActionsAsWritten ==
  at = "received" =>
    LET names == csp.config.actions_file
        files == [i \in DOMAIN names |-> disk.actions[names[i]]]
    IN  InForce(csp.action) = InForce(IF "ToggledOn" \in csp.flags THEN FileByFile(files, csp) ELSE NoAction)

\* A request is not sent to a server while the action in force for it blocks it, whether
\* its URL, a tag made of a header or a tag made of its body did so, be it sent in the
\* clear or on an inspected connection, unless Privoxy was toggled off or the client
\* asked to load the page anyway.
Heeded(c) == "ToggledOn" \in c.flags /\ "Forced" \notin c.flags
BlockedNotFetched == at = "sent" /\ Heeded(csp) => ~On(csp, "block")

SocksTypes == [d \in {"forward-socks4", "forward-socks4a", "forward-socks5", "forward-socks5t"} |->
                 CASE d = "forward-socks4"  -> "socks4"
                   [] d = "forward-socks4a" -> "socks4a"
                   [] d = "forward-socks5"  -> "socks5"
                   [] OTHER                 -> "socks5t"]

\* The forwarder that a directive of the configuration file names.
IsForward(d) == d.cmd \in {"forward"} \cup DOMAIN SocksTypes
Complete(d)  == Len(d.args) = IF d.cmd = "forward" THEN 2 ELSE 3
Said(d) ==
  IF d.cmd = "forward" THEN Fwd("none", "", d.args[2])
  ELSE Fwd(SocksTypes[d.cmd], IF d.cmd = "forward-socks4" /\ d.args[2] = "." THEN "" ELSE d.args[2], d.args[3])

\* The forwarder that is used is that of the last directive of the configuration file that
\* matches the destination, if no action names another one; a directive without a pattern
\* or with a word too many or too few counts for nothing.
ForwardedByLastRule ==
  at = "sent" /\ ~On(csp, "forward-override") =>
    LET lines    == disk.config
        matching == {i \in DOMAIN lines : IsForward(lines[i]) /\ Complete(lines[i])
                                          /\ Described(lines[i].args[1], csp.http)}
    IN  wire.fwd = IF matching = {} THEN Direct ELSE Said(lines[Max(matching)])

\* Unless a filter rewrote its request line, a request is sent to the host and port its
\* client named: in the URL or, without a host there or within an inspected connection,
\* in the Host header, whatever the connection was opened for.  Nothing is encrypted that
\* came in the clear.
SentWhereAsked ==
  at = "sent" /\ ~csp.rewritten =>
    LET inner  == csp.http.client_ssl
        url    == asked.line.url
        inHost == inner \/ url.scheme \in {"path", "*"}
        named  == IF inHost THEN asked.head["Host"] ELSE url
        secure == inner \/ (asked.line.method = "CONNECT" /\ ~inHost)
    IN  /\ wire.host = named.host
        /\ wire.port = IF named.port # 0 THEN named.port ELSE IF secure THEN 443 ELSE 80
        /\ wire.tls => inner

\* Requests for the pages of Privoxy itself stay inside, toggled off, forced, blocked or
\* in a tunnel as they may be.  A request for "*" is for no page and is sent on.
CgiStaysInside == at = "sent" => wire.host \notin CgiHosts \/ csp.http.path = "*"

\* A tag of the request blocks it if a section says so, unless a section for tags takes
\* blocks back.
TagsHeeded ==
  LET ForTags == {s \in Sections(csp) : s.url.kind \in {"TAG", "NO-REQUEST-TAG"}}
  IN  Heeded(csp) /\ (\A s \in ForTags : "block" \in s.action.mask \cup s.action.add) =>
        \A s \in ForTags : s.url.kind = "TAG" /\ s.url.tags \cap csp.tags # {} => "block" \notin s.action.add

\* A referrer of the host and port of a request, or one that looks like it: it begins with
\* them, or does so after one more character, or a very short name is within "https".
Alike(r, hostport) ==
  \/ r.host = hostport.host /\ r.port = hostport.port
  \/ \E i \in {0, 1} : Stands(HostText(hostport), HostText(r), i)
  \/ \E i \in 0..4 : Stands(HostText(hostport), Protocol(r.scheme), i)

\* No cookie if they are crunched, and no referrer of another host but a lookalike if those
\* are to be hidden, but for what the user adds or makes of headers.  A tag that is made of
\* a body comes too late for that.
DecidedHead(c, head) ==
  LET Left(name) == name \in DOMAIN head /\ name \notin c.action.multi["add-header"]
  IN  c.action.multi["client-header-filter"] = {} =>
        /\ On(c, "crunch-outgoing-cookies") => ~Left("Cookie")
        /\ /\ On(c, "hide-referrer") /\ Left("Referer")
           /\ Value(c, "hide-referrer") \in {"conditional-block", "conditional-forge"}
           => Alike(head["Referer"], c.http.hostport)
HeadersAsDecided == asked.body = NoBody => DecidedHead(csp, wire.head)

\* What leaves Privoxy agrees with what was decided: a tag's block, and the headers that
\* the action in force wants to be without, unless a filter changed the destination.
SentAsDecided ==
  at = "sent" => TagsHeeded /\ (~csp.rewritten => HeadersAsDecided)

-----------------------------------------------------------------------------
(* What is not so.                                                         *)

\* simplematch(): "with a (greedy) '*' wildcard that stands for zero or more arbitrary
\* characters".
PatternsMatchAsDescribed ==
  at = "received" =>
    \A i \in DOMAIN csp.files : \A j \in DOMAIN csp.files[i].sections :
      LET p == csp.files[i].sections[j].url
      IN  p.kind = "URL" => (host_matches(csp.http.host, p) <=> DescribedHost(p, csp.http.host))

\* +change-x-forwarded-for{add}: "the IP address of the client is added to the header".
ForwardedForAdded ==
  /\ at = "sent" /\ csp.http.client_ssl /\ asked.body = NoBody
  /\ On(csp, "change-x-forwarded-for") /\ Value(csp, "change-x-forwarded-for") = "add"
  => "X-Forwarded-For" \in DOMAIN wire.head
=============================================================================
