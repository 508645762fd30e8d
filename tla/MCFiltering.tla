---------------------------- MODULE MCFiltering ----------------------------
(* TLC instances of Filtering: bodies with every coding the code knows, with  *)
(* and without length, chunked, empty; up to two filters with up to two jobs  *)
(* and two external filters.                                                  *)
EXTENDS Filtering

MCBody(te, ce, n) == [te |-> te, ce |-> ce, edits |-> <<>>, size |-> n, nul |-> FALSE]
Listed(name, v) == IF v = <<>> THEN {} ELSE {name}

\* A head that tells the body's codings.
MCHead(types, b, len, extra) ==
  [n \in {"HTTP"} \cup Listed("Content-Type", types) \cup Listed("Content-Encoding", b.ce)
           \cup Listed("Transfer-Encoding", b.te) \cup extra
           \cup (IF len THEN {"Content-Length"} ELSE {}) |->
     CASE n = "HTTP" -> "1.1"
       [] n = "Content-Type" -> types
       [] n = "Content-Encoding" -> b.ce
       [] n = "Transfer-Encoding" -> b.te
       [] n \in {"Content-Length", "Content-MD5"} -> Bytes(b)
       [] n = "Connection" -> "keep-alive"
       [] n = "Set-Cookie" -> <<"soon", "late">>
       [] OTHER -> "server"]

Response(m, status, types, b, len, extra) ==
  [method |-> m, status |-> status, head |-> MCHead(types, b, len, extra), body |-> b]

Bodies == {MCBody(te, ce, n) : te \in Transfers, ce \in Codings, n \in {1, 2}}
Everything == {"Connection", "Set-Cookie", "Keep-Alive", "Proxy-Connection", "Content-Disposition",
               "Last-Modified", "Proxy-Authenticate", "Content-MD5"}
MCResponses ==
  {Response("GET", 200, <<"TEXT">>, b, len, {}) : b \in Bodies, len \in BOOLEAN}
  \cup {Response("GET", 200, types, b, TRUE, Everything) :
          types \in {<<>>, <<"TEXT", "GIF">>, <<"GIF">>, <<"other">>},
          b \in {MCBody(te, <<>>, 2) : te \in {<<>>, <<"chunked">>}}}
  \cup {Response("GET", 200, <<"TEXT">>, MCBody(te, <<>>, 0), len, {}) :
          te \in {<<>>, <<"chunked">>}, len \in BOOLEAN}
  \cup {Response("HEAD", 200, <<"TEXT">>, MCBody(<<>>, <<>>, 0), FALSE, {}),
        Response("GET", 206, <<"TEXT">>, MCBody(<<>>, <<>>, 1), TRUE, {})}
  \cup {[Response("GET", 200, <<"TEXT">>, MCBody(<<>>, <<>>, 1), TRUE, {})
           EXCEPT !.head["Content-Length"] = MCBody(<<"invalid">>, <<>>, 0)]}

Plain ==
  [filters |-> <<>>, external |-> <<>>, temporaryDirectory |-> TRUE, deanimate |-> FALSE,
   forceText |-> FALSE, overwriteType |-> FALSE, crunch |-> "", downgrade |-> FALSE,
   crunchCookies |-> FALSE, sessionCookies |-> FALSE, limitCookies |-> FALSE,
   disposition |-> "keep", lastModified |-> "keep", forwardAuthentication |-> FALSE]

MCActions ==
  { Plain,
    [Plain EXCEPT !.filters = <<2, 0, 1>>, !.sessionCookies = TRUE, !.disposition = "block"],
    [Plain EXCEPT !.external = <<"cat", "sort">>, !.limitCookies = TRUE, !.lastModified = "replace"],
    [Plain EXCEPT !.filters = <<1>>, !.external = <<"cat">>, !.deanimate = TRUE, !.crunch = "Content-Length"],
    [Plain EXCEPT !.external = <<"cat">>, !.temporaryDirectory = FALSE, !.crunchCookies = TRUE],
    [Plain EXCEPT !.deanimate = TRUE, !.downgrade = TRUE, !.limitCookies = TRUE, !.sessionCookies = TRUE],
    [Plain EXCEPT !.filters = <<1>>, !.forceText = TRUE, !.overwriteType = TRUE,
                  !.forwardAuthentication = TRUE],
    [Plain EXCEPT !.filters = <<1>>, !.crunch = "Transfer-Encoding"] }

MCClientFlags == {{}, {"ClientKeepAlive"}, {"ClientKeepAlive", "ClientDeflate"}, {"Tainted", "ClientDeflate"}}
=============================================================================
