------------------------------ MODULE UrlMatch ------------------------------
(***************************************************************************)
(* URLs, request lines and the patterns they are compared with             *)
(* (urlmatch.c).  A host is a sequence of labels, a label a sequence of    *)
(* characters; a pattern's label is a sequence of characters, Star,         *)
(* AnyChar and classes.  What a regular expression matches is a set.       *)
(***************************************************************************)
EXTENDS Integers, SequencesExt

-----------------------------------------------------------------------------
(* simplematch()                                                           *)

Token(kind, chars) == [kind |-> kind, chars |-> chars]
Star     == Token("*", {})
AnyChar  == Token("?", {})
Char(c)  == Token("char", {c})
Class(S) == Token("class", S)

Hits(token, c) == token.kind = "?" \/ c \in token.chars

\* The loop: pat and txt are its pointers, back is "fallback".  Behind the text one '*' is
\* cut off.
simplematch(p, t) ==
  LET In == 1..(Len(p) + 1)
      MatchFrom[pat \in In, txt \in 1..(Len(t) + 1), back \in In, wild \in BOOLEAN] ==
        LET ended == pat > Len(p)
            here  == IF ended THEN back ELSE pat
            star  == p[here] = Star
            next  == IF star THEN here + 1 ELSE here
            start == IF star THEN next ELSE back
        IN  IF txt > Len(t)
            THEN (IF ~ended /\ p[pat] = Star THEN pat + 1 ELSE pat) > Len(p)
            ELSE IF ended /\ ~wild THEN FALSE
            ELSE IF next > Len(p) THEN TRUE
            ELSE IF Hits(p[next], t[txt]) THEN MatchFrom[next + 1, txt + 1, start, wild \/ star]
            ELSE IF ~(wild \/ star) THEN FALSE
            ELSE IF next # start /\ p[next].kind # "class"      \* rewind, and look at t[txt] again
                 THEN MatchFrom[start, txt, start, TRUE]
            ELSE MatchFrom[start, txt + 1, start, TRUE]
  IN  MatchFrom[1, 1, 1, FALSE]

-----------------------------------------------------------------------------
(* Patterns.  left and right: the pattern begins or ends with a dot and is *)
(* unanchored on that side.  ports is a set of items [min, max]; NoPorts   *)
(* stands for a pattern without a port list.                               *)

NoPorts == {}
Port(n)       == [min |-> n, max |-> n]
Ports(n, max) == [min |-> n, max |-> IF max = 0 THEN 65535 ELSE max]

match_portlist(ports, port) == \E i \in ports : i.min <= port /\ port <= i.max

\* Whether length labels of h from position i on match the labels of a pattern.
MatchesAt(labels, h, i) == \A n \in DOMAIN labels : simplematch(labels[n], h[i + n - 1])

Windows(labels, h)      == 1..(Len(h) - Len(labels) + 1)

domain_match(p, h) ==
  /\ Len(h) >= Len(p.labels)
  /\ CASE p.left /\ ~p.right  -> MatchesAt(p.labels, h, Len(h) - Len(p.labels) + 1)
       [] ~p.left /\ ~p.right -> Len(h) = Len(p.labels) /\ MatchesAt(p.labels, h, 1)
       [] ~p.left /\ p.right  -> MatchesAt(p.labels, h, 1)
       [] OTHER               -> \E i \in Windows(p.labels, h) : MatchesAt(p.labels, h, i)

\* create_pattern_spec(): a pattern is for URLs, or for tags of one kind.  Without a
\* host, a port list or a path that part matches everything.
AnyPath == {}
UrlPattern(labels, left, right, ports, paths) ==
  [kind |-> "URL", labels |-> labels, left |-> left, right |-> right, ports |-> ports,
   paths |-> paths]
TagPattern(kind, tags) ==
  [kind |-> kind, tags |-> tags]

port_matches(port, ports) == ports = NoPorts \/ match_portlist(ports, port)
host_matches(h, p)        == p.labels = <<>> \/ domain_match(p, h)
path_matches(path, p)     == p.paths = AnyPath \/ path \in p.paths

url_match(p, http) ==
  /\ p.kind = "URL"
  /\ port_matches(http.port, p.ports) /\ host_matches(http.host, p) /\ path_matches(http.path, p)

-----------------------------------------------------------------------------
(* Request lines.  A URL is [scheme, host, port, path]: scheme is "http",  *)
(* "https", "none", "path" (it begins with a slash) or "*"; port is 0 if   *)
(* there is none and -1 if it can't be read; path "" if there is none.     *)

NoHost == <<>>
NotParsed == [ok |-> FALSE]

PathOf(u) == IF u.path = "" THEN "/" ELSE u.path

parse_http_url(u, ssl, require_protocol) ==
  LET tls  == ssl \/ u.scheme = "https"
      port == IF u.port # 0 THEN u.port ELSE IF tls THEN 443 ELSE 80
      http(h, n, p) == [ok |-> TRUE, ssl |-> tls, host |-> h, port |-> n, path |-> p]
  IN  CASE u.scheme = "*"    -> http(NoHost, 0, "*")
        [] u.scheme = "path" -> http(NoHost, 0, PathOf(u))
        [] u.scheme = "none" /\ require_protocol -> NotParsed
        [] OTHER -> IF u.port = -1 \/ u.port > 65535 \/ u.host = NoHost THEN NotParsed
                    ELSE http(u.host, port, PathOf(u))

\* l is [method, url, version]; a line that is no three words is none.
parse_http_request(l) ==
  LET tls == l.method = "CONNECT" IN
  IF l.method = "unknown" \/ l.version \notin {"1.0", "1.1"} THEN NotParsed
  ELSE LET http == parse_http_url(l.url, tls, ~tls)
       IN  IF ~http.ok THEN NotParsed
           ELSE [ok |-> TRUE, ssl |-> http.ssl, client_ssl |-> FALSE, server_ssl |-> FALSE,
                 host |-> http.host, port |-> http.port, path |-> http.path,
                 method |-> l.method, version |-> l.version, url |-> l.url, cmd |-> l,
                 hostport |-> [host |-> http.host, port |-> IF http.host = NoHost THEN 0 ELSE l.url.port]]

-----------------------------------------------------------------------------
(* hostport: a host as it is written, its port behind it if one is given.  *)

Dotted(host) == FlattenSeq([i \in DOMAIN host |-> IF i = 1 THEN host[i] ELSE <<".">> \o host[i]])
Digits(n) ==
  LET Of[k \in Nat] == IF k < 10 THEN <<ToString(k)>> ELSE Append(Of[k \div 10], ToString(k % 10))
  IN  Of[n]
HostText(to) == Dotted(to.host) \o (IF to.port = 0 THEN <<>> ELSE <<":">> \o Digits(to.port))

-----------------------------------------------------------------------------
(* What the patterns are documented to mean.                               *)

\* "'*' wildcard that stands for zero or more arbitrary characters"
Glob(p, t) ==
  LET From[i \in 1..(Len(p) + 1), j \in 1..(Len(t) + 1)] ==
        IF i > Len(p) THEN j > Len(t)
        ELSE IF p[i] = Star THEN From[i + 1, j] \/ (j <= Len(t) /\ From[i, j + 1])
        ELSE j <= Len(t) /\ Hits(p[i], t[j]) /\ From[i + 1, j + 1]
  IN  From[1, 1]
=============================================================================
