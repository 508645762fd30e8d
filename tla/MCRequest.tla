----------------------------- MODULE MCRequest -----------------------------
(* TLC instances of Request.  Two actions files with aliases, patterns of     *)
(* every kind and tags; requests for sites they block, inspect and rewrite.   *)
EXTENDS Request

CONSTANT none

org  == <<"o">>
ads  == <<"a", "d", "s">>
site == <<"s", "i">>
Site == <<site, org>>
Ads  == <<ads, site, org>>
Old  == <<<<"o", "l", "d">>, org>>
Cgi  == <<<<"p">>, <<"p">>>>
Fruit == <<<<"b", "a", "n", "a", "n", "a">>, org>>
MCCgiHosts == {Cgi}

MCCgiPages == ("/" :> [name |-> "main", harmless |-> TRUE]) @@ ("/toggle" :> [name |-> "toggle", harmless |-> FALSE])
MCForcedPaths == "/force" :> "/"

Plus(n)     == Word("+", n, none)
Minus(n)    == Word("-", n, none)
Set(n, v)   == Word("+", n, v)
Use(alias)  == Word("", alias, none)

chars(label) == [i \in DOMAIN label |-> Char(label[i])]
Exactly(h)   == UrlPattern([i \in DOMAIN h |-> chars(h[i])], FALSE, FALSE, NoPorts, AnyPath)
Everything   == UrlPattern(<<>>, TRUE, TRUE, NoPorts, AnyPath)
\* ".ad?." and "s*.o"
AdSites      == UrlPattern(<<<<Char("a"), Char("d"), AnyChar>>>>, TRUE, TRUE, NoPorts, AnyPath)
SiSites      == UrlPattern(<<<<Class({"s"}), Star>>, chars(org)>>, FALSE, FALSE, NoPorts, AnyPath)
Within       == UrlPattern(<<chars(site)>>, TRUE, TRUE, NoPorts, {"/in"})
Tls          == UrlPattern(<<>>, TRUE, TRUE, {Port(443)}, AnyPath)

DefaultAction ==
  <<Heading("settings"), Version(FALSE), Heading("description"), Version(FALSE), Heading("alias"),
    Alias("guarded", <<Plus("crunch-outgoing-cookies"), Set("hide-referrer", "conditional-block")>>),
    Alias("open", <<Minus("crunch-outgoing-cookies"), Minus("hide-referrer"), Minus("add-header")>>),
    Alias("opener", <<Use("open"), Minus("block"), Word("-", "add-header", "B")>>),
    Section(<<Set("client-header-tagger", "method"), Set("client-body-tagger", "secrets"), Use("guarded"),
              Set("add-header", "A"), Set("add-header", "B"), Set("limit-connect", {Port(443)})>>),
    Pattern(Everything),
    Section(<<Set("block", "ads")>>), Pattern(AdSites),
    Section(<<Plus("https-inspection")>>), Pattern(Tls),
    Section(<<Use("guarded"), Set("hide-referrer", "conditional-forge"), Use("open"), Set("add-header", "C")>>),
    Pattern(SiSites),
    Section(<<Set("redirect", [command |-> "", url |-> Url("http", Site, 0, "/")])>>), Pattern(Within)>>

UserRules ==
  <<Heading("alias"),
    Alias("opener", <<Minus("block"), Word("-", "add-header", "B")>>),
    Section(<<Use("opener")>>), Pattern(TagPattern("CLIENT-TAG", {"free"})),
    Section(<<Set("client-header-filter", "move")>>), Pattern(Exactly(Old)),
    Section(<<Set("block", "secret"), Set("client-body-filter", "mask")>>), Pattern(TagPattern("TAG", {"secret"})),
    Section(<<Set("client-body-filter", "mask")>>), Pattern(TagPattern("TAG", {"POST"})),
    Section(<<Set("hide-referrer", "conditional-forge")>>), Pattern(UrlPattern(<<>>, TRUE, TRUE, {Port(8080)}, AnyPath)),
    Section(<<Set("change-x-forwarded-for", "add")>>), Pattern(TagPattern("NO-REQUEST-TAG", {"GET"}))>>

FruitRules == <<Section(<<Set("block", "fruit")>>),
                Pattern(UrlPattern(<<<<Star, Char("a"), Char("n"), Char("a")>>, chars(org)>>,
                                   FALSE, FALSE, NoPorts, AnyPath))>>
ForRules   == <<Section(<<Plus("https-inspection"), Set("change-x-forwarded-for", "add")>>),
                Pattern(Everything)>>

MCTag(t, name, value) == IF t = "method" /\ name = "line" THEN value.method ELSE ""
MCBodyTag(t, body)    == IF t = "secrets" /\ body.id = "secret" THEN "secret" ELSE ""
MCBodyFilter(f, body) == [body EXCEPT !.size = IF body.id = "long" THEN @ - 1 ELSE @]

\* The filter "move" rewrites two paths, to nothing and to another host.
MCHeaderFilter(f, name, value) ==
  CASE name # "line" -> {value}
    [] value.url.path = "/gone" -> {}
    [] value.url.path = "/bad"  -> {[value EXCEPT !.version = "2.0"]}
    [] value.url.path = "/down" -> {[value EXCEPT !.url = Url("http", Site, 0, "/down")]}
    [] value.url.path = "/move" -> {[value EXCEPT !.url.path = "/moved"]}
    [] OTHER -> {value}
MCRewritten(c, url)   == NoUrl
MCEmbedded(path, mode) == NoUrl

\* The configuration files.  Common has a directive of every kind.
D(cmd, arg)  == Directive(cmd, <<arg>>)
File(cmd, f) == D(cmd, <<f>>)
Common ==
  <<D("confdir", <<"etc">>), File("actionsfile", "default.action"), File("actionsfile", "user.action"),
    File("filterfile", "default.filter"), File("logdir", "log"), File("logfile", "logfile"),
    D("keep-alive-timeout", 0), D("keep-alive-timeout", 5), D("default-server-timeout", 60),
    D("connection-sharing", 0), D("split-large-forms", 1), D("tolerate-pipelining", 1), D("toggle", 1),
    D("single-threaded", 0), D("buffer-limit", 1), D("client-tag-lifetime", 3), D("compression-level", 9),
    D("debug", 1), D("debug", 1024), D("max-client-connections", 2), D("forwarded-connect-retries", 1),
    D("receive-buffer-size", 6000), D("socket-timeout", 30), D("trust-info-url", "why"),
    D("trusted-cgi-referer", Old), D("ca-cert-file", <<"ca.crt">>), D("ca-directory", <<"CA">>),
    D("cors-allowed-origin", "here"), D("permit-access", "lan"), Directive("deny-access", <<"lan", "bad">>),
    D("proxy-info-url", "about"), D("hostname", "privoxy"), D("enable-compression", 0),
    Directive("client-specific-tag", <<"free", "load everything">>), Directive("client-header-order", <<"Host">>),
    D("listen-address", [host |-> "", port |-> 8118]), D("enable-fast-lane", 1)>>

Crunching == <<D("allow-cgi-request-crunching", 1), D("accept-intercepted-requests", 1)>>
Enforcing == <<D("enforce-blocks", 1), D("forward-socks4", Everything)>>
Forwarding ==
  <<D("accept-intercepted-requests", 1), Directive("forward", <<Everything, "parent">>),
    Directive("forward-socks5", <<Exactly(Old), "gateway", ".">>), Directive("forward", <<SiSites, ".">>),
    Directive("forward-socks4", <<Exactly(Site), "gateway">>),
    Directive("forward-socks4a", <<NoPattern, "gateway", ".">>)>>
Trusting == <<File("trustfile", "trust")>>

Etc(f) == <<"etc", f>>
MCActions == (Etc("default.action") :> DefaultAction) @@ (Etc("user.action") :> UserRules)
MCTrust   == <<TrustLine("+", Exactly(Site)), TrustLine("", Exactly(Old)), TrustLine("+", Exactly(Ads))>>
Disk(config, actions, trust) == [config |-> config, actions |-> actions, trust |-> trust]
Good == Disk(Common, MCActions, MCTrust)

\* What Privoxy can't start with: a file where confdir, set later, isn't looked for, no
\* port, one file too many, no number and so on; an alias nobody defined, parts of an
\* actions file in the wrong order or for a newer version; no pattern in the trust file.
BadConfigs ==
  {<<File("actionsfile", "default.action")>> \o Common, <<D("listen-address", [host |-> "all", port |-> 0])>>,
   Common \o <<File("actionsfile", "more.action")>>}
  \cup {<<d>> : d \in {Directive("buffer-limit", <<>>), D("toggle", 2), D("client-tag-lifetime", -1),
                       D("max-client-connections", 0), D("compression-level", 10), Directive("keep-alive-timeout", <<>>)}}
BadActions ==
  {<<Section(<<Use("opener")>>)>>, <<Heading("alias"), Heading("settings")>>,
   <<Heading("settings"), Version(TRUE)>>}
MCDisks ==
  {[Good EXCEPT !.config = @ \o c \o t] : c \in {Crunching, Enforcing, Forwarding}, t \in {<<>>, Trusting}}
  \cup {[Good EXCEPT !.config = c] : c \in BadConfigs}
  \cup {[Good EXCEPT !.actions[Etc("user.action")] = a] : a \in BadActions}
  \cup {[Good EXCEPT !.config = @ \o Trusting, !.trust = <<TrustLine("~", NoPattern)>>]}
OneFile(rules) == {Disk(<<File("actionsfile", "only.action"), D("keep-alive-timeout", 5)>>, <<"only.action">> :> rules, <<>>)}
FruitDisks == OneFile(FruitRules)
ForDisks   == OneFile(ForRules)

Line(m, url)     == [method |-> m, url |-> url, version |-> "1.1"]
Req(line, head, body) == [line |-> line, head |-> head, body |-> body]
Host(h, port)    == "Host" :> [host |-> h, port |-> port]
FromUrl(s, h, n) == "Referer" :> [scheme |-> s, host |-> h, port |-> n, forced |-> FALSE]
From(h)          == FromUrl("http", h, 0)
Cookie           == "Cookie" :> "c"
Get(h, path, head) == Req(Line("GET", Url("http", h, 0, path)), head @@ Host(h, 0), NoBody)
Post(line, h, id)  == Req(line, ("Content-Length" :> 2) @@ Host(h, 0), [id |-> id, size |-> 2])
ConnectTo(h, port) == Req(Line("CONNECT", Url("none", h, port, "")), Host(h, port), NoBody)
Inner(h, path, head) == Req(Line("GET", Url("path", NoHost, 0, path)), head @@ Host(h, 0), NoBody)

\* Of ads.si.o, of xads.si.o, of ads.si.ox and of port 8080.
AlikeReferrers ==
  {FromUrl(s, h, 0) : s \in {"http", "https"}, h \in {Ads, <<<<"x", "a", "d", "s">>, site, org>>, <<ads, site, <<"o", "x">>>>}}
  \cup {FromUrl("http", Ads, 8080)}

MCRequests ==
  {Get(h, p, x) : h \in {Site, Ads}, p \in {"/", "/in", "/force"}, x \in {From(Site) @@ Cookie, From(Old)}}
  \cup {Get(Old, p, <<>>) : p \in {"/", "/gone", "/bad", "/down", "/move"}}
  \cup {Get(Cgi, p, x) : p \in {"/", "/toggle", "/force", "/none"}, x \in {<<>>, From(Cgi)}}
  \cup {Post(Line("POST", Url("http", h, 0, "/")), h, id) : h \in {Site, Old}, id \in {"plain", "secret", "long"}}
  \cup {ConnectTo(h, 443) : h \in {Site, Ads, Old, Cgi}} \cup {ConnectTo(Site, 22)}
  \cup {[Inner(Site, "/", x) EXCEPT !.line.method = m] :
          m \in {"GET", "OPTIONS", "unknown"}, x \in {<<>>, "Max-Forwards" :> 0}}
  \cup {[Get(Site, "/", x) EXCEPT !.line.url.port = n] : n \in {8080, 443, -1}, x \in {<<>>, "Expect" :> "other"}}
  \cup {Get(Ads, "/", x) : x \in AlikeReferrers}
  \cup {[Get(Ads, "/", From(Ads)) EXCEPT !.line.url.port = 8080],
        [ConnectTo(Ads, 443) EXCEPT !.line.url.path = "/force"]}
  \cup {Req(Line("OPTIONS", Url("*", NoHost, 0, "*")), Host(h, 0), NoBody) : h \in {Site, Cgi}}
  \cup {Req(Line("CONNECT", Url("path", NoHost, 0, "/")), Host(Site, 0), NoBody)}
  \cup {Req(Line("GET", Url(s, Site, 0, "/")), <<>>, NoBody) : s \in {"ftp", "https", "path", "none", "http"}}
MCInner ==
  {Inner(h, p, x) : h \in {Site, Ads, Cgi}, p \in {"/", "/force"}, x \in {From(Site) @@ Cookie, From(Old)}}
  \cup {Inner(Old, p, <<>>) : p \in {"/", "/gone", "/bad", "/down", "/move"}}
  \cup {Post(Line("POST", Url("path", NoHost, 0, "/")), h, id) : h \in {Site, Old}, id \in {"plain", "secret", "long"}}
  \cup {Req(Line("GET", Url("path", NoHost, 0, "/")), <<>>, NoBody),
        Req(Line("OPTIONS", Url("*", NoHost, 0, "*")), Host(Cgi, 0), NoBody),
        Req(Line("GET", Url("ftp", Site, 0, "/")), <<>>, NoBody)}

OneFruit  == {Get(Fruit, "/", <<>>)}
ForwardedConnect == {[ConnectTo(Site, 443) EXCEPT !.head = @ @@ ("X-Forwarded-For" :> <<>>)]}
OneInner  == {Inner(Site, "/", <<>>)}
MCClientTagSets == {{}, {"free"}}
NoTags == {{}}
=============================================================================
