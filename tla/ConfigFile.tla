------------------------------ MODULE ConfigFile ------------------------------
(***************************************************************************)
(* What the configuration file (loadcfg.c) and the trust file (loaders.c)  *)
(* say.  A line of the first is a directive [cmd, args]; a word that is    *)
(* missing, or can't be read as the number that is wanted, isn't in args.  *)
(* A path is a sequence: a directory and what is in it.                    *)
(*                                                                         *)
(* A configuration has on, the directives that are switched on; number and *)
(* text, the values of others; and the lists.  ok: Privoxy can start.      *)
(***************************************************************************)
EXTENDS Policy

CONSTANTS
  MaxFiles,      \* MAX_AF_FILES
  MaxListening,  \* MAX_LISTENING_SOCKETS
  MaxReferrers   \* MAX_TRUSTED_REFERRERS

Directive(cmd, args) == [cmd |-> cmd, args |-> args]

DefaultNumbers ==
  [n \in {"forwarded-connect-retries", "default-server-timeout"} |-> 0]
  @@ [n \in {"listen-backlog", "max-client-connections"} |-> 128]
  @@ ("buffer-limit" :> 4096 * 1024) @@ ("receive-buffer-size" :> 5000) @@ ("client-tag-lifetime" :> 60)
  @@ ("socket-timeout" :> 300) @@ ("keep-alive-timeout" :> 180) @@ ("compression-level" :> 1)
DefaultTexts ==
  ("ca-cert-file" :> <<"cacert.crt">>) @@ ("ca-key-file" :> <<"cakey.pem">>) @@ ("ca-directory" :> <<"CA">>)
  @@ ("trusted-cas-file" :> <<"trustedCAs.pem">>) @@ ("certificate-directory" :> <<"certs">>)
Defaults ==
  [ok |-> TRUE, on |-> {}, number |-> DefaultNumbers, text |-> DefaultTexts, debug |-> {}, toggle |-> 1,
   actions_file |-> <<>>, re_filterfile |-> <<>>, haddr |-> <<>>, forward |-> <<>>, acl |-> <<>>,
   client_tags |-> <<>>, trust_info |-> <<>>, client_headers |-> <<>>, proxy_args |-> <<>>]

-----------------------------------------------------------------------------
(* What directives do.                                                     *)

parse_numeric_value(args, valid) == args # <<>> /\ args[1] \in valid
Number(c, d, valid) ==
  IF parse_numeric_value(d.args, valid) THEN [c EXCEPT !.number[d.cmd] = d.args[1]] ELSE Fatal(c)
AnyNumber   == Int
NotNegative == Nat
Positive    == Nat \ {0}
Level       == -1..9

parse_toggle_state(args) == IF args = <<>> THEN -1 ELSE args[1]
Switched(c, d, on) == [c EXCEPT !.on = IF on THEN @ \cup {d.cmd} ELSE @ \ {d.cmd}]
Toggle(c, d) ==
  LET state == parse_toggle_state(d.args)
  IN  IF state \in {0, 1} THEN Switched(c, d, state = 1) ELSE Fatal(c)

Given(c, cmd)      == IF cmd \in DOMAIN c.text THEN c.text[cmd] ELSE <<>>
Stored(c, cmd, text) == [c EXCEPT !.text = (cmd :> text) @@ @]
make_path(dir, file) == dir \o file
Needed(c, d)       == IF d.args = <<>> THEN Fatal(c) ELSE Stored(c, d.cmd, d.args[1])

\* The first slot of an array of n that is free.
Slot(c, array, n, value) ==
  IF Len(c[array]) < n THEN [c EXCEPT ![array] = Append(@, value)] ELSE Fatal(c)

AtTheEnd(list, item) == Append(list, item)                \* mutant of InFront
InFront(list, item) == <<item>> \o list

Warned(c) == [c EXCEPT !.proxy_args = Append(@, "warning")]

BadAddress == "bad"
\* Without a second address an entry is for every destination.
Access(c, d, action) ==
  LET dst == IF Len(d.args) = 2 THEN d.args[2] ELSE "any"
  IN  IF Len(d.args) \notin {1, 2} \/ BadAddress \in {d.args[1], dst} THEN Warned(c)
      ELSE [c EXCEPT !.acl = InFront(@, [action |-> action, src |-> d.args[1], dst |-> dst])]

Forwarder(c, d, words, fwd) ==
  IF Len(d.args) # words \/ d.args[1] = NoPattern THEN Warned(c)
  ELSE [c EXCEPT !.forward = InFront(@, [url |-> d.args[1], fwd |-> fwd])]

register_tag(tags, name, description) == Append(tags, [name |-> name, description |-> description])
parse_client_header_order(args) == args

-----------------------------------------------------------------------------
(* The switch of load_config(), in its order.                              *)

TolerateToTrustedCas(c, d) ==
  CASE d.cmd \in {"tolerate-pipelining", "trust-x-forwarded-for"} -> Toggle(c, d)
    [] d.cmd = "toggle" ->
         IF parse_toggle_state(d.args) \in {0, 1} THEN [c EXCEPT !.toggle = d.args[1]] ELSE Fatal(c)
    [] d.cmd = "trust-info-url" -> [c EXCEPT !.trust_info = Append(@, d.args[1])]
    [] d.cmd = "trustfile"      -> Stored(c, d.cmd, make_path(Given(c, "confdir"), d.args[1]))
    [] d.cmd \in {"trusted-cgi-referer", "user-manual", "ca-password", "cipher-list"} -> Stored(c, d.cmd, d.args[1])
    [] d.cmd \in {"ca-directory", "ca-cert-file", "ca-key-file", "certificate-directory", "trusted-cas-file"} ->
         Needed(c, d)
    [] OTHER -> Warned(c)

PermitToTemporary(c, d) ==
  CASE d.cmd = "permit-access"       -> Access(c, d, "permit")
    [] d.cmd \in {"proxy-info-url", "templdir", "temporary-directory"} -> Stored(c, d.cmd, d.args[1])
    [] d.cmd = "receive-buffer-size" -> Number(c, d, AnyNumber)
    [] d.cmd \in {"single-threaded", "split-large-forms"} -> Toggle(c, d)
    [] d.cmd = "socket-timeout"      -> Number(c, d, NotNegative)
    [] OTHER -> TolerateToTrustedCas(c, d)

RetriesToMaxClients(c, d) ==
  CASE d.cmd \in {"forwarded-connect-retries", "listen-backlog"} -> Number(c, d, AnyNumber)
    [] d.cmd = "handle-as-empty-doc-returns-ok" -> Toggle(c, d)
    [] d.cmd \in {"hostname", "logdir"}   -> Stored(c, d.cmd, d.args[1])
    [] d.cmd = "keep-alive-timeout" ->
         IF d.args # <<>> /\ d.args[1] <= 0 THEN Switched(c, d, FALSE)
         ELSE Switched(Number(c, d, Positive), d, TRUE)
    [] d.cmd = "listen-address"           -> Slot(c, "haddr", MaxListening, d.args[1])
    [] d.cmd = "logfile"                  -> Stored(c, d.cmd, make_path(Given(c, "logdir"), d.args[1]))
    [] d.cmd = "max-client-connections"   -> Number(c, d, Positive)
    [] OTHER -> PermitToTemporary(c, d)

ForwardSocks(c, d) ==
  CASE d.cmd = "forward-socks4" ->
         Forwarder(c, d, 3, Fwd("socks4", IF d.args[2] = "." THEN "" ELSE d.args[2], d.args[3]))
    [] d.cmd = "forward-socks4a" -> Forwarder(c, d, 3, Fwd("socks4a", d.args[2], d.args[3]))
    [] d.cmd = "forward-socks5"  -> Forwarder(c, d, 3, Fwd("socks5", d.args[2], d.args[3]))
    [] d.cmd = "forward-socks5t" -> Forwarder(c, d, 3, Fwd("socks5t", d.args[2], d.args[3]))
    [] OTHER -> RetriesToMaxClients(c, d)

CompressionToForward(c, d) ==
  CASE d.cmd \in {"enable-compression", "enable-proxy-authentication-forwarding", "enable-remote-toggle",
                  "enable-remote-http-toggle", "enforce-blocks"} -> Toggle(c, d)
    [] d.cmd = "filterfile" ->
         Slot(c, "re_filterfile", MaxFiles, make_path(Given(c, "confdir"), d.args[1]))
    [] d.cmd = "forward"    -> Forwarder(c, d, 2, Fwd("none", "", d.args[2]))
    [] OTHER -> ForwardSocks(c, d)

SharingToEditActions(c, d) ==
  CASE d.cmd \in {"connection-sharing", "enable-edit-actions"} -> Toggle(c, d)
    [] d.cmd = "cors-allowed-origin"    -> Stored(c, d.cmd, d.args[1])
    [] d.cmd = "debug"                  -> IF d.args = <<>> THEN Fatal(c) ELSE [c EXCEPT !.debug = @ \cup {d.args[1]}]
    [] d.cmd = "default-server-timeout" -> Number(c, d, NotNegative)
    [] d.cmd = "deny-access"            -> Access(c, d, "deny")
    [] OTHER -> CompressionToForward(c, d)

ActionsfileToCompressionLevel(c, d) ==
  CASE d.cmd = "actionsfile" -> Slot(c, "actions_file", MaxFiles, make_path(Given(c, "confdir"), d.args[1]))
    [] d.cmd \in {"accept-intercepted-requests", "allow-cgi-request-crunching"} -> Toggle(c, d)
    [] d.cmd \in {"admin-address", "confdir"} -> Stored(c, d.cmd, d.args[1])
    [] d.cmd = "buffer-limit" ->
         IF parse_numeric_value(d.args, AnyNumber) THEN [c EXCEPT !.number[d.cmd] = 1024 * d.args[1]] ELSE Fatal(c)
    [] d.cmd = "client-header-order" -> [c EXCEPT !.client_headers = parse_client_header_order(d.args)]
    [] d.cmd = "client-specific-tag" ->
         IF Len(d.args) # 2 THEN Fatal(c) ELSE [c EXCEPT !.client_tags = register_tag(@, d.args[1], d.args[2])]
    [] d.cmd = "client-tag-lifetime" -> Number(c, d, NotNegative)
    [] d.cmd = "compression-level"   -> Number(c, d, Level)
    [] OTHER -> SharingToEditActions(c, d)

-----------------------------------------------------------------------------
(* load_config()                                                           *)

savearg(c, d) == [c EXCEPT !.proxy_args = Append(@, d.cmd)]
ReadDirective(c, d) == IF c.ok THEN savearg(ActionsfileToCompressionLevel(c, d), d) ELSE c

\* Single-threaded there are no connections to keep alive, and without those none to share.
KeptAlive(c) ==
  LET keeps == "keep-alive-timeout" \in c.on
      not   == CASE keeps /\ "single-threaded" \in c.on -> {"keep-alive-timeout"}
                 [] ~keeps -> {"connection-sharing"}
                 [] OTHER  -> {}
  IN  [c EXCEPT !.on = @ \ not,
                !.number["default-server-timeout"] = Min({@, c.number["keep-alive-timeout"]})]

\* The files of the CA are in its directory, wherever the directive for that was.
CaFiles(c) ==
  LET InDirectory(file) == make_path(c.text["ca-directory"], c.text[file])
  IN  [c EXCEPT !.text = [t \in {"ca-cert-file", "ca-key-file", "trusted-cas-file"} |-> InDirectory(t)] @@ @]

\* Every address needs a port.
Listening(c) ==
  LET haddr == IF c.haddr = <<>> THEN <<[host |-> "127.0.0.1", port |-> 8118]>> ELSE c.haddr
  IN  [c EXCEPT !.haddr = haddr, !.ok = @ /\ \A i \in DOMAIN haddr : haddr[i].port > 0]

ReadDirectives(lines) ==
  LET After[n \in 0..Len(lines)] == IF n = 0 THEN Defaults ELSE ReadDirective(After[n - 1], lines[n])
  IN  After[Len(lines)]
load_config(lines) == Listening(CaFiles(KeptAlive(ReadDirectives(lines))))

-----------------------------------------------------------------------------
(* load_trustfile().  A line is [mark, pattern]; the mark "~" stands for a *)
(* site that is trusted, "+" for one whose links are trusted as well.      *)

TrustLine(mark, pattern) == [mark |-> mark, pattern |-> pattern]
NoTrust == [ok |-> TRUE, loaded |-> FALSE, entries |-> <<>>, referrers |-> {}]

load_trustfile(lines) ==
  LET with == SelectSeq(lines, LAMBDA l : l.mark = "+")
      kept == SubSeq(with, 1, Min({Len(with), MaxReferrers - 1}))
  IN  [ok |-> \A i \in DOMAIN lines : lines[i].pattern # NoPattern, loaded |-> TRUE,
       entries |-> FoldLeft(LAMBDA list, l : InFront(list, [url |-> l.pattern, reject |-> l.mark = ""]), <<>>, lines),
       referrers |-> {kept[i].pattern : i \in DOMAIN kept}]
=============================================================================
