----------------------------- MODULE Forwarding -----------------------------
(***************************************************************************)
(* Opening a connection to where a request goes (gateway.c, jbsockets.c):  *)
(* forwarded_connect() with the SOCKS dialogs, connect_to() with its       *)
(* retries, the access control list, and what chat() makes of the result.  *)
(*                                                                         *)
(* The network decides how a name resolves, what an address does, what a   *)
(* gateway answers and in which pieces the answer is read.  Of the answers *)
(* the model keeps their sizes and what is decided upon.                   *)
(***************************************************************************)
EXTENDS Integers, SequencesExt

CONSTANTS
  Addresses,       \* what a name may resolve to
  Directives,      \* permit-access and deny-access, in the order of the file: a
                   \* sequence of entries [src, dst, permit]
  Client,          \* the address of the client
  Retries,         \* config->forwarded_connect_retries
  Tasks,           \* what is asked for, see below
  DomainSizes,     \* lengths of the name in a gateway's answer
  Response         \* bytes of the response that may follow the answer at once

(***************************************************************************)
(* A task is                                                               *)
(*   type      of the forwarder: none, webserver, socks4, socks4a, socks5, *)
(*             socks5t                                                     *)
(*   parent    whether there is a forward_host                             *)
(*   override  whether it comes from +forward-override: csp->fwd is set    *)
(*   auth      whether a user name and a password are configured           *)
(*   badPort   whether the port of the gateway is no port                  *)
(*   way       plain; or, for a CONNECT (csp->http->ssl), tunnel or         *)
(*             inspected                                                   *)
(*   whole     CSP_FLAG_CLIENT_REQUEST_COMPLETELY_READ                     *)
(*   body      whether a body, or what comes behind a CONNECT, is buffered *)
(***************************************************************************)
Socks4 == {"socks4", "socks4a"}
Socks5 == {"socks5", "socks5t"}

ASSUME ForwardingAssumption ==
  /\ Directives \in Seq(ToSet(Directives))
  /\ DomainSizes \subseteq 0..255 /\ Response \in Nat

VARIABLES
  task,
  at,        \* the call that is next
  addrs,     \* what is left of getaddrinfo()'s list: the first is tried, or connected to
  sock,      \* none, open, closed, or lost: open and forgotten
  attempts,  \* calls of rfc2553_connect_to()
  errno,
  written,   \* what was written to the socket
  answer,    \* the gateway's last answer: [size, kind, domain], with what follows it
  unread,    \* bytes that were not read yet
  page       \* the error the client is told

vars == <<task, at, addrs, sock, attempts, errno, written, answer, unread, page>>

None == [size |-> 0, kind |-> "none", domain |-> 0, more |-> 0]

Init ==
  /\ task \in Tasks
  /\ at = "forwarded_connect"
  /\ addrs = <<>> /\ sock = "none" /\ attempts = 0 /\ errno = "none"
  /\ written = <<>> /\ answer = None /\ unread = 0 /\ page = "none"

-----------------------------------------------------------------------------
(* Access control.  dst is empty in an entry for every destination; the    *)
(* first entry of the list that matches decides.                           *)

InOrder(directives) == directives                         \* mutant of load_config
\* A directive is put in front of the list.
load_config(directives) == Reverse(directives)
acl == load_config(Directives)

block_acl(dst) ==
  LET hits == {i \in DOMAIN acl : Client \in acl[i].src /\ (acl[i].dst = {} \/ dst \in acl[i].dst)}
  IN  acl # <<>> /\ (hits = {} \/ \E i \in hits : (\A j \in hits : i <= j) /\ ~acl[i].permit)

-----------------------------------------------------------------------------
(* connect_to()                                                            *)

Go(next) == at' = next
Fail == Go("failed")

\* The checks of the gateway's port; a socks4 gateway is told an address.
forwarded_connect ==
  /\ at = "forwarded_connect"
  /\ IF task.type \in Socks4 \cup Socks5 /\ task.badPort
     THEN Fail /\ errno' = "EINVAL"
     ELSE \/ Go("connect_to") /\ UNCHANGED errno
          \/ task.type = "socks4" /\ Fail /\ UNCHANGED errno
  /\ UNCHANGED <<task, addrs, sock, attempts, written, answer, unread, page>>

rfc2553_connect_to ==
  /\ at = "connect_to"
  /\ attempts' = attempts + 1
  /\ \/ /\ errno' = "EINVAL" /\ Go("again") /\ UNCHANGED addrs
     \/ /\ addrs' \in SetToAllKPermutations(Addresses)
        /\ addrs' # <<>>
        /\ Go("try") /\ UNCHANGED errno
  /\ UNCHANGED <<task, sock, written, answer, unread, page>>

TryAddress ==
  /\ at = "try" /\ addrs # <<>>
  /\ IF block_acl(Head(addrs))
     THEN /\ errno' = "EPERM" /\ addrs' = Tail(addrs)
          /\ UNCHANGED <<at, sock, written>>
     ELSE \/ /\ errno' \in {"ECONNREFUSED", "EINPROGRESS", errno}   \* the attempt's socket is closed
             /\ addrs' = Tail(addrs) /\ UNCHANGED <<at, sock, written>>
          \/ /\ sock' = "open"
             /\ Go(CASE task.type \in Socks4 -> "socks4" [] task.type \in Socks5 -> "greet" [] OTHER -> "done")
             /\ UNCHANGED <<errno, addrs, written>>
  /\ UNCHANGED <<task, attempts, answer, unread, page>>

NoAddressLeft ==
  /\ at = "try" /\ addrs = <<>> /\ Go("again")
  /\ UNCHANGED <<task, addrs, sock, attempts, errno, written, answer, unread, page>>

\* Only a forwarder of the action is in csp->fwd.
Retried == /\ errno # "EINVAL" /\ task.override
           /\ task.parent \/ task.type # "none"
           /\ attempts < Retries

connect_to ==
  /\ at = "again" /\ (IF Retried THEN Go("connect_to") ELSE Fail)
  /\ UNCHANGED <<task, addrs, sock, attempts, errno, written, answer, unread, page>>

-----------------------------------------------------------------------------
(* The dialogs.  A write may fail; a read may time out or find the         *)
(* connection closed, and it returns what has arrived, however little.     *)

Closed(error) == sock' = "closed" /\ Fail /\ errno' = error
Forgotten     == sock' = "lost" /\ Fail /\ UNCHANGED errno

Write(what, answers, next) ==
  /\ \/ /\ written' = Append(written, what) /\ answer' \in answers
        /\ unread' = answer'.size + answer'.more
        /\ Go(next) /\ UNCHANGED <<sock, errno>>
     \/ Closed(errno) /\ UNCHANGED <<written, answer, unread>>
  /\ UNCHANGED <<task, addrs, attempts, page>>

\* read_socks_reply() of up to len bytes: it is what is expected or the dialog has
\* failed.
Reads(len) == {n \in 1..len : n <= unread} \cup {0}
Read(len, expected, verdict, next) ==
  /\ \E n \in Reads(len) :
       /\ unread' = unread - n
       /\ IF n = expected /\ verdict THEN Go(next) /\ UNCHANGED <<sock, errno>>
          ELSE Closed("EINVAL")
  /\ UNCHANGED <<task, addrs, attempts, written, answer, page>>

Answers(size, kinds) == [size : {size}, kind : kinds, domain : {0}, more : {0}]

socks4_connect ==
  \/ at = "socks4" /\ Write("request", Answers(8, {"granted", "rejected"}), "socks4 reply")
  \/ at = "socks4 reply" /\ Read(8, 8, answer.kind = "granted", "done")

SIZE_SOCKS5_REPLY_DOMAIN == 300

Methods == {"open", "password", "unacceptable", "wrong version"}
Greet == at = "greet" /\ Write("greeting", Answers(2, Methods), "method")
ReadMethod ==
  at = "method" /\ Read(SIZE_SOCKS5_REPLY_DOMAIN, 2, answer.kind = "open" \/ (answer.kind = "password" /\ task.auth),
                        IF answer.kind = "password" THEN "auth" ELSE "request")
Authenticate ==
  \/ at = "auth" /\ Write("auth", Answers(2, {"accepted", "rejected"}), "auth reply")
  \/ at = "auth reply" /\ Read(SIZE_SOCKS5_REPLY_DOMAIN, 2, answer.kind = "accepted", "request")

\* The answer ends with an address: IPv4, IPv6 or a name; with optimistic data the
\* response may follow it at once.
Optimistic == task.type = "socks5t" /\ task.way = "plain" /\ task.whole
RequestAnswers ==
  LET more == IF Optimistic THEN {0, Response} ELSE {0} IN
  [size : {10}, kind : {"ipv4", "refused"}, domain : {0}, more : more]
  \cup [size : {22}, kind : {"ipv6"}, domain : {0}, more : more]
  \cup UNION {[size : {7 + n}, kind : {"domain"}, domain : {n}, more : more] : n \in DomainSizes}

SendConnect == at = "request" /\ Write("request", RequestAnswers, IF Optimistic THEN "head" ELSE "reply")

\* The request is sent before the gateway has answered.  The list of headers is then
\* empty; if the write fails nobody closes the socket.
SendHead ==
  /\ at = "head"
  /\ \/ /\ written' = Append(written, "head")
        /\ Go(IF task.body THEN "body" ELSE "reply") /\ UNCHANGED <<sock, errno>>
     \/ Forgotten /\ UNCHANGED written
  /\ UNCHANGED <<task, addrs, attempts, answer, unread, page>>
SendBody ==
  /\ at = "body"
  /\ \/ written' = Append(written, "body") /\ Go("reply") /\ UNCHANGED <<sock, errno>>
     \/ Forgotten /\ UNCHANGED written
  /\ UNCHANGED <<task, addrs, attempts, answer, unread, page>>

LengthOfName(a) == a.domain                               \* mutant of NameLeft
\* The length is taken from a char, which is signed.
NameLeft(a) == 5 + (IF a.domain < 128 THEN a.domain ELSE a.domain - 256) + 2 - 10

\* Ten bytes first, then what is left of a longer answer.
ReadReply ==
  at = "reply" /\ Read(10, 10, \/ answer.kind \in {"ipv4", "ipv6"}
                               \/ answer.kind = "domain" /\ NameLeft(answer) \in 1..SIZE_SOCKS5_REPLY_DOMAIN,
                       CASE answer.kind = "ipv4" -> "done" [] answer.kind = "ipv6" -> "address"
                         [] OTHER -> "name")
ReadAddress == at = "address" /\ Read(12, 12, TRUE, "done")

ReadName == at = "name" /\ Read(NameLeft(answer), NameLeft(answer), TRUE, "done")

socks5_connect ==
  \/ Greet \/ ReadMethod \/ Authenticate \/ SendConnect \/ SendHead \/ SendBody
  \/ ReadReply \/ ReadAddress \/ ReadName

-----------------------------------------------------------------------------
(* chat()                                                                  *)

error_response ==
  /\ at = "failed"
  /\ page' = IF task.type # "none" THEN "forwarding-failed"
             ELSE IF errno = "EINVAL" THEN "no-such-domain" ELSE "connect-failed"
  /\ Go("end")
  /\ UNCHANGED <<task, addrs, sock, attempts, errno, written, answer, unread>>

Page(what) == page' = what /\ Go("end")

\* The parent is asked for the connection that is to be inspected: with the headers of the
\* CONNECT, which are gone then.
AskParent ==
  /\ at = "done" /\ task.way = "inspected" /\ task.parent
  /\ \/ /\ written' = Append(written, "head")
        /\ answer' \in Answers(2, {"established", "rejected"})    \* the status line, and the rest
        /\ unread' = answer'.size
        /\ Go("parent")
     \/ Go("dropped") /\ UNCHANGED <<written, answer, unread>>
  /\ UNCHANGED <<task, addrs, sock, attempts, errno, page>>

\* One read decides, and may leave something of the answer.
ReadParent ==
  /\ at = "parent"
  /\ \E n \in Reads(2) :
       /\ unread' = unread - n
       /\ IF n = 0 THEN Page("no-server-data")
          ELSE IF answer.kind = "established" THEN Go("tls") /\ UNCHANGED page
          ELSE Page("connect-failed")
  /\ UNCHANGED <<task, addrs, sock, attempts, errno, written, answer>>

\* Anything that is read before the server's part of the handshake breaks it.
create_server_ssl_connection ==
  /\ at = "tls" \/ (at = "done" /\ task.way = "inspected" /\ ~task.parent)
  /\ \/ unread = 0 /\ Go("send") /\ UNCHANGED page
     \/ \E what \in {"certificate", "connect-failed"} : Page(what)
  /\ UNCHANGED <<task, addrs, sock, attempts, errno, written, answer, unread>>

AlwaysLeft  == TRUE                                       \* mutant of HeadersLeft
HeadersLeft == "head" \notin ToSet(written)

\* A request that went out with the SOCKS request is not sent again.  A tunnel needs no
\* request but that for a parent.
Request(h, b) == IF task.body THEN <<h, b>> ELSE <<h>>
ToSend ==
  IF task.type = "socks5t" /\ ~HeadersLeft THEN <<>>
  ELSE CASE task.way = "inspected" -> Request("inner head", "inner body")
         [] task.way # "inspected" /\ (task.way = "plain" \/ task.parent) -> Request("head", "body")
         [] OTHER -> <<>>

\* A request that can't be written is an error; a client that is gone is told nothing.
send_http_request ==
  /\ at = "send" \/ (at = "done" /\ task.way # "inspected")
  /\ \/ written' = written \o ToSend /\ Go("end") /\ UNCHANGED page
     \/ \E n \in 1..Len(ToSend) : written' = written \o SubSeq(ToSend, 1, n - 1) /\ Page("connect-failed")
     \/ ToSend = <<>> /\ task.way = "tunnel" /\ Go("dropped") /\ UNCHANGED <<written, page>>
  /\ UNCHANGED <<task, addrs, sock, attempts, errno, answer, unread>>

Next == \/ forwarded_connect \/ rfc2553_connect_to \/ TryAddress \/ NoAddressLeft \/ connect_to
        \/ socks4_connect \/ socks5_connect \/ error_response
        \/ AskParent \/ ReadParent \/ create_server_ssl_connection \/ send_http_request

Spec == Init /\ [][Next]_vars

-----------------------------------------------------------------------------
(* Properties                                                              *)

TypeOK ==
  /\ task \in Tasks
  /\ addrs \in SetToAllKPermutations(Addresses)
  /\ sock \in {"none", "open", "closed", "lost"}
  /\ attempts \in Nat /\ unread \in Nat
  /\ page \in {"none", "forwarding-failed", "no-such-domain", "connect-failed", "no-server-data", "certificate"}

Connected == at \in {"done", "send", "end"} /\ page = "none"

\* When the connection is handed to the caller, and when the request is sent on it, the
\* answers of gateway and parent have been read to their last byte and nothing of the
\* server's response has been.
ReplyConsumed == Connected => sock = "open" /\ unread = answer.more

\* The server gets the request exactly once, head before body, and after the gateway and
\* the parent were asked to connect; a parent gets a CONNECT exactly once.
Dialog == CASE task.type \in Socks4 -> {<<"request">>}
            [] task.type \in Socks5 -> {<<"greeting", "request">>, <<"greeting", "auth", "request">>}
            [] OTHER -> {<<>>}
Payload ==
  IF task.way = "inspected"
  THEN (IF task.parent THEN <<"head">> ELSE <<>>) \o Request("inner head", "inner body")
  ELSE IF task.way = "plain" \/ task.parent THEN Request("head", "body") ELSE <<>>
\* What SentOptimistically says of this is not so.
Unsent == task.type = "socks5t" /\ task.way = "inspected" /\ task.parent
RequestOnce == (at = "end" /\ page = "none" /\ ~Unsent) => \E d \in Dialog : written = d \o Payload

\* When a request is not sent to a server through forward-socks5t, it has been sent before.
\* ("Client headers have been sent optimistically", jcc.c:4792)
SentOptimistically ==
  (at = "end" /\ page = "none" /\ task.type = "socks5t" /\ task.way = "inspected") => "inner head" \in ToSet(written)

\* "the last match wins": privoxy connects to an address only if the last directive that
\* speaks of it and of the client permits it, or if there are no directives.
Speaks(d, dst) == Client \in d.src /\ (d.dst = {} \/ dst \in d.dst)
Permitted(dst) ==
  Directives = <<>> \/ \E i \in DOMAIN Directives :
    /\ Directives[i].permit /\ Speaks(Directives[i], dst)
    /\ \A j \in DOMAIN Directives : j > i => ~Speaks(Directives[j], dst)
OnlyPermitted == sock # "none" => Permitted(Head(addrs))

\* "How often Privoxy retries if a forwarded connection request fails": a connection to a
\* forwarder that could not be opened was tried again.
RetriesMade ==
  (at = "failed" /\ sock = "none" /\ attempts > 0 /\ errno # "EINVAL" /\ (task.parent \/ task.type # "none"))
  => attempts = Retries + 1
=============================================================================
