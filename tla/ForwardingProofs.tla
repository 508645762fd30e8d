-------------------------- MODULE ForwardingProofs --------------------------
(***************************************************************************)
(* Proofs about Forwarding: for every access control list, every task,     *)
(* every resolution of names and every behaviour of the gateway.           *)
(***************************************************************************)
EXTENDS Forwarding, SequenceTheorems, NaturalsInduction, WellFoundedInduction, TLAPS

-----------------------------------------------------------------------------
(* The list holds the directives in reverse, and its first hit decides: the *)
(* last directive that speaks of the connection.                            *)

LEMMA Smaller == \A a, b \in Nat : a < b => <<a, b>> \in OpToRel(<, Nat)
  BY DEF OpToRel

LEMMA LeastElement ==
  ASSUME NEW S, S \subseteq Nat, S # {}
  PROVE  \E i \in S : \A j \in S : i <= j
<1>1. PICK i \in S : \A j \in S : ~ (<<j, i>> \in OpToRel(<, Nat))
  BY NatLessThanWellFounded, WFMin
<1>2. \A j \in S : ~ (j < i)
  BY <1>1, Smaller
<1> QED
  BY <1>2

LEMMA FirstHit ==
  ASSUME NEW dst, ~block_acl(dst)
  PROVE  Permitted(dst)
<1> DEFINE n == Len(Directives)
           hits == {i \in DOMAIN acl : Client \in acl[i].src /\ (acl[i].dst = {} \/ dst \in acl[i].dst)}
<1>1. n \in Nat /\ DOMAIN Directives = 1..n
  BY ForwardingAssumption
<1>2. DOMAIN acl = 1..n /\ \A i \in 1..n : acl[i] = Directives[n - i + 1]
  BY <1>1 DEF acl, load_config, Reverse
<1>3. CASE acl = <<>>
  <2>1. n = 0
    BY <1>1, <1>2, <1>3
  <2> QED
    BY <2>1, <1>1 DEF Permitted
<1>4. CASE acl # <<>>
  <2>1. hits # {} /\ ~ \E i \in hits : (\A j \in hits : i <= j) /\ ~acl[i].permit
    BY <1>4 DEF block_acl
  <2>2. PICK i \in hits : \A j \in hits : i <= j
    <3>1. hits \subseteq Nat
      BY <1>1, <1>2
    <3> QED
      BY <2>1, <3>1, LeastElement
  <2>3. acl[i].permit /\ i \in 1..n
    BY <2>1, <2>2, <1>2
  <2> DEFINE k == n - i + 1
  <2>4. k \in 1..n /\ acl[i] = Directives[k]
    BY <2>3, <1>1, <1>2
  <2>5. Speaks(Directives[k], dst)
    BY <2>2, <2>4 DEF Speaks
  <2>6. ASSUME NEW j \in 1..n, j > k, Speaks(Directives[j], dst) PROVE FALSE
    <3> DEFINE m == n - j + 1
    <3>1. m \in 1..n /\ m < i /\ Directives[j] = acl[m]
      <4>1. m \in 1..n /\ m < i /\ n - m + 1 = j
        BY <2>3, <2>6, <1>1
      <4> QED
        BY <4>1, <1>2
    <3>2. m \in hits
      BY <3>1, <2>6, <1>2 DEF Speaks
    <3> QED
      BY <2>2, <2>3, <3>1, <3>2, <1>1
  <2> QED
    BY <2>3, <2>4, <2>5, <2>6, <1>1 DEF Permitted
<1> QED
  BY <1>3, <1>4

-----------------------------------------------------------------------------
(* The steps of the dialogs.                                               *)

Connecting == {"forwarded_connect", "connect_to", "try", "again"}
Talking == {"socks4", "socks4 reply", "greet", "method", "auth", "auth reply", "request", "head",
            "body", "reply", "address", "name", "done", "parent", "tls", "send"}

\* A message was written whole and the gateway will answer it, or the dialog has failed.
LEMMA WriteSteps ==
  ASSUME NEW what, NEW answers, NEW next, Write(what, answers, next)
  PROVE  /\ UNCHANGED <<task, addrs, page>>
         /\ \/ /\ at' = next /\ sock' = sock
               /\ written' = Append(written, what)
               /\ answer' \in answers /\ unread' = answer'.size + answer'.more
            \/ at' = "failed"
  BY DEF Write, Closed, Go, Fail

\* What was expected was read, or the dialog has failed.
LEMMA ReadSteps ==
  ASSUME NEW len, NEW expected, NEW verdict, NEW next, Read(len, expected, verdict, next)
  PROVE  /\ UNCHANGED <<task, addrs, page, written, answer>>
         /\ \/ /\ at' = next /\ sock' = sock
               /\ unread' = unread - expected
            \/ at' = "failed"
<1>1. UNCHANGED <<task, addrs, page, written, answer>>
  BY DEF Read
<1>2. PICK n \in Reads(len) :
        /\ unread' = unread - n
        /\ IF n = expected /\ verdict THEN Go(next) /\ UNCHANGED <<sock, errno>>
           ELSE Closed("EINVAL")
  BY DEF Read
<1> QED
  BY <1>1, <1>2 DEF Closed, Go, Fail

LEMMA Granted ==
  ASSUME socks4_connect, at = "socks4 reply"
  PROVE  /\ UNCHANGED <<task, addrs, page, written, answer>>
         /\ \/ at' = "done" /\ sock' = sock /\ unread' = unread - 8
            \/ at' = "failed"
<1> DEFINE granted == answer.kind = "granted"
<1>1. Read(8, 8, granted, "done")
  BY DEF socks4_connect
<1> HIDE DEF granted
<1> QED
  BY <1>1, ReadSteps

LEMMA Accepted ==
  ASSUME Authenticate, at = "auth reply"
  PROVE  /\ UNCHANGED <<task, addrs, page, written, answer>>
         /\ \/ at' = "request" /\ sock' = sock
            \/ at' = "failed"
<1> DEFINE accepted == answer.kind = "accepted"
<1>1. Read(SIZE_SOCKS5_REPLY_DOMAIN, 2, accepted, "request")
  BY DEF Authenticate
<1> HIDE DEF accepted
<1> QED
  BY <1>1, ReadSteps

LEMMA DialogSteps ==
  ASSUME socks4_connect \/ socks5_connect
  PROVE  /\ at \in Talking
         /\ UNCHANGED <<task, addrs, page>>
         /\ \/ at' \in Talking /\ sock' = sock
            \/ at' = "failed"
<1> USE DEF Talking
<1>1. CASE socks4_connect
  <2>1. CASE at = "socks4"
    BY <1>1, <2>1, WriteSteps DEF socks4_connect
  <2>2. CASE at = "socks4 reply"
    BY <1>1, <2>2, Granted
  <2> QED
    BY <1>1, <2>1, <2>2 DEF socks4_connect
<1>2. CASE Greet
  BY <1>2, WriteSteps DEF Greet
<1>3. CASE ReadMethod
  BY <1>3, ReadSteps DEF ReadMethod
<1>4. CASE Authenticate
  <2>1. CASE at = "auth"
    BY <1>4, <2>1, WriteSteps DEF Authenticate
  <2>2. CASE at = "auth reply"
    BY <1>4, <2>2, Accepted
  <2> QED
    BY <1>4, <2>1, <2>2 DEF Authenticate
<1>5. CASE SendConnect
  BY <1>5, WriteSteps DEF SendConnect
<1>6. CASE SendHead
  BY <1>6 DEF SendHead, Forgotten, Go, Fail
<1>7. CASE SendBody
  BY <1>7 DEF SendBody, Forgotten, Go, Fail
<1>8. CASE ReadReply
  BY <1>8, ReadSteps DEF ReadReply
<1>9. CASE ReadAddress
  BY <1>9, ReadSteps DEF ReadAddress
<1>10. CASE ReadName
  BY <1>10, ReadSteps DEF ReadName
<1> QED
  BY <1>1, <1>2, <1>3, <1>4, <1>5, <1>6, <1>7, <1>8, <1>9, <1>10 DEF socks5_connect

-----------------------------------------------------------------------------
(* There is a socket while a dialog goes on, and none before.              *)

SocketInv == /\ at \in Connecting => sock = "none"
             /\ at \in Talking => sock = "open"

LEMMA SocketStep == SocketInv /\ [Next]_vars => SocketInv'
<1> SUFFICES ASSUME SocketInv, [Next]_vars PROVE SocketInv'
  OBVIOUS
<1> USE DEF SocketInv, Connecting, Talking, Go, Fail
<1>1. CASE forwarded_connect
  BY <1>1 DEF forwarded_connect
<1>2. CASE rfc2553_connect_to
  BY <1>2 DEF rfc2553_connect_to
<1>3. CASE TryAddress
  BY <1>3 DEF TryAddress
<1>4. CASE NoAddressLeft
  BY <1>4 DEF NoAddressLeft
<1>5. CASE connect_to
  BY <1>5 DEF connect_to
<1>6. CASE socks4_connect \/ socks5_connect
  BY <1>6, DialogSteps
<1>7. CASE error_response
  BY <1>7 DEF error_response
<1>8. CASE send_http_request
  BY <1>8 DEF send_http_request, Page
<1>9. CASE AskParent
  BY <1>9 DEF AskParent
<1>10. CASE ReadParent
  BY <1>10 DEF ReadParent, Page
<1>11. CASE create_server_ssl_connection
  BY <1>11 DEF create_server_ssl_connection, Page
<1>12. CASE UNCHANGED vars
  BY <1>12 DEF vars
<1> QED
  BY <1>1, <1>2, <1>3, <1>4, <1>5, <1>6, <1>7, <1>8, <1>9, <1>10, <1>11, <1>12 DEF Next

LEMMA SocketInvariant == Spec => []SocketInv
<1>1. Init => SocketInv
  BY DEF Init, SocketInv, Talking
<1> QED
  BY <1>1, SocketStep, PTL DEF Spec

\* Privoxy is connected to an address only if the last directive that speaks of it and of
\* the client permits it, whichever of a name's addresses were tried before.
THEOREM AccessTheorem == Spec => []OnlyPermitted
<1>1. Init => OnlyPermitted
  BY DEF Init, OnlyPermitted
<1>2. SocketInv /\ OnlyPermitted /\ [Next]_vars => OnlyPermitted'
  <2> SUFFICES ASSUME SocketInv, OnlyPermitted, [Next]_vars PROVE OnlyPermitted'
    OBVIOUS
  <2> USE DEF OnlyPermitted, Permitted, Speaks
  <2>1. CASE forwarded_connect
    BY <2>1 DEF forwarded_connect
  <2>2. CASE rfc2553_connect_to
    BY <2>2 DEF rfc2553_connect_to, SocketInv, Connecting
  <2>3. CASE TryAddress
    <3>1. CASE sock' = "none"
      BY <3>1
    <3>2. CASE sock' # "none"
      <4>1. ~block_acl(Head(addrs)) /\ addrs' = addrs
        BY <2>3, <3>2 DEF TryAddress, SocketInv, Connecting
      <4> QED
        BY <4>1, FirstHit
    <3> QED
      BY <3>1, <3>2
  <2>4. CASE NoAddressLeft
    BY <2>4 DEF NoAddressLeft
  <2>5. CASE connect_to
    BY <2>5 DEF connect_to
  <2>6. CASE socks4_connect \/ socks5_connect
    BY <2>6, DialogSteps DEF SocketInv
  <2>7. CASE error_response
    BY <2>7 DEF error_response
  <2>8. CASE send_http_request
    BY <2>8 DEF send_http_request
  <2>9. CASE AskParent
    BY <2>9 DEF AskParent
  <2>10. CASE ReadParent
    BY <2>10 DEF ReadParent
  <2>11. CASE create_server_ssl_connection
    BY <2>11 DEF create_server_ssl_connection
  <2>12. CASE UNCHANGED vars
    BY <2>12 DEF vars
  <2> QED
    BY <2>1, <2>2, <2>3, <2>4, <2>5, <2>6, <2>7, <2>8, <2>9, <2>10, <2>11, <2>12 DEF Next
<1> QED
  BY <1>1, <1>2, SocketInvariant, PTL DEF Spec

-----------------------------------------------------------------------------
(* What is left to read of the gateway's answers.                          *)

\* The kind of a SOCKS5 answer tells its size.
Sized(a) == /\ a.more \in Nat /\ a.domain \in Nat /\ a.domain <= 255
            /\ a.kind = "ipv4" => a.size = 10
            /\ a.kind = "ipv6" => a.size = 22
            /\ a.kind = "domain" => a.size = 7 + a.domain

ReplyInv ==
  /\ at \in Connecting => answer.more \in Nat /\ unread = answer.more
  /\ at = "socks4 reply" => answer.more \in Nat /\ unread = 8 + answer.more
  /\ at \in {"head", "body", "reply"} => Sized(answer) /\ unread = answer.size + answer.more
  /\ at = "address" => answer.more \in Nat /\ unread = 12 + answer.more
  /\ at = "name" => answer.more \in Nat /\ NameLeft(answer) \in Nat
                     /\ unread = NameLeft(answer) + answer.more
  /\ at \in {"done", "send"} => answer.more \in Nat /\ unread = answer.more
  /\ at \in {"parent", "tls"} => answer.more = 0
  /\ ReplyConsumed

LEMMA AnswersSized == \A a \in RequestAnswers : Sized(a)
<1>1. \A n \in DomainSizes : n \in Nat /\ n <= 255
  BY ForwardingAssumption
<1> QED
  BY <1>1, ForwardingAssumption DEF RequestAnswers, Sized

LEMMA ReplyStep == SocketInv /\ ReplyInv /\ [Next]_vars => ReplyInv'
<1> SUFFICES ASSUME SocketInv, ReplyInv, [Next]_vars PROVE ReplyInv'
  OBVIOUS
<1> USE DEF Go, Fail
<1>1. CASE forwarded_connect
  BY <1>1 DEF forwarded_connect, ReplyInv, ReplyConsumed, Connected, Connecting
<1>2. CASE rfc2553_connect_to
  BY <1>2 DEF rfc2553_connect_to, ReplyInv, ReplyConsumed, Connected, Connecting
<1>3. CASE TryAddress
  BY <1>3 DEF TryAddress, ReplyInv, ReplyConsumed, Connected, Connecting
<1>4. CASE NoAddressLeft
  BY <1>4 DEF NoAddressLeft, ReplyInv, ReplyConsumed, Connected, Connecting
<1>5. CASE connect_to
  BY <1>5 DEF connect_to, ReplyInv, ReplyConsumed, Connected, Connecting
<1>6. CASE at' = "failed"
  BY <1>6 DEF ReplyInv, ReplyConsumed, Connected, Connecting
<1>7. CASE socks4_connect
  <2>1. CASE at = "socks4"
    <3>1. \A a \in Answers(8, {"granted", "rejected"}) : a.size = 8 /\ a.more = 0
      BY DEF Answers
    <3>2. CASE at' = "socks4 reply" /\ answer' \in Answers(8, {"granted", "rejected"})
               /\ unread' = answer'.size + answer'.more
      <4>1. answer'.size = 8 /\ answer'.more = 0 /\ unread' = answer'.size + answer'.more
        BY <3>1, <3>2
      <4>2. unread' = 8 + answer'.more /\ answer'.more \in Nat
        BY <4>1
      <4> QED
        BY <3>2, <4>2 DEF ReplyInv, ReplyConsumed, Connected, Connecting
    <3> QED
      BY <1>6, <1>7, <2>1, <3>2, WriteSteps DEF socks4_connect
  <2>2. CASE at = "socks4 reply"
    <3>1. CASE at' = "done" /\ sock' = sock /\ UNCHANGED answer /\ unread' = unread - 8
      <4>1. sock = "open" /\ unread = 8 + answer.more /\ answer.more \in Nat
        BY <2>2 DEF SocketInv, Talking, ReplyInv
      <4>2. unread' = answer'.more /\ answer'.more \in Nat
        BY <3>1, <4>1
      <4> QED
        BY <3>1, <4>1, <4>2 DEF ReplyInv, ReplyConsumed, Connected, Connecting
    <3> QED
      BY <1>6, <1>7, <2>2, <3>1, Granted
  <2> QED
    BY <1>7, <2>1, <2>2 DEF socks4_connect
<1>8. CASE at' \in {"method", "auth", "auth reply", "request"}
  BY <1>8 DEF ReplyInv, ReplyConsumed, Connected, Connecting
<1>9. CASE Greet \/ ReadMethod
  <2>1. CASE Greet
    BY <1>6, <1>8, <2>1, WriteSteps DEF Greet
  <2>2. CASE ReadMethod
    BY <1>6, <1>8, <2>2, ReadSteps DEF ReadMethod
  <2> QED
    BY <1>9, <2>1, <2>2
<1>10. CASE Authenticate
  <2>1. CASE at = "auth"
    BY <1>6, <1>8, <1>10, <2>1, WriteSteps DEF Authenticate
  <2>2. CASE at = "auth reply"
    BY <1>6, <1>8, <1>10, <2>2, Accepted
  <2> QED
    BY <1>10, <2>1, <2>2 DEF Authenticate
<1>11. CASE SendConnect
  <2>1. (IF Optimistic THEN "head" ELSE "reply") \in {"head", "reply"}
    OBVIOUS
  <2>2. CASE /\ at' \in {"head", "reply"} /\ Sized(answer') /\ unread' = answer'.size + answer'.more
    BY <2>2 DEF ReplyInv, ReplyConsumed, Connected, Connecting
  <2> QED
    BY <1>6, <1>11, <2>1, <2>2, WriteSteps, AnswersSized DEF SendConnect
<1>12. CASE SendHead
  BY <1>12 DEF SendHead, Forgotten, ReplyInv, ReplyConsumed, Connected, Connecting
<1>13. CASE SendBody
  BY <1>13 DEF SendBody, Forgotten, ReplyInv, ReplyConsumed, Connected, Connecting
<1>14. CASE ReadReply
  <2> DEFINE next == CASE answer.kind = "ipv4" -> "done" [] answer.kind = "ipv6" -> "address"
                       [] OTHER -> "name"
  <2>1. CASE /\ at = "reply" /\ at' = next /\ sock' = sock /\ UNCHANGED answer
             /\ answer.kind \in {"ipv4", "ipv6", "domain"} /\ unread' = unread - 10
             /\ answer.kind = "domain" => NameLeft(answer) > 0
    <3>1. Sized(answer) /\ unread = answer.size + answer.more
      BY <2>1 DEF ReplyInv
    <3>2. CASE answer.kind = "ipv4"
      <4>1. at' = "done" /\ sock' = "open" /\ unread' = answer'.more /\ answer'.more \in Nat
        BY <2>1, <3>1, <3>2 DEF Sized, SocketInv, Talking
      <4> QED
        BY <4>1 DEF ReplyInv, ReplyConsumed, Connected, Connecting
    <3>3. CASE answer.kind = "ipv6"
      <4>1. at' = "address" /\ unread' = 12 + answer'.more /\ answer'.more \in Nat
        BY <2>1, <3>1, <3>3 DEF Sized
      <4> QED
        BY <4>1 DEF ReplyInv, ReplyConsumed, Connected, Connecting
    <3>4. CASE answer.kind = "domain"
      <4>1. answer.domain < 128
        BY <2>1, <3>1, <3>4 DEF Sized, NameLeft
      <4>2. /\ at' = "name" /\ answer'.more \in Nat /\ NameLeft(answer') \in Nat
            /\ unread' = NameLeft(answer') + answer'.more
        BY <2>1, <3>1, <3>4, <4>1 DEF Sized, NameLeft
      <4> QED
        BY <4>2 DEF ReplyInv, ReplyConsumed, Connected, Connecting
    <3> QED
      BY <2>1, <3>2, <3>3, <3>4
  <2> HIDE DEF next
  <2>2. Read(10, 10, \/ answer.kind \in {"ipv4", "ipv6"}
                     \/ answer.kind = "domain" /\ NameLeft(answer) \in 1..SIZE_SOCKS5_REPLY_DOMAIN, next)
        /\ at = "reply"
    BY <1>14 DEF ReadReply, next
  <2>3. \/ at' = "failed"
        \/ /\ answer.kind \in {"ipv4", "ipv6", "domain"}
           /\ answer.kind = "domain" => NameLeft(answer) > 0
    BY <1>14 DEF ReadReply, Read, Closed, SIZE_SOCKS5_REPLY_DOMAIN
  <2> QED
    BY <1>6, <2>1, <2>2, <2>3, ReadSteps
<1>15. CASE ReadAddress
  <2>1. CASE at = "address" /\ at' = "done" /\ sock' = sock /\ UNCHANGED answer /\ unread' = unread - 12
    <3>1. sock = "open" /\ unread = 12 + answer.more /\ answer.more \in Nat
      BY <2>1 DEF SocketInv, Talking, ReplyInv
    <3>2. unread' = answer'.more /\ answer'.more \in Nat
      BY <2>1, <3>1
    <3> QED
      BY <2>1, <3>1, <3>2 DEF ReplyInv, ReplyConsumed, Connected, Connecting
  <2> QED
    BY <1>6, <1>15, <2>1, ReadSteps DEF ReadAddress
<1>16. CASE ReadName
  <2>1. CASE /\ at = "name" /\ at' = "done" /\ sock' = sock /\ UNCHANGED answer
             /\ unread' = unread - NameLeft(answer)
    <3>1. /\ sock = "open" /\ unread = NameLeft(answer) + answer.more
          /\ NameLeft(answer) \in Nat /\ answer.more \in Nat
      BY <2>1 DEF SocketInv, Talking, ReplyInv
    <3>2. unread' = answer'.more /\ answer'.more \in Nat
      BY <2>1, <3>1
    <3> QED
      BY <2>1, <3>1, <3>2 DEF ReplyInv, ReplyConsumed, Connected, Connecting
  <2> QED
    BY <1>6, <1>16, <2>1, ReadSteps DEF ReadName
<1>17. CASE error_response
  BY <1>17 DEF error_response, ReplyInv, ReplyConsumed, Connected, Connecting
<1>18. CASE send_http_request
  BY <1>18 DEF send_http_request, Page, ReplyInv, ReplyConsumed, Connected, Connecting
<1>19. CASE UNCHANGED vars
  BY <1>19 DEF vars, ReplyInv, ReplyConsumed, Connected, Connecting
<1>20. CASE AskParent
  BY <1>20 DEF AskParent, Answers, ReplyInv, ReplyConsumed, Connected, Connecting
<1>21. CASE ReadParent
  BY <1>21 DEF ReadParent, Page, ReplyInv, ReplyConsumed, Connected, Connecting
<1>22. CASE create_server_ssl_connection
  <2>1. at = "tls" \/ at = "done"
    BY <1>22 DEF create_server_ssl_connection
  <2>2. answer.more \in Nat /\ (unread = 0 => unread = answer.more) /\ sock = "open"
    <3>1. CASE at = "tls"
      BY <3>1 DEF ReplyInv, SocketInv, Talking
    <3>2. CASE at = "done"
      BY <3>2 DEF ReplyInv, SocketInv, Talking
    <3> QED
      BY <2>1, <3>1, <3>2
  <2> QED
    BY <1>22, <2>2 DEF create_server_ssl_connection, Page, ReplyInv, ReplyConsumed, Connected, Connecting
<1> QED
  BY <1>1, <1>2, <1>3, <1>4, <1>5, <1>7, <1>9, <1>10, <1>11, <1>12, <1>13, <1>14, <1>15,
     <1>16, <1>17, <1>18, <1>19, <1>20, <1>21, <1>22 DEF Next, socks5_connect

\* Whatever a gateway and a parent answer, and however short the reads are: when the connection
\* is handed to the caller, the answers were read to their last byte and nothing of what the
\* server sent was.
THEOREM ReplyTheorem == Spec => []ReplyConsumed
<1>1. Init => ReplyInv
  BY DEF Init, ReplyInv, ReplyConsumed, Connected, Connecting, None
<1>2. ReplyInv => ReplyConsumed
  BY DEF ReplyInv
<1> QED
  BY <1>1, <1>2, ReplyStep, SocketInvariant, PTL DEF Spec

-----------------------------------------------------------------------------
(* What the messages written so far are.                                   *)

LEMMA OneMore ==
  ASSUME NEW S, NEW s \in Seq(S), NEW e \in S, NEW n \in Nat, n = Len(s), NEW m, m = n + 1
  PROVE  /\ Append(s, e) \in Seq(S) /\ Len(Append(s, e)) = m /\ Append(s, e)[m] = e
         /\ \A i \in 1..n : Append(s, e)[i] = s[i]
  OBVIOUS

LEMMA Pair ==
  ASSUME NEW S, NEW t \in Seq(S), NEW a, NEW b, Len(t) = 2, t[1] = a, t[2] = b
  PROVE  t = <<a, b>>
  OBVIOUS

LEMMA Triple ==
  ASSUME NEW S, NEW t \in Seq(S), NEW a, NEW b, NEW c, Len(t) = 3, t[1] = a, t[2] = b, t[3] = c
  PROVE  t = <<a, b, c>>
  OBVIOUS

LEMMA First == ASSUME NEW S, NEW a \in S PROVE Append(<<>>, a) = <<a>>
<1> DEFINE t == Append(<<>>, a)
<1>1. t \in Seq(S) /\ Len(t) = 1 /\ t[1] = a
  BY 1 = 0 + 1, OneMore, Len(<<>>) = 0, <<>> \in Seq(S)
<1> HIDE DEF t
<1> QED
  BY <1>1

LEMMA Second == ASSUME NEW S, NEW a \in S, NEW b \in S PROVE Append(<<a>>, b) = <<a, b>>
<1> DEFINE t == Append(<<a>>, b)
<1>1. t \in Seq(S) /\ Len(t) = 2 /\ t[2] = b /\ t[1] = a
  BY 2 = 1 + 1, OneMore, Len(<<a>>) = 1, <<a>> \in Seq(S)
<1> HIDE DEF t
<1>2. t = <<a, b>>
  BY <1>1, Pair
<1> QED
  BY <1>2 DEF t

LEMMA Third == ASSUME NEW S, NEW a \in S, NEW b \in S, NEW c \in S PROVE Append(<<a, b>>, c) = <<a, b, c>>
<1> DEFINE t == Append(<<a, b>>, c)
<1>1. t \in Seq(S) /\ Len(t) = 3 /\ t[3] = c
  BY 3 = 2 + 1, OneMore, Len(<<a, b>>) = 2, <<a, b>> \in Seq(S)
<1>2. t[1] = a /\ t[2] = b
  BY 3 = 2 + 1, OneMore, Len(<<a, b>>) = 2, <<a, b>> \in Seq(S)
<1> HIDE DEF t
<1>3. t = <<a, b, c>>
  BY <1>1, <1>2, Triple
<1> QED
  BY <1>3 DEF t

LEMMA Later ==
  ASSUME NEW S, NEW d \in Seq(S), NEW r \in Seq(S), NEW e \in S
  PROVE  Append(d \o r, e) = d \o Append(r, e)
<1>1. d \o r \in Seq(S) /\ <<e>> \in Seq(S)
  OBVIOUS
<1>2. Append(d \o r, e) = (d \o r) \o <<e>> /\ Append(r, e) = r \o <<e>>
  BY <1>1, AppendIsConcat
<1> QED
  BY <1>1, <1>2, ConcatAssociative

LEMMA Nothing == ASSUME NEW S, NEW d \in Seq(S) PROVE d \o <<>> = d
  OBVIOUS

Messages == {"greeting", "auth", "request", "head", "body", "inner head", "inner body"}
Greeted == {<<"greeting">>, <<"greeting", "auth">>}
Asked == {<<"greeting", "request">>, <<"greeting", "auth", "request">>}
Dialogs == {<<>>, <<"request">>} \cup Asked

LEMMA DialogMessages == Dialogs \subseteq Seq(Messages)
  BY DEF Dialogs, Asked, Messages

LEMMA Asking == \A g \in Greeted : Append(g, "request") \in Asked
<1>1. "greeting" \in Messages /\ "auth" \in Messages /\ "request" \in Messages
  BY DEF Messages
<1>2. Append(<<"greeting">>, "request") = <<"greeting", "request">>
  BY <1>1, Second
<1>3. Append(<<"greeting", "auth">>, "request") = <<"greeting", "auth", "request">>
  BY <1>1, Third
<1> QED
  BY <1>2, <1>3 DEF Greeted, Asked

LEMMA NoHeadYet == \A d \in Dialogs : "head" \notin ToSet(d)
  BY DEF Dialogs, Asked, ToSet

LEMMA HeadIsThere ==
  ASSUME NEW d \in Dialogs, task.way = "plain"
  PROVE  d \o Payload \in Seq(Messages) /\ "head" \in ToSet(d \o Payload)
<1>1. d \in Seq(Messages)
  BY DialogMessages
<1>2. Payload \in Seq(Messages) /\ Len(Payload) \in Nat /\ Len(Payload) >= 1 /\ Payload[1] = "head"
  <2>1. "head" \in Messages /\ "body" \in Messages
    BY DEF Messages
  <2> QED
    BY <2>1 DEF Payload, Request
<1>3. Len(d) \in Nat
  BY <1>1
<1> DEFINE t == d \o Payload
<1>4. t \in Seq(Messages) /\ Len(t) = Len(d) + Len(Payload) /\ t[Len(d) + 1] = "head"
  BY <1>1, <1>2, <1>3, ConcatProperties
<1>5. Len(d) + 1 \in DOMAIN t
  <2> HIDE DEF t
  <2> QED
    BY <1>2, <1>3, <1>4
<1> QED
  BY <1>4, <1>5 DEF ToSet

\* The head, and then the body, are put behind the dialog.
LEMMA Adding ==
  ASSUME NEW d \in Dialogs
  PROVE  /\ d \o <<>> = d
         /\ Append(d, "head") = d \o <<"head">>
         /\ Append(d \o <<"head">>, "body") = d \o <<"head", "body">>
<1>1. d \in Seq(Messages) /\ "head" \in Messages /\ "body" \in Messages
  BY DialogMessages DEF Messages
<1>2. <<"head">> \in Seq(Messages) /\ Append(<<"head">>, "body") = <<"head", "body">>
  BY <1>1, Second
<1> QED
  BY <1>1, <1>2, Nothing, Later, AppendIsConcat

ParentInv ==
  /\ at \in {"parent", "tls"} =>
       /\ task.way = "inspected" /\ task.parent
       /\ \E d \in Dialog : written = d \o <<"head">>
  /\ at = "send" =>
       /\ task.way = "inspected"
       /\ \E d \in Dialog : written = IF task.parent THEN d \o <<"head">> ELSE d

WrittenInv ==
  /\ at \in Connecting \cup {"socks4", "greet"} => written = <<>>
  /\ at \in {"socks4", "socks4 reply"} => task.type \in Socks4
  /\ at = "socks4 reply" => written = <<"request">>
  /\ at \in {"greet", "method", "auth", "auth reply", "request", "head", "body", "reply", "address", "name"}
       => task.type \in Socks5
  /\ at \in {"method", "auth"} => written = <<"greeting">>
  /\ at = "auth reply" => written = <<"greeting", "auth">>
  /\ at = "request" => written \in Greeted
  /\ at = "head" => Optimistic /\ written \in Asked
  /\ at = "body" => Optimistic /\ task.body /\ \E d \in Asked : written = d \o <<"head">>
  /\ at \in {"reply", "address", "name"} => \E d \in Asked : written = d \/ (Optimistic /\ written = d \o Payload)
  /\ at = "done" => \E d \in Dialog : written = d \/ (Optimistic /\ written = d \o Payload)
  /\ ParentInv /\ RequestOnce

LEMMA DialogOf ==
  /\ task.type \in Socks5 => Dialog = Asked
  /\ task.type \in Socks4 => Dialog = {<<"request">>}
  /\ task.type \notin Socks4 \cup Socks5 => Dialog = {<<>>}
  /\ Dialog \subseteq Dialogs
  BY DEF Dialog, Asked, Dialogs, Socks4, Socks5

LEMMA Short == ASSUME NEW S, NEW a \in S, NEW b \in S PROVE <<a>> \in Seq(S) /\ <<a, b>> \in Seq(S)
  OBVIOUS

\* The CONNECT for the parent, and the request that is inspected behind it.
LEMMA Inner ==
  ASSUME NEW d \in Dialogs
  PROVE  LET inner == Request("inner head", "inner body") IN
         /\ d \o inner = d \o (<<>> \o inner)
         /\ (d \o <<"head">>) \o inner = d \o (<<"head">> \o inner)
<1> DEFINE inner == Request("inner head", "inner body")
           asked == <<"head">>
<1>1. d \in Seq(Messages)
  BY DialogMessages
<1>2. /\ <<"inner head">> \in Seq(Messages) /\ <<"head">> \in Seq(Messages)
      /\ <<"inner head", "inner body">> \in Seq(Messages)
  <2>1. "head" \in Messages /\ "inner head" \in Messages /\ "inner body" \in Messages
    BY DEF Messages
  <2> QED
    BY <2>1, Short
<1>3. inner = <<"inner head">> \/ inner = <<"inner head", "inner body">>
  BY DEF Request
<1>4. asked \in Seq(Messages)
  BY <1>2
<1> HIDE DEF inner, asked
<1>5. inner \in Seq(Messages)
  BY <1>2, <1>3, Zenon
<1>6. <<>> \o inner = inner
  BY <1>5
<1>7. (d \o asked) \o inner = d \o (asked \o inner)
  BY <1>1, <1>4, <1>5, ConcatAssociative
<1> QED
  BY <1>6, <1>7 DEF inner, asked

\* Where the request ends up when it is sent, whether or not it was sent before.
LEMMA Sending ==
  ASSUME NEW d \in Dialogs, ~Unsent,
         \/ task.way # "inspected" /\ (written = d \/ (Optimistic /\ written = d \o Payload))
         \/ task.way = "inspected" /\ written = IF task.parent THEN d \o <<"head">> ELSE d
  PROVE  written \o ToSend = d \o Payload
<1>1. CASE task.way # "inspected" /\ written = d
  BY <1>1, NoHeadYet DEF ToSend, Payload, HeadersLeft
<1>2. CASE Optimistic /\ written = d \o Payload
  <2>1. ToSend = <<>> /\ written \in Seq(Messages)
    BY <1>2, HeadIsThere DEF ToSend, HeadersLeft, Optimistic
  <2> QED
    BY <1>2, <2>1, Nothing
<1>3. CASE task.way = "inspected" /\ ~task.parent
  <2>1. written = d /\ ToSend = Request("inner head", "inner body")
    BY <1>3, NoHeadYet DEF ToSend, HeadersLeft, Optimistic
  <2> QED
    BY <1>3, <2>1, Inner DEF Payload
<1>4. CASE task.way = "inspected" /\ task.parent
  <2>1. written = d \o <<"head">> /\ ToSend = Request("inner head", "inner body")
    BY <1>4 DEF ToSend, Unsent, Optimistic
  <2> QED
    BY <1>4, <2>1, Inner DEF Payload
<1> QED
  BY <1>1, <1>2, <1>3, <1>4

LEMMA SameTask ==
  ASSUME UNCHANGED task
  PROVE  Dialog' = Dialog /\ Payload' = Payload /\ Optimistic' = Optimistic /\ Unsent' = Unsent
  BY DEF Dialog, Payload, Request, Optimistic, Unsent

LEMMA WrittenStep == WrittenInv /\ [Next]_vars => WrittenInv'
<1> SUFFICES ASSUME WrittenInv, [Next]_vars PROVE WrittenInv'
  OBVIOUS
<1> USE DEF Go, Fail
<1>1. CASE forwarded_connect
  BY <1>1 DEF forwarded_connect, WrittenInv, ParentInv, Connecting, RequestOnce
<1>2. CASE rfc2553_connect_to
  BY <1>2 DEF rfc2553_connect_to, WrittenInv, ParentInv, Connecting, RequestOnce
<1>3. CASE TryAddress
  <2>1. CASE at' = "try"
    BY <1>3, <2>1 DEF TryAddress, WrittenInv, ParentInv, Connecting, RequestOnce
  <2>2. CASE at' # "try"
    <3>1. /\ UNCHANGED <<task, written>> /\ written = <<>>
          /\ at' = CASE task.type \in Socks4 -> "socks4" [] task.type \in Socks5 -> "greet" [] OTHER -> "done"
      BY <1>3, <2>2 DEF TryAddress, WrittenInv, ParentInv, Connecting
    <3>2. CASE task.type \in Socks4
      BY <3>1, <3>2 DEF WrittenInv, ParentInv, Connecting, RequestOnce
    <3>3. CASE task.type \notin Socks4 /\ task.type \in Socks5
      BY <3>1, <3>3 DEF WrittenInv, ParentInv, Connecting, RequestOnce
    <3>4. CASE task.type \notin Socks4 \cup Socks5
      <4>1. at' = "done" /\ <<>> \in Dialog' /\ written' = <<>>
        BY <3>1, <3>4, SameTask, DialogOf
      <4> QED
        BY <4>1 DEF WrittenInv, ParentInv, Connecting, RequestOnce
    <3> QED
      BY <3>2, <3>3, <3>4
  <2> QED
    BY <2>1, <2>2
<1>4. CASE NoAddressLeft
  BY <1>4 DEF NoAddressLeft, WrittenInv, ParentInv, Connecting, RequestOnce
<1>5. CASE connect_to
  BY <1>5 DEF connect_to, WrittenInv, ParentInv, Connecting, RequestOnce
<1>6. CASE at' = "failed"
  BY <1>6 DEF WrittenInv, ParentInv, Connecting, RequestOnce
<1>7. CASE socks4_connect
  <2>1. CASE at = "socks4"
    <3>1. CASE at' = "socks4 reply" /\ UNCHANGED task /\ written' = Append(written, "request")
      <4>1. written' = <<"request">> /\ task'.type \in Socks4
        BY <2>1, <3>1, First DEF WrittenInv, ParentInv
      <4> QED
        BY <3>1, <4>1 DEF WrittenInv, ParentInv, Connecting, RequestOnce
    <3> QED
      BY <1>6, <1>7, <2>1, <3>1, WriteSteps DEF socks4_connect
  <2>2. CASE at = "socks4 reply"
    <3>1. CASE at' = "done" /\ UNCHANGED <<task, written>>
      <4>1. written' \in Dialog'
        BY <2>2, <3>1, SameTask, DialogOf DEF WrittenInv, ParentInv
      <4> QED
        BY <3>1, <4>1 DEF WrittenInv, ParentInv, Connecting, RequestOnce
    <3> QED
      BY <1>6, <1>7, <2>2, <3>1, Granted
  <2> QED
    BY <1>7, <2>1, <2>2 DEF socks4_connect
<1>8. CASE Greet
  <2>1. CASE at = "greet" /\ at' = "method" /\ UNCHANGED task /\ written' = Append(written, "greeting")
    <3>1. written' = <<"greeting">> /\ task'.type \in Socks5
      BY <2>1, First DEF WrittenInv, ParentInv
    <3> QED
      BY <2>1, <3>1 DEF WrittenInv, ParentInv, Connecting, RequestOnce
  <2> QED
    BY <1>6, <1>8, <2>1, WriteSteps DEF Greet
<1>9. CASE ReadMethod
  <2>1. CASE at = "method" /\ at' \in {"auth", "request"} /\ UNCHANGED <<task, written>>
    <3>1. written' = <<"greeting">> /\ written' \in Greeted /\ task'.type \in Socks5
      BY <2>1 DEF WrittenInv, ParentInv, Greeted
    <3> QED
      BY <2>1, <3>1 DEF WrittenInv, ParentInv, Connecting, RequestOnce
  <2> QED
    BY <1>6, <1>9, <2>1, ReadSteps DEF ReadMethod
<1>10. CASE Authenticate
  <2>1. CASE at = "auth"
    <3>1. CASE at' = "auth reply" /\ UNCHANGED task /\ written' = Append(written, "auth")
      <4>1. "greeting" \in Messages /\ "auth" \in Messages
        BY DEF Messages
      <4>2. written' = <<"greeting", "auth">> /\ task'.type \in Socks5
        BY <2>1, <3>1, <4>1, Second DEF WrittenInv, ParentInv
      <4> QED
        BY <3>1, <4>2 DEF WrittenInv, ParentInv, Connecting, RequestOnce
    <3> QED
      BY <1>6, <1>10, <2>1, <3>1, WriteSteps DEF Authenticate
  <2>2. CASE at = "auth reply"
    <3>1. CASE at' = "request" /\ UNCHANGED <<task, written>>
      <4>1. written' \in Greeted /\ task'.type \in Socks5
        BY <2>2, <3>1 DEF WrittenInv, ParentInv, Greeted
      <4> QED
        BY <3>1, <4>1 DEF WrittenInv, ParentInv, Connecting, RequestOnce
    <3> QED
      BY <1>6, <1>10, <2>2, <3>1, Accepted
  <2> QED
    BY <1>10, <2>1, <2>2 DEF Authenticate
<1>11. CASE SendConnect
  <2>1. CASE /\ at = "request" /\ at' = (IF Optimistic THEN "head" ELSE "reply")
             /\ UNCHANGED task /\ written' = Append(written, "request")
    <3>1. written' \in Asked /\ task'.type \in Socks5 /\ Optimistic' = Optimistic
      BY <2>1, Asking, SameTask DEF WrittenInv, ParentInv
    <3> QED
      BY <2>1, <3>1 DEF WrittenInv, ParentInv, Connecting, RequestOnce
  <2> QED
    BY <1>6, <1>11, <2>1, WriteSteps DEF SendConnect
<1>12. CASE SendHead
  <2>1. CASE /\ at = "head" /\ at' = (IF task.body THEN "body" ELSE "reply")
             /\ UNCHANGED task /\ written' = Append(written, "head")
    <3>1. PICK d \in Asked : written = d /\ Optimistic /\ task.way = "plain"
      BY <2>1 DEF WrittenInv, ParentInv, Optimistic
    <3>2. written' = d \o <<"head">> /\ task'.type \in Socks5 /\ Optimistic' /\ Payload' = Payload
      BY <2>1, <3>1, Adding, SameTask DEF WrittenInv, ParentInv, Dialogs
    <3>3. CASE task.body
      BY <2>1, <3>2, <3>3 DEF WrittenInv, ParentInv, Connecting, RequestOnce
    <3>4. CASE ~task.body
      <4>1. written' = d \o Payload' /\ at' = "reply"
        BY <2>1, <3>1, <3>2, <3>4 DEF Payload, Request
      <4> QED
        BY <3>2, <4>1 DEF WrittenInv, ParentInv, Connecting, RequestOnce
    <3> QED
      BY <3>3, <3>4
  <2> QED
    BY <1>6, <1>12, <2>1 DEF SendHead, Forgotten
<1>13. CASE SendBody
  <2>1. CASE at = "body" /\ at' = "reply" /\ UNCHANGED task /\ written' = Append(written, "body")
    <3>1. PICK d \in Asked : written = d \o <<"head">> /\ Optimistic /\ task.body /\ task.way = "plain"
      BY <2>1 DEF WrittenInv, ParentInv, Optimistic
    <3>2. written' = d \o <<"head", "body">> /\ task'.type \in Socks5 /\ Optimistic' /\ Payload' = Payload
      BY <2>1, <3>1, Adding, SameTask DEF WrittenInv, ParentInv, Dialogs
    <3>3. written' = d \o Payload'
      BY <3>1, <3>2 DEF Payload, Request
    <3> QED
      BY <2>1, <3>2, <3>3 DEF WrittenInv, ParentInv, Connecting, RequestOnce
  <2> QED
    BY <1>6, <1>13, <2>1 DEF SendBody, Forgotten
<1>14. CASE ReadReply \/ ReadAddress \/ ReadName
  <2>1. CASE /\ at \in {"reply", "address", "name"} /\ at' \in {"address", "name", "done"}
             /\ UNCHANGED <<task, written>>
    <3>1. PICK d \in Asked : written = d \/ (Optimistic /\ written = d \o Payload)
      BY <2>1 DEF WrittenInv, ParentInv
    <3>2. /\ task'.type \in Socks5 /\ d \in Dialog'
          /\ written' = d \/ (Optimistic' /\ written' = d \o Payload')
      BY <2>1, <3>1, SameTask, DialogOf DEF WrittenInv, ParentInv
    <3> QED
      BY <2>1, <3>2 DEF WrittenInv, ParentInv, Connecting, RequestOnce
  <2>2. CASE ReadReply
    <3>1. (CASE answer.kind = "ipv4" -> "done" [] answer.kind = "ipv6" -> "address" [] OTHER -> "name")
            \in {"address", "name", "done"}
      OBVIOUS
    <3> QED
      BY <1>6, <2>1, <2>2, <3>1, ReadSteps DEF ReadReply
  <2>3. CASE ReadAddress
    BY <1>6, <2>1, <2>3, ReadSteps DEF ReadAddress
  <2>4. CASE ReadName
    BY <1>6, <2>1, <2>4, ReadSteps DEF ReadName
  <2> QED
    BY <1>14, <2>2, <2>3, <2>4
<1>15. CASE error_response
  BY <1>15 DEF error_response, WrittenInv, ParentInv, Connecting, RequestOnce
<1>16. CASE send_http_request
  <2>1. at' \in {"dropped", "end"} /\ UNCHANGED task
    BY <1>16 DEF send_http_request, Page
  <2>2. CASE at' = "end" /\ page' = "none" /\ ~Unsent'
    <3>1. written' = written \o ToSend
      BY <1>16, <2>2 DEF send_http_request, Page
    <3>2. PICK d \in Dialog :
            \/ task.way # "inspected" /\ (written = d \/ (Optimistic /\ written = d \o Payload))
            \/ task.way = "inspected" /\ written = IF task.parent THEN d \o <<"head">> ELSE d
      BY <1>16 DEF send_http_request, WrittenInv, ParentInv
    <3>3. written' = d \o Payload' /\ d \in Dialog'
      BY <2>1, <2>2, <3>1, <3>2, DialogOf, Sending, SameTask
    <3> QED
      BY <2>2, <3>3 DEF WrittenInv, ParentInv, Connecting, RequestOnce
  <2> QED
    BY <2>1, <2>2 DEF WrittenInv, ParentInv, Connecting, RequestOnce
<1>17. CASE UNCHANGED vars
  <2>1. UNCHANGED <<task, at, written, page>>
    BY <1>17 DEF vars
  <2>2. Dialog' = Dialog /\ Payload' = Payload /\ Optimistic' = Optimistic /\ Unsent' = Unsent
    BY <2>1, SameTask
  <2>3. ParentInv'
    BY <2>1, <2>2 DEF WrittenInv, ParentInv
  <2>4. RequestOnce'
    BY <2>1, <2>2 DEF WrittenInv, RequestOnce
  <2> QED
    BY <2>1, <2>2, <2>3, <2>4, ZenonT(60) DEF WrittenInv
<1>18. CASE AskParent
  <2>1. CASE at' = "dropped"
    BY <2>1 DEF WrittenInv, ParentInv, Connecting, RequestOnce
  <2>2. CASE at' # "dropped"
    <3>1. /\ at = "done" /\ at' = "parent" /\ UNCHANGED task /\ written' = Append(written, "head")
          /\ task.way = "inspected" /\ task.parent
      BY <1>18, <2>2 DEF AskParent
    <3>2. PICK d \in Dialog : written = d
      BY <3>1 DEF WrittenInv, ParentInv, Optimistic
    <3>3. d \in Dialog' /\ written' = d \o <<"head">>
      BY <3>1, <3>2, SameTask, DialogOf, Adding
    <3> QED
      BY <3>1, <3>3 DEF WrittenInv, ParentInv, Connecting, RequestOnce
  <2> QED
    BY <2>1, <2>2
<1>19. CASE ReadParent
  <2>1. /\ at = "parent" /\ UNCHANGED <<task, written>>
        /\ at' = "tls" \/ (at' = "end" /\ page' # "none")
    BY <1>19 DEF ReadParent, Page
  <2>2. \E d \in Dialog' : written' = d \o <<"head">>
    BY <2>1, SameTask DEF WrittenInv, ParentInv
  <2> QED
    BY <2>1, <2>2 DEF WrittenInv, ParentInv, Connecting, RequestOnce
<1>20. CASE create_server_ssl_connection
  <2>1. /\ at = "tls" \/ (at = "done" /\ task.way = "inspected" /\ ~task.parent)
        /\ UNCHANGED <<task, written>>
        /\ at' = "send" \/ (at' = "end" /\ page' # "none")
    BY <1>20 DEF create_server_ssl_connection, Page
  <2>2. task.way = "inspected" /\ \E d \in Dialog' : written' = IF task.parent THEN d \o <<"head">> ELSE d
    BY <2>1, SameTask DEF WrittenInv, ParentInv, Optimistic
  <2> QED
    BY <2>1, <2>2 DEF WrittenInv, ParentInv, Connecting, RequestOnce
<1> QED
  BY <1>1, <1>2, <1>3, <1>4, <1>5, <1>7, <1>8, <1>9, <1>10, <1>11, <1>12, <1>13, <1>14,
     <1>15, <1>16, <1>17, <1>18, <1>19, <1>20 DEF Next, socks5_connect

\* However it is forwarded, through a tunnel, inspected or neither, and whether or not it went
\* out before the gateway had answered: the server gets the request once, head before body,
\* behind the dialog and the CONNECT for a parent.
THEOREM RequestTheorem == Spec => []RequestOnce
<1>1. Init => WrittenInv
  BY DEF Init, WrittenInv, ParentInv, RequestOnce, Connecting
<1>2. WrittenInv => RequestOnce
  BY DEF WrittenInv
<1> QED
  BY <1>1, <1>2, WrittenStep, PTL DEF Spec
=============================================================================
