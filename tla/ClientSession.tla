--------------------------- MODULE ClientSession ---------------------------
(***************************************************************************)
(* One client connection in serve() and chat() (jcc.c): requests are read  *)
(* from a stream that the client fills as it likes, their bodies are       *)
(* recognised, buffered or passed on, the server connection is opened or   *)
(* kept, and the thread decides whether another request may follow.  The   *)
(* same for the requests of an inspected TLS session (continue_https_chat).*)
(*                                                                         *)
(* The stream is made of units <<r, p>>: part p of request r.  Parts 1 and *)
(* 2 are the request line (which may arrive in two reads), part 3 is the   *)
(* rest of the header, the others are the body; part 0 stands for the      *)
(* whole body after the client-body filters.                               *)
(***************************************************************************)
EXTENDS Integers, Sequences, SequencesExt

CONSTANTS
  Configurations, \* what differs between connections, see ConfigurationType
  MaxRequests     \* bound: requests on the connection

KindType == [method: {"GET", "POST"}, framing: {"none", "length", "chunked"}, body: Nat,
             close: BOOLEAN]

\* tls: a session that is inspected, after its CONNECT request; tolerate and sharing:
\* tolerate-pipelining, connection-sharing; filters: client-body filters or taggers
\* apply; optimistic: forward-socks5t; early: servers may answer before they got the
\* body; kinds: the requests the client sends; pipelined: those behind which it sends
\* the next one without waiting for the answer.
ConfigurationType ==
  [tls: BOOLEAN, tolerate: BOOLEAN, sharing: BOOLEAN, filters: BOOLEAN, optimistic: BOOLEAN,
   early: BOOLEAN, kinds: SUBSET KindType, pipelined: SUBSET KindType]

ASSUME SessionAssumption ==
  /\ Configurations \subseteq ConfigurationType /\ MaxRequests \in Nat
  /\ \A c \in Configurations : \A k \in c.kinds :
       /\ k.framing = "none" <=> k.body = 0
       /\ c.tls => k.framing # "chunked"

VARIABLES
  conf,      \* the configuration of this connection
  reqs,      \* the kinds of the requests the client has begun
  todo,      \* what it still has to send of the last one
  client,    \* "open", or "closed" by the client
  wire,      \* sent, but not yet read by the thread
  pc,        \* where serve() is
  iob,       \* csp->client_iob from cur to eod
  req,       \* the request that is being served, 0 before its line was parsed
  expected,  \* csp->expected_client_content_length
  flags,     \* csp->flags
  sfd,       \* the server connection: "none", "open", or "dead" when closed by the server
  up,        \* what was written to it
  answered,  \* requests that were answered completely
  abandoned, \* those whose answer did not wait for their body, see Abandon
  stray,     \* the request whose body was taken for a request line, 0 if none
  pooled     \* what was written to a server connection that was left to others

clientVars  == <<reqs, todo, client>>
requestVars == <<iob, req, expected>>
serverVars  == <<sfd, up>>
historyVars == <<answered, abandoned, stray, pooled>>
vars == <<conf, clientVars, wire, pc, requestVars, flags, serverVars, historyVars>>

Flags == {"reused", "waiting", "complete", "tainted", "clientKA", "serverKA", "lengthSet", "crunched"}

Kind        == reqs[req]
UnitsOf(r, k) == [p \in 1..(3 + k.body) |-> <<r, p>>]
Body(r)     == reqs[r].body
Least(m, n) == IF m < n THEN m ELSE n
From(s, n)  == SubSeq(s, n, Len(s))

\* The unit ends its request: its header without a body, the last of its body, or the
\* whole body filtered.
Ends(u) == u[2] = 3 + Body(u[1]) \/ u[2] = 0
Whole   == up # <<>> /\ Last(up)[1] = req /\ Ends(Last(up))

Init ==
  /\ conf \in Configurations
  /\ reqs = <<>> /\ todo = <<>> /\ client = "open" /\ wire = <<>>
  /\ pc = "line" /\ iob = <<>> /\ req = 0 /\ expected = 0 /\ flags = {}
  /\ sfd = "none" /\ up = <<>>
  /\ answered = {} /\ abandoned = {} /\ stray = 0 /\ pooled = <<>>

-----------------------------------------------------------------------------
(* The client.                                                             *)

ClientStarts(k) ==
  /\ client = "open" /\ todo = <<>> /\ Len(reqs) < MaxRequests
  /\ \A r \in DOMAIN reqs : r \in answered \/ reqs[r] \in conf.pipelined
  /\ reqs' = Append(reqs, k)
  /\ todo' = UnitsOf(Len(reqs) + 1, k)
  /\ UNCHANGED <<conf, client, wire, pc, requestVars, flags, serverVars, historyVars>>

ClientSends ==
  \E n \in 1..Len(todo) :
    /\ wire' = wire \o SubSeq(todo, 1, n)
    /\ todo' = From(todo, n + 1)
    /\ UNCHANGED <<conf, reqs, client, pc, requestVars, flags, serverVars, historyVars>>

ClientCloses ==
  /\ client = "open"
  /\ client' = "closed" /\ todo' = <<>>
  /\ UNCHANGED <<conf, reqs, wire, pc, requestVars, flags, serverVars, historyVars>>

Client == (\E k \in conf.kinds : ClientStarts(k)) \/ ClientSends \/ ClientCloses

-----------------------------------------------------------------------------
(* Reading a request.  Data is available when something is on the wire; a  *)
(* timeout and a client that hung up end a read alike.                     *)

NoData == wire = <<>>

\* A complete line.  What is no request line is complete as soon as anything is there.
LineIn(b) == b # <<>> /\ (b[1][2] = 1 => Len(b) > 1)

Chunked == Kind.framing = "chunked"

\* read_socket() and add_to_iob().
ReadOn ==
  /\ wire # <<>>
  /\ iob' = iob \o wire /\ wire' = <<>>
  /\ UNCHANGED <<pc, req, flags, stray>>

\* chat() or continue_https_chat() returns; serve() has not asked for anything else.
Return == pc' = "done"

\* parse_http_request(): what does not begin with a request line is refused, and what
\* does may be: ftp://, an invalid line.
ParseLine(b) ==
  LET u == b[1] IN
  IF u[2] # 1 THEN stray' = u[1] /\ iob' = Tail(b) /\ req' = req /\ Return
  ELSE /\ stray' = stray /\ iob' = From(b, 3) /\ req' = u[1]
       /\ pc' \in {"headers", "done"}

\* get_request_line(): what waits is looked at first, but only if the flag says so.
GetRequestLine ==
  /\ pc = "line" /\ ~conf.tls
  /\ IF "waiting" \in flags /\ LineIn(iob)
     THEN flags' = flags \ {"waiting"} /\ wire' = wire /\ ParseLine(iob)
     ELSE \/ /\ wire # <<>>
             /\ flags' = flags \ {"waiting"} /\ wire' = <<>>
             /\ IF LineIn(iob \o wire) THEN ParseLine(iob \o wire)
                ELSE iob' = iob \o wire /\ UNCHANGED <<pc, req, stray>>
          \/ /\ NoData
             /\ flags' = (flags \ {"waiting"}) \cup {"tainted"} /\ Return
             /\ UNCHANGED <<iob, req, wire, stray>>
  /\ UNCHANGED <<conf, clientVars, expected, serverVars, answered, abandoned, pooled>>

\* receive_client_request(): the rest of the header.  The request may be refused for
\* want of a destination.
GetHeaders ==
  /\ pc = "headers"
  /\ \/ /\ iob # <<>>
        /\ iob' = Tail(iob)
        /\ pc' \in {IF Chunked THEN "chunked" ELSE "parse", "done"}
        /\ UNCHANGED <<req, wire, flags, stray>>
     \/ iob = <<>> /\ ReadOn
     \/ iob = <<>> /\ NoData /\ Return /\ UNCHANGED <<iob, req, wire, flags, stray>>
  /\ UNCHANGED <<conf, clientVars, expected, serverVars, answered, abandoned, pooled>>

\* receive_chunked_client_request_body(), chunked_body_is_complete().
GetChunkedBody ==
  LET complete == Contains(iob, <<req, 3 + Kind.body>>) IN
  /\ pc = "chunked"
  /\ \/ complete /\ expected' = Kind.body /\ pc' = "parse" /\ UNCHANGED <<iob, req, wire, flags, stray>>
     \/ ~complete /\ ReadOn /\ UNCHANGED expected
     \/ ~complete /\ NoData /\ Return /\ UNCHANGED <<requestVars, wire, flags, stray>>
  /\ UNCHANGED <<conf, clientVars, serverVars, answered, abandoned, pooled>>

\* process_encrypted_request_headers(): reads at least once, then until the header is
\* complete; sed_https() learns the length of the body.
GetEncryptedHeaders ==
  LET b == iob \o wire
      complete == \E i \in DOMAIN b : b[i][2] = 3
  IN
  /\ pc = "line" /\ conf.tls
  /\ flags' = flags \cup {"clientKA"}
  /\ \/ /\ wire # <<>> /\ wire' = <<>>
        /\ \/ ~complete /\ iob' = b /\ UNCHANGED <<pc, req, expected, stray>>
           \/ /\ complete
              /\ IF b[1][2] # 1
                 THEN stray' = b[1][1] /\ iob' = Tail(b) /\ Return /\ UNCHANGED <<req, expected>>
                 ELSE /\ iob' = From(b, 4) /\ req' = b[1][1] /\ expected' = Body(b[1][1])
                      /\ stray' = stray /\ pc' \in {"crunch", "done"}
     \/ NoData /\ Return /\ UNCHANGED <<requestVars, wire, stray>>
  /\ UNCHANGED <<conf, clientVars, serverVars, answered, abandoned, pooled>>

\* verify_request_length() with e expected bytes and the buffer b: what is behind the
\* body is thrown away, what is behind a request without one waits or is thrown away.
Verified(e, b, get) ==
  LET whole == e # 0 /\ b # <<>> /\ e <= Len(b)
      kept  == IF whole THEN SubSeq(b, 1, e) ELSE b
      left  == IF whole THEN 0 ELSE IF e = 0 THEN 0 ELSE e - Len(b)
      more  == ~whole /\ (kept # <<>> \/ left # 0)
  IN  [expected |-> left,
       iob      |-> IF more /\ get /\ ~conf.tolerate THEN <<>> ELSE kept,
       flags    |-> (IF whole /\ e < Len(b) THEN {"tainted"} ELSE {})
                      \cup (IF more /\ ~get THEN {} ELSE {"complete"})
                      \cup (IF more /\ get THEN {IF conf.tolerate THEN "waiting" ELSE "tainted"} ELSE {})]

\* parse_client_request().  sed() runs client_save_content_length(), which sets the
\* expected length to that of the header again.
ParseRequest ==
  LET v == Verified(IF Kind.framing = "length" THEN Kind.body ELSE expected, iob, Kind.method = "GET") IN
  /\ pc = "parse"
  /\ iob' = v.iob
  /\ expected' = IF Kind.framing = "length" THEN Kind.body ELSE v.expected
  /\ flags' = flags \cup v.flags \cup (IF Kind.close THEN {} ELSE {"clientKA"})
  /\ pc' \in {"crunch", "done"}
  /\ UNCHANGED <<conf, clientVars, req, wire, serverVars, historyVars>>

-----------------------------------------------------------------------------
(* Crunching, buffering, connecting, sending.                              *)

Answer(fs) == answered' = answered \cup {req} /\ flags' = flags \cup fs

\* The request is answered although its body was not dealt with.
Abandon == abandoned' = abandoned \cup {req}

\* crunch_response_triggered(), which leaves the body where it is; a CGI page discards
\* what is buffered.  That serve() asks for the expected length covers a body with a
\* Content-Length; the length of a chunked one was reduced to 0 before.
Crunch ==
  /\ pc = "crunch" /\ Return
  /\ Answer({"crunched", "lengthSet"})
  /\ \/ iob' = iob /\ (IF expected = 0 /\ Chunked THEN Abandon ELSE UNCHANGED abandoned)
     \/ iob' = (IF Kind.method = "GET" THEN iob ELSE <<>>) /\ UNCHANGED abandoned
  /\ UNCHANGED <<conf, clientVars, wire, req, expected, serverVars, stray, pooled>>

\* continue_https_chat(): no server connection was opened for this session.
NoServerYet == conf.tls /\ "reused" \in flags /\ sfd = "none"

DropClient ==
  /\ pc = "crunch" /\ NoServerYet
  /\ flags' = flags \ {"clientKA"} /\ Return
  /\ UNCHANGED <<conf, clientVars, wire, requestVars, serverVars, historyVars>>

\* Unless can_buffer_request_body() says no.
DontCrunch ==
  /\ pc = "crunch" /\ ~NoServerYet
  /\ pc' \in (IF expected # 0 /\ conf.filters THEN {"buffer", "connect"} ELSE {"connect"})
  /\ UNCHANGED <<conf, clientVars, wire, requestVars, flags, serverVars, historyVars>>

\* read_http_request_body(), read_https_request_body().
GetBody ==
  LET missing == expected - Len(iob)
      n == Least(missing, Len(wire))
  IN
  /\ pc = "buffer" /\ missing > 0
  /\ IF wire # <<>>
     THEN iob' = iob \o SubSeq(wire, 1, n) /\ wire' = From(wire, n + 1) /\ pc' = pc
     ELSE Return /\ UNCHANGED <<iob, wire>>
  /\ UNCHANGED <<conf, clientVars, req, expected, flags, serverVars, historyVars>>

\* execute_client_body_filters(), and a tag of execute_client_body_taggers() that
\* triggers a crunch.
FilterBody ==
  /\ pc = "buffer" /\ expected <= Len(iob)
  /\ \/ iob' = <<<<req, 0>>>> /\ expected' = 0 /\ pc' = "connect" /\ UNCHANGED <<flags, answered>>
     \/ Return /\ Answer({"crunched", "lengthSet"}) /\ UNCHANGED <<iob, expected>>
  /\ UNCHANGED <<conf, clientVars, wire, req, serverVars, abandoned, stray, pooled>>

Header == <<<<req, 3>>>>

Optimistic == conf.optimistic /\ "complete" \in flags

\* Mutant of OptimisticBody: as before 3.0.27, only the header is sent.
OptimisticNothing == <<>>
OptimisticBody == IF expected # 0 THEN iob ELSE <<>>

\* chat(): the connection at hand serves the same destination.
Reuse ==
  /\ pc = "connect" /\ sfd = "open"
  /\ pc' = "send"
  /\ UNCHANGED <<conf, clientVars, wire, requestVars, flags, serverVars, historyVars>>

\* The connection at hand is left to others, or closed.
LeaveServer == pooled' = IF conf.sharing /\ ~conf.tls /\ sfd = "open" THEN up ELSE pooled

\* forwarded_connect().  socks5_connect() sends the request at once if it was read
\* completely; send_http_request() is then not called.
Connect ==
  /\ pc = "connect" /\ ~(conf.tls /\ "reused" \in flags)
  /\ LeaveServer
  /\ sfd' = "open"
  /\ IF Optimistic
     THEN /\ up' = Header \o OptimisticBody /\ pc' = "established"
          /\ iob' = IF expected # 0 THEN <<>> ELSE iob
     ELSE up' = <<>> /\ iob' = iob /\ pc' = "send"
  /\ UNCHANGED <<conf, clientVars, wire, req, expected, flags, answered, abandoned, stray>>

\* "For now we err on the safe side and throw all the following requests under the bus."
\* continue_https_chat() drops a client whose server connection does not match.
ConnectFails ==
  /\ pc = "connect"
  /\ pc' = "closed" /\ sfd' = "none"
  /\ LeaveServer
  /\ UNCHANGED <<conf, clientVars, wire, requestVars, flags, up, answered, abandoned, stray>>

\* send_http_request(): "Filtered data is not sent if there's a pipelined request?"
Sends == "waiting" \notin flags

Send ==
  /\ pc = "send" /\ ~conf.tls
  /\ up' = up \o Header \o (IF Sends THEN iob ELSE <<>>)
  /\ iob' = IF Sends THEN <<>> ELSE iob
  /\ pc' = "established"
  /\ UNCHANGED <<conf, clientVars, wire, req, expected, flags, sfd, historyVars>>

\* chat(): the client is told that connecting failed, but it may go on.
SendFails ==
  /\ pc = "send" /\ ~conf.tls /\ Return
  /\ sfd' = "dead"
  /\ Answer({"lengthSet"}) /\ Abandon
  /\ UNCHANGED <<conf, clientVars, wire, requestVars, up, stray, pooled>>

\* send_https_request(): what is buffered, then the rest of the body.
SendEncrypted ==
  LET left == IF expected < Len(iob) THEN 0 ELSE expected - Len(iob) IN
  /\ pc = "send" /\ conf.tls
  /\ \/ /\ up' = up \o Header \o iob
        /\ iob' = <<>> /\ expected' = left
        /\ pc' = IF left # 0 THEN "relay" ELSE "established"
        /\ sfd' = sfd
     \/ pc' = "closed" /\ sfd' = "none" /\ UNCHANGED <<iob, expected, up>>
  /\ UNCHANGED <<conf, clientVars, wire, req, flags, historyVars>>

ClientGone == client = "closed" /\ NoData

\* Mutant of Relay: the end of the client's data is not noticed.
RelayUntilDone ==
  LET n == Least(expected, Len(wire)) IN
  /\ pc = "relay" /\ wire # <<>>
  /\ up' = up \o SubSeq(wire, 1, n) /\ wire' = From(wire, n + 1)
  /\ expected' = expected - n
  /\ pc' = IF expected = n THEN "established" ELSE pc
  /\ UNCHANGED <<conf, clientVars, iob, req, flags, sfd, historyVars>>

\* receive_and_send_encrypted_post_data(): without a timeout.
Relay ==
  LET n == Least(expected, Len(wire)) IN
  /\ pc = "relay"
  /\ \/ /\ wire # <<>>
        /\ up' = up \o SubSeq(wire, 1, n) /\ wire' = From(wire, n + 1)
        /\ expected' = expected - n
        /\ pc' = IF expected = n THEN "established" ELSE pc
     \/ ClientGone /\ pc' = "established" /\ UNCHANGED <<up, wire, expected>>
  /\ UNCHANGED <<conf, clientVars, iob, req, flags, sfd, historyVars>>

-----------------------------------------------------------------------------
(* handle_established_connection(): see ServerResponse for the response.   *)

\* Mutant of Watched: CSP_FLAG_CLIENT_REQUEST_COMPLETELY_READ is not looked at.
WatchedAlways == "waiting" \notin flags

\* The client's socket is watched until it has sent its request.
Watched == "complete" \notin flags /\ "waiting" \notin flags

\* The rest of the body.  A TLS client has nothing to say here: "Breaking with TLS/SSL."
PassBody ==
  LET n == IF expected # 0 THEN Least(expected, Len(wire)) ELSE Len(wire) IN
  /\ pc = "established" /\ ~conf.tls /\ Watched /\ wire # <<>>
  /\ wire' = From(wire, n + 1)
  /\ expected' = IF expected # 0 THEN expected - n ELSE 0
  /\ \/ /\ up' = up \o SubSeq(wire, 1, n)
        /\ flags' = IF expected # 0 /\ expected = n THEN flags \cup {"complete"} ELSE flags
        /\ pc' = pc
     \/ flags' = flags \cup {"tainted"} /\ Return /\ up' = up
  /\ UNCHANGED <<conf, clientVars, iob, req, sfd, historyVars>>

\* "The client went fishing."  What has been seen of the response decides about lengthSet.
ClientHangsUp ==
  /\ pc = "established" /\ Return
  /\ \/ ClientGone /\ ~conf.tls /\ flags' = flags \cup {"tainted"}
     \/ /\ ClientGone \/ wire # <<>>
        /\ conf.tls
        /\ \E S \in SUBSET {"tainted", "lengthSet", "serverKA"} : flags' = flags \cup S
  /\ UNCHANGED <<conf, clientVars, wire, requestVars, serverVars, historyVars>>

\* The server is done with a request that it may have seen a part of only.
Neglect == IF Whole THEN UNCHANGED abandoned ELSE Abandon

\* The response is complete.  How it ended and what it says about the connection is up
\* to the server.
ServerAnswers ==
  /\ pc = "established" /\ sfd = "open" /\ Return
  /\ Whole \/ conf.early
  /\ Neglect
  /\ \E S \in SUBSET {"lengthSet", "serverKA"} : Answer(S)
  /\ UNCHANGED <<conf, clientVars, wire, requestVars, serverVars, stray, pooled>>

\* crunchers_light: a tag of the response.
ServerCrunched ==
  /\ pc = "established" /\ sfd = "open" /\ Whole /\ Return
  /\ Answer({"crunched", "tainted", "lengthSet"})
  /\ UNCHANGED <<conf, clientVars, wire, requestVars, serverVars, abandoned, stray, pooled>>

\* The server closes amid the response: the connection is not always tainted.
ServerCloses ==
  /\ pc = "established" /\ Return
  /\ sfd' = "dead"
  /\ Neglect
  /\ \E S \in SUBSET {"lengthSet", "tainted"} : flags' = flags \cup S
  /\ UNCHANGED <<conf, clientVars, wire, requestVars, up, answered, stray, pooled>>

\* socket-timeout: nothing came from either side.
Timeout ==
  /\ pc = "established" /\ Return
  /\ flags' = flags \cup {"tainted"}
  /\ UNCHANGED <<conf, clientVars, wire, requestVars, serverVars, historyVars>>

-----------------------------------------------------------------------------
(* serve(): what comes after the request.                                  *)

\* Mutant of Unread: as before 3.0.24, a crunched request's body is forgotten.
UnreadForgotten == FALSE

\* "Tainting client socket."
Unread == {"clientKA", "crunched"} \subseteq flags /\ expected # 0

Tainted == "tainted" \in flags \/ Unread

CloseServer ==
  /\ "crunched" \notin flags /\ sfd # "none"
  /\ "serverKA" \notin flags \/ Tainted \/ sfd = "dead"

ContinueChatting ==
  /\ ~Tainted /\ {"clientKA", "lengthSet"} \subseteq flags
  /\ ~(CloseServer /\ conf.tls)

\* prepare_csp_for_next_request().
Prepare(newSfd) ==
  /\ pc' = "line" /\ req' = 0 /\ expected' = 0
  /\ flags' = {"reused"} \cup (IF iob # <<>> THEN {"waiting"} ELSE {})
  /\ sfd' = newSfd

\* The configuration may have changed: then there is no next request.
Decide ==
  LET newSfd == IF CloseServer THEN "none" ELSE sfd IN
  /\ pc = "done"
  /\ \/ ContinueChatting /\ "waiting" \in flags /\ Prepare(newSfd)
     \/ ContinueChatting /\ "waiting" \notin flags /\ pc' = "idle" /\ sfd' = newSfd
        /\ UNCHANGED <<req, expected, flags>>
     \/ pc' = "closed" /\ sfd' = "none" /\ UNCHANGED <<req, expected, flags>>
  /\ UNCHANGED <<conf, clientVars, wire, iob, up, historyVars>>

\* "Waiting for the next client request", for the keep-alive-timeout.
NextRequest ==
  /\ pc = "idle" /\ wire # <<>>
  /\ Prepare(sfd)
  /\ UNCHANGED <<conf, clientVars, wire, iob, up, historyVars>>

NoNextRequest ==
  /\ pc = "idle" /\ NoData
  /\ pc' = "closed" /\ sfd' = "none"
  /\ LeaveServer
  /\ UNCHANGED <<conf, clientVars, wire, requestVars, flags, up, answered, abandoned, stray>>

-----------------------------------------------------------------------------

Read  == GetRequestLine \/ GetHeaders \/ GetChunkedBody \/ GetEncryptedHeaders \/ ParseRequest
Route == Crunch \/ DropClient \/ DontCrunch \/ GetBody \/ FilterBody
Open  == Reuse \/ Connect \/ ConnectFails \/ Send \/ SendFails \/ SendEncrypted \/ Relay
Talk  == PassBody \/ ClientHangsUp \/ ServerAnswers \/ ServerCrunched \/ ServerCloses \/ Timeout
Go    == Decide \/ NextRequest \/ NoNextRequest

Thread == Read \/ Route \/ Open \/ Talk \/ Go

Next == Client \/ Thread

\* Every wait of the thread but Relay's has a timeout.  Nobody else owes a step.
Spec == Init /\ [][Next]_vars /\ WF_vars(Thread)

-----------------------------------------------------------------------------
(* What a connection promises.                                             *)

Units == (DOMAIN reqs) \X Nat

\* Type invariant.
TypeOK ==
  /\ conf \in Configurations /\ reqs \in Seq(conf.kinds) /\ Len(reqs) <= MaxRequests
  /\ {todo, wire, iob, up, pooled} \subseteq Seq(Units)
  /\ client \in {"open", "closed"} /\ sfd \in {"none", "open", "dead"}
  /\ pc \in {"line", "headers", "chunked", "parse", "crunch", "buffer", "connect", "send",
             "relay", "established", "done", "idle", "closed"}
  /\ req \in {0} \cup DOMAIN reqs /\ stray \in {0} \cup DOMAIN reqs
  /\ expected \in Nat /\ flags \subseteq Flags
  /\ {answered, abandoned} \subseteq SUBSET (DOMAIN reqs)

\* v may come behind u on a server connection.
Follows(u, v) ==
  \/ v[1] = u[1] /\ (v[2] = u[2] + 1 \/ (u[2] = 3 /\ v[2] = 0))
  \/ v[1] > u[1] /\ v[2] = 3 /\ (Ends(u) \/ u[1] \in abandoned)

\* A server gets whole requests in the order they were sent: never a piece of a body
\* without its header, of one request amid another, or of a pipelined request as the
\* body of the one before it.  The same for what is left to other connections.
UpstreamInOrder ==
  /\ up # <<>> => up[1][2] = 3 /\ \A i \in 1..Len(up) - 1 : Follows(up[i], up[i + 1])
  /\ pooled # <<>> => Ends(Last(pooled)) \/ Last(pooled)[1] \in abandoned

\* Nothing but a request is taken for a request: the rest of a body may be found where
\* a request line should be only if its request was answered without it.
StrayOnlyIfAbandoned == stray # 0 => stray \in abandoned

\* The client's socket is not watched once its request counts as read completely: then
\* nothing of the request may be left behind, or the server waits for it in vain.
NothingWithheld == pc = "established" /\ "complete" \in flags => Whole

\* The thread never waits for a client that has said everything: what it has buffered
\* is looked at before it waits for more.
WaitsOnlyWhenDrained ==
  /\ pc = "idle" => iob = <<>> \/ abandoned # {}
  /\ pc = "line" /\ ~conf.tls /\ LineIn(iob) => "waiting" \in flags

\* Nothing that was received stays behind while server, client and Privoxy wait for each
\* other.
NothingStuck == NothingWithheld /\ WaitsOnlyWhenDrained

\* A client that is gone does not keep a thread for ever, although the body of a POST
\* on an inspected connection is read without a timeout.
ConnectionEnds == client = "closed" ~> pc = "closed"

\* Where a request ends can be told without what the client sends behind it: a GET has no
\* body, and the client waits for the answer behind a POST whose body is not chunked and
\* in an inspected session.
Separable(c) ==
  /\ \A k \in c.kinds : k.method = "GET" /\ ~c.tls => k.framing = "none"
  /\ \A k \in c.pipelined : ~c.tls /\ (k.method = "GET" \/ k.framing = "chunked")

\* forward-socks5t is not used for what it cannot send: filtered and chunked bodies.
SentWhole(c) == c.optimistic => ~c.filters /\ \A k \in c.kinds : k.framing # "chunked"

(* What the project claims of it, and what does not hold.                  *)

\* "Client requests with body that can't be delivered no longer cause pipelined
\* requests behind them to be rejected as invalid": no body is parsed as a request.
BodiesAreNeverRequests == stray = 0
=============================================================================
