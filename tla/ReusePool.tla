------------------------------ MODULE ReusePool ------------------------------
(***************************************************************************)
(* Server connections kept alive and shared between clients: the slots of  *)
(* reusable_connection[] in gateway.c and the path of a server connection  *)
(* through serve() and chat() in jcc.c, many threads at once.              *)
(*                                                                         *)
(* Every access to the slots happens under connection_reuse_mutex, so each *)
(* locked region is one step; everything between two regions interleaves.  *)
(* Sockets are file descriptor numbers: the system hands out a closed one  *)
(* again, to any thread.  Time is abstracted: a timeout may have passed    *)
(* whenever the code looks.                                                *)
(***************************************************************************)
EXTENDS Naturals, FiniteSets

CONSTANTS
  Threads,          \* threads that serve() one client each
  Slots,            \* indices of reusable_connection[], 1..MAX_REUSABLE_CONNECTIONS
  Sockets,          \* file descriptors
  Dests,            \* host, port and forwarding settings of a request
  NoSocket, NoDest, \* JB_INVALID_SOCKET and no destination
  HttpsInspection,  \* FEATURE_HTTPS_INSPECTION was built in
  MixedClients      \* clients send CONNECT after plain requests on one connection

ASSUME PoolAssumption ==
  /\ NoSocket \notin Sockets /\ NoDest \notin Dests
  /\ IsFiniteSet(Slots) /\ IsFiniteSet(Sockets) /\ {HttpsInspection, MixedClients} \subseteq BOOLEAN

VARIABLES
  pool,     \* reusable_connection[]: socket, destination, in_use
  monitor,  \* monitor_thread_running
  at,       \* where each thread is
  conn,     \* csp->server_connection: socket, destination, ssl_with_server_is_opened
  req,      \* the request at hand: destination, server_ssl
  flags,    \* the csp->flags that decide about the server connection
  sharing,  \* connection-sharing in the configuration of the thread's client
  open,     \* open server sockets
  peer,     \* what an open socket is really connected to
  dead,     \* open sockets whose server has closed the connection
  pending   \* sockets with a request whose response was not read to its end

poolVars == <<pool, monitor>>
cspVars  == <<at, conn, req, flags, sharing>>
osVars   == <<open, peer, dead, pending>>
vars     == <<poolVars, cspVars, osVars>>

\* CSP_FLAG_CRUNCHED, _SERVER_SOCKET_TAINTED, _SERVER_CONNECTION_KEEP_ALIVE and
\* _CLIENT_CONNECTION_KEEP_ALIVE.  The last two count only for a response that tells
\* its length (_SERVER_CONTENT_LENGTH_SET or _CHUNKED): serve() demands it for the
\* client, and another response ends when the server closes the connection.
FlagsType == [crunched: BOOLEAN, tainted: BOOLEAN, serverKA: BOOLEAN, clientKA: BOOLEAN]
NoFlags == [crunched |-> FALSE, tainted |-> FALSE, serverKA |-> FALSE, clientKA |-> FALSE]
NoConn  == [socket |-> NoSocket, dest |-> NoDest, tls |-> FALSE]
NoReq   == [dest |-> NoDest, ssl |-> FALSE]
EmptySlot == [socket |-> NoSocket, dest |-> NoDest, inUse |-> FALSE]

IdleSlot(s) == ~pool[s].inUse /\ pool[s].socket # NoSocket
SlotsOf(x)  == {s \in Slots : pool[s].socket = x}

\* Mutant of Matches: only looks whether there is a connection.
AnyIdle(c, d) == c.socket # NoSocket
\* connection_destination_matches()
Matches(c, d) == c.dest = d

Go(t, place)      == at' = [at EXCEPT ![t] = place]
SetConn(t, x)     ==
  conn' = [conn EXCEPT ![t] = [socket |-> x, dest |-> req[t].dest, tls |-> req[t].ssl]]
\* Mutant of ClearConn: the destination stays behind.
\* mark_connection_closed(&csp->server_connection)
ClearConn(t)      == conn' = [conn EXCEPT ![t] = NoConn]

CloseSockets(X) ==
  /\ open' = open \ X /\ dead' = dead \ X /\ pending' = pending \ X
  /\ peer' = [x \in Sockets |-> IF x \in X THEN NoDest ELSE peer[x]]

Init ==
  /\ pool = [s \in Slots |-> EmptySlot]
  /\ monitor = FALSE
  /\ at = [t \in Threads |-> "off"]
  /\ conn = [t \in Threads |-> NoConn]
  /\ req = [t \in Threads |-> NoReq]
  /\ flags = [t \in Threads |-> NoFlags]
  /\ sharing = [t \in Threads |-> FALSE]
  /\ open = {} /\ dead = {} /\ pending = {}
  /\ peer = [x \in Sockets |-> NoDest]

-----------------------------------------------------------------------------
(* gateway.c: what a thread does to the slots while it holds the mutex.    *)

\* forget_connection(): after in_use was asserted, the slot is emptied.
Forget(x) ==
  pool' = [s \in Slots |-> IF s \in SlotsOf(x) THEN EmptySlot ELSE pool[s]]

\* mark_connection_unused(): TRUE when a slot lists the socket.
MarkUnused(x) ==
  /\ SlotsOf(x) # {}
  /\ pool' = [s \in Slots |-> IF s \in SlotsOf(x) THEN [pool[s] EXCEPT !.inUse = FALSE]
                                                  ELSE pool[s]]

\* The rest of remember_connection(): the first free slot, or no room.  A
\* timeout may have passed for any idle connection, it is certain for dead ones.
FreeSlots == {s \in Slots : pool[s].socket = NoSocket}

StoreAsInUse(s, c) ==                                     \* mutant of StoreIn
  pool' = [pool EXCEPT ![s] = [socket |-> c.socket, dest |-> c.dest, inUse |-> TRUE]]
StoreIn(s, c) ==
  pool' = [pool EXCEPT ![s] = [socket |-> c.socket, dest |-> c.dest, inUse |-> FALSE]]

IdleSockets == {pool[s].socket : s \in {r \in Slots : IdleSlot(r)}}

\* close_unusable_connections()
CloseUnusable(X) ==
  /\ IdleSockets \cap dead \subseteq X /\ X \subseteq IdleSockets
  /\ CloseSockets(X)
  /\ pool' = [s \in Slots |-> IF IdleSlot(s) /\ pool[s].socket \in X THEN EmptySlot
                                                                     ELSE pool[s]]

\* The second half of get_reusable_connection().
Reusable(d) == {s \in Slots : IdleSlot(s) /\ Matches(pool[s], d)}
TakeSlot(s)       == pool' = [pool EXCEPT ![s].inUse = TRUE]

-----------------------------------------------------------------------------
(* A client connection arrives and sends requests: chat().                 *)

Accept(t) ==
  /\ at[t] = "off"
  /\ \E b \in BOOLEAN : sharing' = [sharing EXCEPT ![t] = b]
  /\ Go(t, "request")
  /\ UNCHANGED <<conn, req, flags, poolVars, osVars>>

\* A request is parsed.  Once a request was inspected, everything else the
\* client sends arrives through its TLS session: continue_https_chat().
TlsRequest(t) ==
  \/ req[t].ssl
  \/ HttpsInspection /\ (at[t] = "request" \/ MixedClients)
Scheme(t, ssl) == IF ssl THEN TlsRequest(t) ELSE ~req[t].ssl

Receive(t) ==
  /\ at[t] \in {"request", "again"}
  /\ \E d \in Dests, ssl \in BOOLEAN :
       Scheme(t, ssl) /\ req' = [req EXCEPT ![t] = [dest |-> d, ssl |-> ssl]]
  /\ Go(t, IF req[t].ssl THEN "routeTls" ELSE "route")
  /\ UNCHANGED <<conn, flags, sharing, poolVars, osVars>>

\* crunch_response_triggered(), or no usable request at all.  An unread request
\* body taints the connection.
Crunch(t) ==
  /\ at[t] \in {"request", "again"}
  /\ \E ssl \in BOOLEAN : Scheme(t, ssl) /\ req' = [req EXCEPT ![t].ssl = ssl]
  /\ \E f \in FlagsType : ~f.serverKA /\ flags' = [flags EXCEPT ![t] = f]
  /\ Go(t, "judge")
  /\ UNCHANGED <<conn, sharing, poolVars, osVars>>

\* The thread's own connection is alive and goes where the request goes.
RouteOwn(t) ==
  LET x == conn[t].socket IN
  /\ at[t] \in {"route", "routeTls"}
  /\ x # NoSocket /\ Matches(conn[t], req[t].dest)
  /\ IF at[t] = "route" THEN x \notin dead ELSE conn[t].tls
  /\ pending' = pending \cup {x}
  /\ Go(t, "exchange")
  /\ UNCHANGED <<conn, req, flags, sharing, open, peer, dead, poolVars>>

\* Within a TLS session there is no other connection to go on with, and nothing
\* to go on with when the session's first request was crunched.
RouteTlsDrop(t) ==
  /\ at[t] = "routeTls"
  /\ ~(conn[t].tls /\ Matches(conn[t], req[t].dest))
  /\ Go(t, "judge")
  /\ UNCHANGED <<conn, req, flags, sharing, poolVars, osVars>>

NotOwn(t) ==
  /\ at[t] = "route" /\ conn[t].socket # NoSocket
  /\ conn[t].socket \in dead \/ ~Matches(conn[t], req[t].dest)

\* Otherwise it is handed to the others (server_use_ssl() tells of the request
\* at hand, not of the connection) ...
RouteRemember(t) ==
  /\ NotOwn(t) /\ sharing[t] /\ ~req[t].ssl
  /\ \/ MarkUnused(conn[t].socket) /\ ClearConn(t) /\ Go(t, "connect")
     \/ SlotsOf(conn[t].socket) = {} /\ Go(t, "storeOld") /\ UNCHANGED <<pool, conn>>
  /\ UNCHANGED <<req, flags, sharing, monitor, osVars>>

\* ... or closed.
RouteClose(t) ==
  /\ NotOwn(t) /\ ~(sharing[t] /\ ~req[t].ssl)
  /\ CloseSockets({conn[t].socket})
  /\ ClearConn(t)
  /\ Go(t, "connect")
  /\ UNCHANGED <<req, flags, sharing, poolVars>>

RouteNone(t) ==
  /\ at[t] = "route" /\ conn[t].socket = NoSocket
  /\ Go(t, "connect")
  /\ UNCHANGED <<conn, req, flags, sharing, poolVars, osVars>>

\* remember_connection() for a connection no slot lists.  Without a free slot
\* it is closed.
Store(t) ==
  /\ at[t] \in {"storeOld", "storeIdle"}
  /\ \/ /\ \E s \in FreeSlots : StoreIn(s, conn[t])
        /\ UNCHANGED osVars
     \/ /\ FreeSlots = {}
        /\ CloseSockets({conn[t].socket})
        /\ UNCHANGED pool
  /\ ClearConn(t)
  /\ Go(t, IF at[t] = "storeOld" THEN "connect" ELSE "elect")
  /\ UNCHANGED <<req, flags, sharing, monitor>>

\* forwarded_connect().  A request with trailing data taints the connection before
\* it is chosen, and then a shared one will not do.
Connect(t) ==
  /\ at[t] = "connect"
  /\ \/ /\ sharing[t]
        /\ \E X \in SUBSET IdleSockets : CloseUnusable(X)
        /\ Go(t, "search")
        /\ UNCHANGED flags
     \/ /\ Go(t, "dial")
        /\ IF sharing[t] THEN flags' = [flags EXCEPT ![t].tainted = TRUE] ELSE UNCHANGED flags
        /\ UNCHANGED <<pool, osVars>>
  /\ UNCHANGED <<conn, req, sharing, monitor>>

Search(t) ==
  /\ at[t] = "search"
  /\ \/ \E s \in Reusable(req[t].dest) :
          /\ TakeSlot(s)
          /\ SetConn(t, pool[s].socket)
          /\ pending' = pending \cup {pool[s].socket}
          /\ Go(t, "exchange")
     \/ /\ Reusable(req[t].dest) = {}
        /\ Go(t, "dial")
        /\ UNCHANGED <<pool, conn, pending>>
  /\ UNCHANGED <<monitor, req, flags, sharing, open, peer, dead>>

Dial(t) ==
  /\ at[t] = "dial"
  /\ \E x \in Sockets \ open :
       /\ open' = open \cup {x}
       /\ peer' = [peer EXCEPT ![x] = req[t].dest]
       /\ pending' = pending \cup {x}
       /\ SetConn(t, x)
  /\ Go(t, "exchange")
  /\ UNCHANGED <<dead, req, flags, sharing, poolVars>>

\* connect() fails: an error message, and the client connection is closed.
DialFails(t) ==
  /\ at[t] = "dial"
  /\ Go(t, "stop")
  /\ UNCHANGED <<conn, req, flags, sharing, poolVars, osVars>>

\* send_http_request() and handle_established_connection().  Either the server
\* closes the connection after the response, or the response is read to its end,
\* or the connection is tainted: a late cruncher, a failed read or write, too
\* little data or too much.
Exchange(t) ==
  /\ at[t] = "exchange"
  /\ \E f \in FlagsType, done \in BOOLEAN :
       /\ f.crunched \/ flags[t].tainted => f.tainted
       /\ f.serverKA /\ ~f.tainted => done
       /\ flags' = [flags EXCEPT ![t] = f]
       /\ pending' = IF done THEN pending \ {conn[t].socket} ELSE pending
  /\ Go(t, "judge")
  /\ UNCHANGED <<conn, req, sharing, open, peer, dead, poolVars>>

-----------------------------------------------------------------------------
(* serve(), after chat() returned.                                         *)

Keepable(t) ==
  flags[t].serverKA /\ ~flags[t].tainted /\ conn[t].socket \notin dead

Judged(t) == at[t] = "judge" /\ ~flags[t].crunched /\ conn[t].socket # NoSocket

\* A latency above the server's timeout makes any connection unusable.
JudgeKeep(t) ==
  /\ at[t] = "judge"
  /\ Judged(t) => Keepable(t)
  /\ Go(t, "next")
  /\ UNCHANGED <<conn, req, flags, sharing, poolVars, osVars>>

JudgeDrop(t) ==
  /\ Judged(t)
  /\ IF sharing[t] THEN Forget(conn[t].socket) ELSE UNCHANGED pool
  /\ Go(t, "drop")
  /\ UNCHANGED <<conn, req, flags, sharing, monitor, osVars>>

\* A client whose TLS session needs the closed server connection goes too.
Drop(t) ==
  /\ at[t] = "drop"
  /\ CloseSockets({conn[t].socket})
  /\ ClearConn(t)
  /\ Go(t, IF req[t].ssl THEN "stop" ELSE "next")
  /\ UNCHANGED <<req, flags, sharing, poolVars>>

\* Mutant of ContinueChatting: the taint is forgotten.
ContinueTainted(t)  == flags[t].clientKA
ContinueChatting(t) == flags[t].clientKA /\ ~flags[t].tainted

\* prepare_csp_for_next_request()
NextRequest(t) ==
  /\ at[t] = "next" /\ ContinueChatting(t)
  /\ flags' = [flags EXCEPT ![t] = NoFlags]
  /\ req' = [req EXCEPT ![t].dest = NoDest]
  /\ Go(t, "again")
  /\ UNCHANGED <<conn, sharing, poolVars, osVars>>

\* No further request in time (nobody reads the flags from here on): the server connection is left to others.
Leave(t) ==
  /\ at[t] = "next" /\ ContinueChatting(t)
  /\ sharing[t] /\ conn[t].socket # NoSocket /\ conn[t].socket \notin dead /\ ~req[t].ssl
  /\ \/ MarkUnused(conn[t].socket) /\ ClearConn(t) /\ Go(t, "elect")
     \/ SlotsOf(conn[t].socket) = {} /\ Go(t, "storeIdle") /\ UNCHANGED <<pool, conn>>
  /\ flags' = [flags EXCEPT ![t] = NoFlags]
  /\ UNCHANGED <<req, sharing, monitor, osVars>>

\* No further request, a changed file, or nothing to leave behind.
StopChatting(t) ==
  /\ at[t] = "next"
  /\ flags' = [flags EXCEPT ![t] = NoFlags]
  /\ Go(t, "stop")
  /\ UNCHANGED <<conn, req, sharing, poolVars, osVars>>

\* The first thread to leave a connection behind waits for it to time out.
Electable(t) == ~monitor

Elect(t) ==
  /\ at[t] = "elect"
  /\ IF Electable(t) THEN monitor' = TRUE /\ Go(t, "monitor")
                     ELSE monitor' = monitor /\ Go(t, "stop")
  /\ UNCHANGED <<pool, conn, req, flags, sharing, osVars>>

\* wait_for_alive_connections(): one round a minute until no idle one is left.
Monitor(t) ==
  /\ at[t] = "monitor"
  /\ \E X \in SUBSET IdleSockets :
       /\ CloseUnusable(X)
       /\ Go(t, IF X = IdleSockets THEN "resign" ELSE "monitor")
  /\ UNCHANGED <<monitor, conn, req, flags, sharing>>

Resign(t) ==
  /\ at[t] = "resign"
  /\ monitor' = FALSE
  /\ Go(t, "stop")
  /\ UNCHANGED <<pool, conn, req, flags, sharing, osVars>>

Stop(t) ==
  /\ at[t] = "stop"
  /\ IF sharing[t] /\ conn[t].socket # NoSocket
     THEN Forget(conn[t].socket) ELSE UNCHANGED pool
  /\ Go(t, "stopClose")
  /\ UNCHANGED <<conn, req, flags, sharing, monitor, osVars>>

StopClose(t) ==
  /\ at[t] = "stopClose"
  /\ CloseSockets({conn[t].socket} \ {NoSocket})
  /\ ClearConn(t)
  /\ req' = [req EXCEPT ![t] = NoReq]
  /\ flags' = [flags EXCEPT ![t] = NoFlags]
  /\ sharing' = [sharing EXCEPT ![t] = FALSE]
  /\ Go(t, "off")
  /\ UNCHANGED poolVars

-----------------------------------------------------------------------------
\* The servers.
ServerCloses ==
  /\ \E x \in open \ dead : dead' = dead \cup {x}
  /\ UNCHANGED <<open, peer, pending, poolVars, cspVars>>

Step(t) ==
  \/ Accept(t) \/ Receive(t) \/ Crunch(t)
  \/ RouteOwn(t) \/ RouteTlsDrop(t) \/ RouteRemember(t) \/ RouteClose(t) \/ RouteNone(t)
  \/ Store(t) \/ Connect(t) \/ Search(t) \/ Dial(t) \/ DialFails(t)
  \/ Exchange(t)
  \/ JudgeKeep(t) \/ JudgeDrop(t) \/ Drop(t) \/ NextRequest(t) \/ Leave(t) \/ StopChatting(t)
  \/ Elect(t) \/ Monitor(t) \/ Resign(t) \/ Stop(t) \/ StopClose(t)

Next == (\E t \in Threads : Step(t)) \/ ServerCloses

Spec == Init /\ [][Next]_vars
-----------------------------------------------------------------------------
(* What sharing connections promises.                                      *)

Places == {"off", "request", "again", "route", "routeTls", "storeOld", "storeIdle", "connect", "search",
           "dial", "exchange", "judge", "drop", "next", "elect", "monitor", "resign", "stop",
           "stopClose"}

\* Type invariant.  A record of a connection has a destination exactly when it has
\* a socket: mark_connection_closed() resets all of it.
TypeOK ==
  /\ pool \in [Slots -> [socket: Sockets \cup {NoSocket}, dest: Dests \cup {NoDest},
                         inUse: BOOLEAN]]
  /\ monitor \in BOOLEAN
  /\ at \in [Threads -> Places]
  /\ conn \in [Threads -> [socket: Sockets \cup {NoSocket}, dest: Dests \cup {NoDest},
                           tls: BOOLEAN]]
  /\ req \in [Threads -> [dest: Dests \cup {NoDest}, ssl: BOOLEAN]]
  /\ flags \in [Threads -> FlagsType]
  /\ sharing \in [Threads -> BOOLEAN]
  /\ \A t \in Threads : conn[t].socket = NoSocket <=> conn[t].dest = NoDest
  /\ \A s \in Slots : pool[s].socket = NoSocket <=> pool[s].dest = NoDest
  /\ open \subseteq Sockets /\ dead \subseteq open /\ pending \subseteq open
  /\ peer \in [Sockets -> Dests \cup {NoDest}]

Holders(x) == {t \in Threads : conn[t].socket = x}

\* A slot marked as in use belongs to a thread that will forget it or mark it
\* unused: otherwise the slot is lost for good.
SlotsInUseAreHeld ==
  \A s \in Slots : pool[s].inUse => Cardinality(Holders(pool[s].socket)) = 1

\* assert(reusable_connection[slot].in_use) in forget_connection() and
\* mark_connection_unused(), whenever a thread may call them for its connection.
AssertionsHold ==
  \A t \in Threads : conn[t].socket # NoSocket =>
    \A s \in SlotsOf(conn[t].socket) : pool[s].inUse

\* "Determines whether a remembered connection can be reused.  That is, whether
\* the destination and the forwarding settings match": a request is sent through
\* a connection to its own destination, whoever opened the connection.
RequestsGoToDestination ==
  \A t \in Threads : at[t] = "exchange" => peer[conn[t].socket] = req[t].dest

\* No request is sent on a connection with an unread rest of another response,
\* be it the thread's own connection or somebody else's: the client would be
\* given that rest as its answer.
ReusedOnlyWhenClean ==
  [][\A t \in Threads : at[t] # "exchange" /\ at'[t] = "exchange"
       => conn'[t].socket \notin pending]_vars

\* At most one thread waits for the idle connections of all to time out, and the
\* flag that keeps the others from doing so is not left behind.
OneMonitor ==
  Cardinality({t \in Threads : at[t] \in {"monitor", "resign"}}) = IF monitor THEN 1 ELSE 0

\* What the slots, the connections of the threads and the monitor's flag say of each
\* other always holds, also between the regions that are locked: no slot is lost, no
\* assertion fails, and there is one monitor.
PoolInv == SlotsInUseAreHeld /\ AssertionsHold /\ OneMonitor

\* The slots and flags implement the exclusive ownership they stand for.  What
\* the program has noted of a connection stands for what it is connected to.
keeper(x)  == CHOOSE t \in Holders(x) : TRUE
ownerOf    == [x \in Sockets |-> IF x \notin open THEN "closed"
                                 ELSE IF Holders(x) = {} THEN "idle" ELSE keeper(x)]
notedOf(x) == IF Holders(x) = {} THEN {pool[s].dest : s \in SlotsOf(x)} ELSE {conn[keeper(x)].dest}
Abstract == INSTANCE Ownership WITH
  owner   <- ownerOf,
  peer    <- [x \in Sockets |-> IF x \in open THEN notedOf(x) ELSE {}],
  Dests   <- {{d} : d \in Dests},
  NoDest  <- {},
  MaxIdle <- Cardinality(Slots)
ImplementsOwnership == Abstract!OSpec

(* What the documentation says of it, and the code does not do.            *)

\* "If the client doesn't support connection keep-alive, enabling this option may
\* make sense as it allows Privoxy to keep outgoing connections alive even if the
\* client itself doesn't support it": a reusable connection is remembered.
KeptForOthers ==
  [][\A t \in Threads :
       /\ at[t] = "next" /\ at'[t] # "next"
       /\ sharing[t] /\ conn[t].socket \in open \ dead /\ ~req[t].ssl
       /\ flags[t].serverKA /\ ~flags[t].tainted /\ ~flags[t].clientKA
       => at'[t] \in {"elect", "storeIdle"}]_vars
=============================================================================
