-------------------------- MODULE ReusePoolProofs --------------------------
(***************************************************************************)
(* Proofs about ReusePool: for any number of threads, slots, sockets and   *)
(* destinations, the slots of gateway.c are consistent with what the       *)
(* threads of jcc.c do with their connections, and share them the way      *)
(* Ownership says.                                                         *)
(***************************************************************************)
EXTENDS ReusePool, FiniteSetTheorems, TLAPS

\* Plain requests and inspected ones do not share a client connection: the one case
\* in which a connection is closed behind the back of its slot (see MCReusePoolFindings.cfg).
Unmixed == ~(HttpsInspection /\ MixedClients)

\* A listed socket is open.
OpenInv ==
  /\ \A t \in Threads : conn[t].socket # NoSocket => conn[t].socket \in open
  /\ \A s \in Slots : pool[s].socket # NoSocket => pool[s].socket \in open

\* No two threads have the same connection and no two slots list it, and a slot is in
\* use exactly while a thread has its connection.
HeldInv ==
  /\ \A t, u \in Threads : conn[t].socket # NoSocket /\ conn[t].socket = conn[u].socket => t = u
  /\ \A s, r \in Slots : pool[s].socket # NoSocket /\ pool[s].socket = pool[r].socket => s = r
  /\ \A s \in Slots : pool[s].inUse =>
       pool[s].socket # NoSocket /\ \E t \in Threads : conn[t].socket = pool[s].socket
  /\ \A t \in Threads, s \in Slots :
       conn[t].socket # NoSocket /\ pool[s].socket = conn[t].socket => pool[s].inUse

\* A connection that no slot lists.
Unlisted(x) == x = NoSocket \/ \A s \in Slots : pool[s].socket # x

\* What the place a thread is at says of its connection.
Placed(t) ==
  /\ at[t] \in {"off", "request", "connect", "search", "dial", "elect", "monitor", "resign"}
       => conn[t].socket = NoSocket
  /\ at[t] \in {"storeOld", "storeIdle", "drop", "exchange"} => conn[t].socket # NoSocket
  /\ at[t] \in {"search", "storeOld", "storeIdle"} => sharing[t]
  /\ ~sharing[t] \/ at[t] \in {"storeOld", "storeIdle", "drop", "stopClose"}
       => Unlisted(conn[t].socket)
  /\ at[t] = "route" /\ req[t].ssl => conn[t].socket = NoSocket
  /\ at[t] \in {"off", "request"} => ~req[t].ssl

\* So it is for every thread.
PlaceInv == \A t \in Threads : Placed(t)

\* A connection goes where it is said to go.
DestInv ==
  /\ \A t \in Threads : conn[t].socket # NoSocket => peer[conn[t].socket] = conn[t].dest
  /\ \A s \in Slots : pool[s].socket # NoSocket => peer[pool[s].socket] = pool[s].dest
  /\ \A t \in Threads :
       /\ at[t] = "exchange" => conn[t].dest = req[t].dest
       /\ at[t] \in {"route", "routeTls", "storeOld", "connect", "search", "dial", "exchange"}
            => req[t].dest \in Dests

\* What is on its way to another request, of this client or another, has been read to
\* the end of its last response.
CleanInv ==
  /\ \A s \in Slots : ~pool[s].inUse => pool[s].socket \notin pending
  /\ \A t \in Threads :
       conn[t].socket \in pending =>
         \/ at[t] \in {"exchange", "drop", "stop", "stopClose"}
         \/ at[t] = "judge" /\ (flags[t].tainted \/ ~(flags[t].crunched \/ flags[t].serverKA))
         \/ at[t] = "next" /\ flags[t].tainted

\* The flag is set while a thread is the monitor, and by that thread only.
MonitorInv ==
  /\ monitor <=> \E t \in Threads : at[t] \in {"monitor", "resign"}
  /\ \A t, u \in Threads :
       at[t] \in {"monitor", "resign"} /\ at[u] \in {"monitor", "resign"} => t = u

\* The inductive invariant.
ReuseInv ==
  TypeOK /\ OpenInv /\ HeldInv /\ PlaceInv /\ DestInv /\ CleanInv /\ MonitorInv

-----------------------------------------------------------------------------
(* Type correctness.                                                       *)

\* At first no thread has a connection and every slot is empty.
LEMMA InitReuse == Init => ReuseInv
<1> SUFFICES ASSUME Init PROVE ReuseInv
    OBVIOUS
<1> USE PoolAssumption DEF Init, NoConn, NoReq, NoFlags, EmptySlot
<1>1. TypeOK
    BY DEF TypeOK, FlagsType, Places
<1>2. OpenInv /\ HeldInv /\ PlaceInv
    BY DEF OpenInv, HeldInv, PlaceInv, Placed, Unlisted
<1>3. DestInv /\ CleanInv /\ MonitorInv
    BY DEF DestInv, CleanInv, MonitorInv
<1>4. QED
    BY <1>1, <1>2, <1>3 DEF ReuseInv

\* Where a thread is, and what it has noted of its request.
LEMMA PlaceType ==
  ASSUME TypeOK, NEW t \in Threads, Step(t)
  PROVE  at' \in [Threads -> Places] /\ monitor' \in BOOLEAN
<1>1. ASSUME NEW place \in Places, Go(t, place) PROVE at' \in [Threads -> Places]
    BY <1>1 DEF Go, TypeOK
<1>2. \E place \in Places : Go(t, place)
  <2>1. CASE Accept(t) \/ Receive(t) \/ Crunch(t)
    BY <2>1 DEF Accept, Receive, Crunch, Places
  <2>2. CASE RouteOwn(t) \/ RouteTlsDrop(t) \/ RouteRemember(t) \/ RouteClose(t) \/ RouteNone(t)
    BY <2>2 DEF RouteOwn, RouteTlsDrop, RouteRemember, RouteClose, RouteNone, Places
  <2>3. CASE Store(t) \/ Connect(t) \/ Search(t) \/ Dial(t) \/ DialFails(t) \/ Exchange(t)
    BY <2>3 DEF Store, Connect, Search, Dial, DialFails, Exchange, Places
  <2>4. CASE JudgeKeep(t) \/ JudgeDrop(t) \/ Drop(t) \/ Leave(t) \/ StopChatting(t)
    BY <2>4 DEF JudgeKeep, JudgeDrop, Drop, Leave, StopChatting, Places
  <2>5. CASE NextRequest(t) \/ Elect(t) \/ Monitor(t)
    BY <2>5 DEF NextRequest, Elect, Monitor, Places
  <2>6. CASE Resign(t) \/ Stop(t) \/ StopClose(t)
    BY <2>6 DEF Resign, Stop, StopClose, Places
  <2>7. QED
    BY <2>1, <2>2, <2>3, <2>4, <2>5, <2>6 DEF Step
<1>3. monitor' \in BOOLEAN
  <2>1. CASE Elect(t) \/ Resign(t)
    BY <2>1 DEF Elect, Resign, TypeOK
  <2>2. CASE ~(Elect(t) \/ Resign(t))
    BY <2>2 DEF Step, TypeOK, poolVars, Accept, Receive, Crunch, RouteOwn, RouteTlsDrop,
      RouteRemember, RouteClose, RouteNone, Store, Connect, Search, Dial, DialFails, Exchange,
      JudgeKeep, JudgeDrop, Drop, NextRequest, Leave, StopChatting, Monitor, Stop, StopClose
  <2>3. QED
    BY <2>1, <2>2
<1>4. QED
    BY <1>1, <1>2, <1>3

\* The request a thread deals with, and whether its connections are shared.
LEMMA RequestType ==
  ASSUME TypeOK, NEW t \in Threads, Step(t)
  PROVE  /\ req' \in [Threads -> [dest: Dests \cup {NoDest}, ssl: BOOLEAN]]
         /\ sharing' \in [Threads -> BOOLEAN]
<1>1. /\ req \in [Threads -> [dest: Dests \cup {NoDest}, ssl: BOOLEAN]]
      /\ sharing \in [Threads -> BOOLEAN]
    BY DEF TypeOK
<1>2. CASE Receive(t)
    BY <1>1, <1>2 DEF Receive
<1>3. CASE Crunch(t)
    BY <1>1, <1>3 DEF Crunch
<1>4. CASE NextRequest(t)
    BY <1>1, <1>4 DEF NextRequest
<1>5. CASE StopClose(t)
    BY <1>1, <1>5 DEF StopClose, NoReq
<1>6. CASE Accept(t)
    BY <1>1, <1>6 DEF Accept
<1>7. CASE ~(Receive(t) \/ Crunch(t) \/ NextRequest(t) \/ StopClose(t) \/ Accept(t))
    BY <1>1, <1>7 DEF Step, RouteOwn, RouteTlsDrop,
      RouteRemember, RouteClose, RouteNone, Store, Connect, Search, Dial, DialFails, Exchange,
      JudgeKeep, JudgeDrop, Drop, Leave, StopChatting, Elect, Monitor, Resign, Stop
<1>8. QED
    BY <1>2, <1>3, <1>4, <1>5, <1>6, <1>7

\* The flags of the thread's client_state.
LEMMA FlagsTyped ==
  ASSUME TypeOK, NEW t \in Threads, Step(t)
  PROVE  flags' \in [Threads -> FlagsType]
<1> USE DEF TypeOK
<1>1. NoFlags \in FlagsType
    BY DEF NoFlags, FlagsType
<1>2. CASE Accept(t) \/ Receive(t) \/ Crunch(t)
    BY <1>2 DEF Accept, Receive, Crunch
<1>3. CASE RouteOwn(t) \/ RouteTlsDrop(t) \/ RouteRemember(t) \/ RouteClose(t) \/ RouteNone(t)
    BY <1>3 DEF RouteOwn, RouteTlsDrop, RouteRemember, RouteClose, RouteNone
<1>4. CASE Connect(t)
  <2>1. CASE flags' = flags
    BY <2>1
  <2>2. CASE flags' = [flags EXCEPT ![t].tainted = TRUE]
    BY <2>2 DEF FlagsType
  <2>3. QED
    BY <1>4, <2>1, <2>2 DEF Connect
<1>5. CASE Store(t) \/ Search(t) \/ Dial(t) \/ DialFails(t) \/ Exchange(t)
    BY <1>5 DEF Store, Search, Dial, DialFails, Exchange
<1>6. CASE JudgeKeep(t) \/ JudgeDrop(t) \/ Drop(t) \/ Leave(t) \/ StopChatting(t)
    BY <1>1, <1>6 DEF JudgeKeep, JudgeDrop, Drop, Leave, StopChatting
<1>7. CASE NextRequest(t) \/ Elect(t) \/ Monitor(t) \/ Resign(t) \/ Stop(t) \/ StopClose(t)
    BY <1>1, <1>7 DEF NextRequest, Elect, Monitor, Resign, Stop, StopClose
<1>8. QED
    BY <1>2, <1>3, <1>4, <1>5, <1>6, <1>7 DEF Step

-----------------------------------------------------------------------------
(* What a step does to connections, slots and sockets is one of ten things. *)

\* The next request is sent on the connection the thread kept.
Starts(t) ==
  /\ RouteOwn(t)
  /\ conn[t].socket # NoSocket /\ pending' = pending \cup {conn[t].socket}
  /\ UNCHANGED <<conn, pool, open, dead, peer>>

\* The response is read, to its end or not.
Finishes(t) ==
  /\ Exchange(t)
  /\ pending' \in {pending, pending \ {conn[t].socket}}
  /\ UNCHANGED <<conn, pool, open, dead, peer>>

\* mark_connection_unused(): the connection stays in its slot.
LeavesBehind(t) ==
  /\ RouteRemember(t) \/ Leave(t)
  /\ MarkUnused(conn[t].socket) /\ ClearConn(t) /\ conn[t].socket # NoSocket
  /\ UNCHANGED <<open, dead, peer, pending>>

\* remember_connection() finds an empty slot.
Lists(t) ==
  /\ Store(t)
  /\ (\E s \in FreeSlots : StoreIn(s, conn[t])) /\ ClearConn(t)
  /\ UNCHANGED <<open, dead, peer, pending>>

\* The thread's own connection, which no slot lists, is closed.
ClosesOwn(t) ==
  /\ RouteClose(t) \/ Drop(t) \/ Store(t) \/ StopClose(t)
  /\ CloseSockets({conn[t].socket} \ {NoSocket}) /\ ClearConn(t)
  /\ UNCHANGED pool

\* close_unusable_connections().
ClosesIdle(t) ==
  /\ Connect(t) \/ Monitor(t)
  /\ \E X \in SUBSET IdleSockets : CloseUnusable(X)
  /\ UNCHANGED conn

\* get_reusable_connection() finds a match.
Takes(t) ==
  /\ Search(t)
  /\ \E s \in Reusable(req[t].dest) :
       TakeSlot(s) /\ SetConn(t, pool[s].socket) /\ pending' = pending \cup {pool[s].socket}
  /\ UNCHANGED <<open, dead, peer>>

\* forwarded_connect() opens a new connection.
Dials(t) ==
  /\ Dial(t)
  /\ \E x \in Sockets \ open :
       /\ open' = open \cup {x} /\ peer' = [peer EXCEPT ![x] = req[t].dest]
       /\ SetConn(t, x) /\ pending' = pending \cup {x}
  /\ UNCHANGED <<pool, dead>>

\* forget_connection(): the thread keeps the connection, its slot is emptied.
Forgets(t) ==
  /\ JudgeDrop(t) \/ (Stop(t) /\ conn[t].socket # NoSocket)
  /\ Forget(conn[t].socket)
  /\ UNCHANGED <<conn, open, dead, peer, pending>>

\* Everything else.
Keeps(t) == UNCHANGED <<conn, pool, open, dead, peer, pending>>

\* One case per effect is enough for what follows, instead of one per action.
LEMMA Effects ==
  ASSUME ReuseInv, NEW t \in Threads, Step(t)
  PROVE  \/ Starts(t) \/ Finishes(t) \/ LeavesBehind(t) \/ Lists(t) \/ ClosesOwn(t)
         \/ ClosesIdle(t) \/ Takes(t) \/ Dials(t) \/ Forgets(t) \/ Keeps(t)
<1> USE DEF poolVars, osVars, cspVars, Keeps
<1>1. CASE RouteOwn(t)
    BY <1>1 DEF RouteOwn, Starts
<1>2. CASE Exchange(t)
    BY <1>2 DEF Exchange, Finishes
<1>3. CASE RouteRemember(t) \/ Leave(t)
    BY <1>3 DEF RouteRemember, NotOwn, Leave, LeavesBehind
<1>4. CASE Store(t)
  <2>1. conn[t].socket # NoSocket
    BY <1>4 DEF Store, ReuseInv, PlaceInv, Placed
  <2>2. {conn[t].socket} \ {NoSocket} = {conn[t].socket}
    BY <2>1
  <2>3. QED
    BY <1>4, <2>2 DEF Store, Lists, ClosesOwn
<1>5. CASE RouteClose(t) \/ Drop(t)
  <2>1. conn[t].socket # NoSocket
    BY <1>5 DEF RouteClose, NotOwn, Drop, ReuseInv, PlaceInv, Placed
  <2>2. {conn[t].socket} \ {NoSocket} = {conn[t].socket}
    BY <2>1
  <2>3. QED
    BY <1>5, <2>2 DEF RouteClose, Drop, ClosesOwn
<1>6. CASE StopClose(t)
    BY <1>6 DEF StopClose, ClosesOwn
<1>7. CASE Connect(t) \/ Monitor(t)
    BY <1>7 DEF Connect, Monitor, ClosesIdle
<1>8. CASE Search(t)
    BY <1>8 DEF Search, Takes
<1>9. CASE Dial(t)
    BY <1>9 DEF Dial, Dials
<1>10. CASE JudgeDrop(t) \/ Stop(t)
    BY <1>10 DEF JudgeDrop, Stop, Forgets
<1>11. CASE ~(\/ RouteOwn(t) \/ Exchange(t) \/ RouteRemember(t) \/ Leave(t) \/ Store(t)
              \/ RouteClose(t) \/ Drop(t) \/ StopClose(t) \/ Connect(t) \/ Monitor(t)
              \/ Search(t) \/ Dial(t) \/ JudgeDrop(t) \/ Stop(t))
    BY <1>11 DEF Step, Accept, Receive, Crunch, RouteTlsDrop, RouteNone, DialFails, JudgeKeep,
      NextRequest, StopChatting, Elect, Resign
<1>12. QED
    BY <1>1, <1>2, <1>3, <1>4, <1>5, <1>6, <1>7, <1>8, <1>9, <1>10, <1>11

\* The records TypeOK speaks of.
ConnType == [socket: Sockets \cup {NoSocket}, dest: Dests \cup {NoDest}, tls: BOOLEAN]
SlotType == [socket: Sockets \cup {NoSocket}, dest: Dests \cup {NoDest}, inUse: BOOLEAN]

\* Records of connections.
LEMMA ConnTyped ==
  ASSUME ReuseInv, NEW t \in Threads, Step(t)
  PROVE  /\ conn' \in [Threads -> ConnType]
         /\ \A u \in Threads : conn'[u].socket = NoSocket <=> conn'[u].dest = NoDest
<1>1. /\ conn \in [Threads -> ConnType] /\ pool \in [Slots -> SlotType]
      /\ req \in [Threads -> [dest: Dests \cup {NoDest}, ssl: BOOLEAN]]
      /\ \A u \in Threads : conn[u].socket = NoSocket <=> conn[u].dest = NoDest
    BY DEF ReuseInv, TypeOK, ConnType, SlotType
<1>2. ASSUME NEW x \in Sockets, SetConn(t, x), req[t].dest \in Dests
      PROVE  /\ conn' \in [Threads -> ConnType]
             /\ \A u \in Threads : conn'[u].socket = NoSocket <=> conn'[u].dest = NoDest
    BY <1>1, <1>2, PoolAssumption DEF SetConn, ConnType
<1>3. CASE Takes(t)
    BY <1>1, <1>2, <1>3 DEF Takes, Search, Reusable, IdleSlot, SlotType, ReuseInv, DestInv
<1>4. CASE Dials(t)
    BY <1>2, <1>4 DEF Dials, Dial, ReuseInv, DestInv
<1>5. CASE ClearConn(t)
    BY <1>1, <1>5 DEF ClearConn, NoConn, ConnType
<1>6. CASE conn' = conn
    BY <1>1, <1>6
<1>7. QED
    BY <1>3, <1>4, <1>5, <1>6, Effects
    DEF Starts, Finishes, LeavesBehind, Lists, ClosesOwn, ClosesIdle, Forgets, Keeps

\* Slots.
LEMMA SlotsTyped ==
  ASSUME ReuseInv, NEW t \in Threads, Step(t)
  PROVE  /\ pool' \in [Slots -> SlotType]
         /\ \A s \in Slots : pool'[s].socket = NoSocket <=> pool'[s].dest = NoDest
<1>1. /\ conn \in [Threads -> ConnType] /\ pool \in [Slots -> SlotType]
      /\ \A u \in Threads : conn[u].socket = NoSocket <=> conn[u].dest = NoDest
      /\ \A s \in Slots : pool[s].socket = NoSocket <=> pool[s].dest = NoDest
    BY DEF ReuseInv, TypeOK, ConnType, SlotType
<1>2. EmptySlot \in SlotType /\ EmptySlot.socket = NoSocket /\ EmptySlot.dest = NoDest
    BY DEF EmptySlot, SlotType
<1>3. CASE LeavesBehind(t)
    BY <1>1, <1>3 DEF LeavesBehind, MarkUnused, SlotType
<1>4. CASE Lists(t)
    BY <1>1, <1>4 DEF Lists, StoreIn, FreeSlots, ConnType, SlotType
<1>5. CASE ClosesIdle(t)
    BY <1>1, <1>2, <1>5 DEF ClosesIdle, CloseUnusable
<1>6. CASE Takes(t)
  <2>1. PICK s \in Slots : pool' = [pool EXCEPT ![s].inUse = TRUE]
    BY <1>6 DEF Takes, Reusable, TakeSlot
  <2>2. \A r \in Slots : /\ pool'[r] \in SlotType
                        /\ pool'[r].socket = pool[r].socket /\ pool'[r].dest = pool[r].dest
    BY <1>1, <2>1 DEF SlotType
  <2>3. pool' \in [Slots -> SlotType]
    BY <1>1, <2>1, <2>2
  <2>4. QED
    BY <1>1, <2>2, <2>3
<1>7. CASE Forgets(t)
    BY <1>1, <1>2, <1>7 DEF Forgets, Forget
<1>8. CASE pool' = pool
    BY <1>1, <1>8
<1>9. QED
    BY <1>3, <1>4, <1>5, <1>6, <1>7, <1>8, Effects DEF Starts, Finishes, ClosesOwn, Dials, Keeps

\* Sockets.
LEMMA SocketsTyped ==
  ASSUME ReuseInv, NEW t \in Threads, Step(t)
  PROVE  /\ open' \subseteq Sockets /\ dead' \subseteq open' /\ pending' \subseteq open'
         /\ peer' \in [Sockets -> Dests \cup {NoDest}]
<1> USE DEF ReuseInv, TypeOK
<1>1. CASE Starts(t) \/ Finishes(t)
    BY <1>1 DEF Starts, Finishes, OpenInv
<1>2. CASE Takes(t)
    BY <1>2 DEF Takes, Reusable, IdleSlot, OpenInv
<1>3. CASE Dials(t)
  <2>1. req[t].dest \in Dests
    BY <1>3 DEF Dials, Dial, DestInv
  <2>2. QED
    BY <1>3, <2>1 DEF Dials
<1>4. ASSUME NEW X, CloseSockets(X)
      PROVE  /\ open' \subseteq Sockets /\ dead' \subseteq open' /\ pending' \subseteq open'
             /\ peer' \in [Sockets -> Dests \cup {NoDest}]
    BY <1>4 DEF CloseSockets
<1>5. CASE ClosesOwn(t) \/ ClosesIdle(t)
    BY <1>4, <1>5 DEF ClosesOwn, ClosesIdle, CloseUnusable
<1>6. CASE UNCHANGED <<open, dead, peer, pending>>
    BY <1>6
<1>7. QED
    BY <1>1, <1>2, <1>3, <1>5, <1>6, Effects DEF LeavesBehind, Lists, Forgets, Keeps

\* Type correctness.
LEMMA TypeOKStep ==
  ASSUME ReuseInv, NEW t \in Threads, Step(t)
  PROVE  TypeOK'
<1>1. TypeOK
    BY DEF ReuseInv
<1>2. QED
    BY <1>1, PlaceType, RequestType, FlagsTyped, ConnTyped, SlotsTyped, SocketsTyped
    DEF TypeOK, ConnType, SlotType

-----------------------------------------------------------------------------
(* Connections and slots.                                                  *)

\* Sockets are closed only with every record of them.
LEMMA OpenInvStep ==
  ASSUME ReuseInv, NEW t \in Threads, Step(t)
  PROVE  OpenInv'
<1>1. /\ conn \in [Threads -> ConnType] /\ pool \in [Slots -> SlotType] /\ NoSocket \notin Sockets
      /\ open \subseteq Sockets
    BY PoolAssumption DEF ReuseInv, TypeOK, ConnType, SlotType
<1>2. OpenInv
    BY DEF ReuseInv
<1>3. CASE Starts(t) \/ Finishes(t) \/ Keeps(t)
    BY <1>2, <1>3 DEF Starts, Finishes, Keeps, OpenInv
<1>4. CASE LeavesBehind(t)
    BY <1>1, <1>2, <1>4 DEF LeavesBehind, MarkUnused, ClearConn, NoConn, OpenInv
<1>5. CASE Lists(t)
    BY <1>1, <1>2, <1>5 DEF Lists, StoreIn, FreeSlots, ClearConn, NoConn, OpenInv
<1>6. CASE ClosesOwn(t)
  <2>1. Unlisted(conn[t].socket)
    BY <1>6
    DEF ClosesOwn, ReuseInv, PlaceInv, Placed, RouteClose, NotOwn, Drop, Store, StopClose, Unlisted
  <2>2. \A u \in Threads : u # t => conn[u].socket = NoSocket \/ conn[u].socket # conn[t].socket
    BY DEF ReuseInv, HeldInv
  <2>3. QED
    BY <1>1, <1>2, <1>6, <2>1, <2>2 DEF ClosesOwn, CloseSockets, ClearConn, NoConn, Unlisted,
        OpenInv
<1>7. CASE ClosesIdle(t)
  <2>1. PICK X \in SUBSET IdleSockets : CloseUnusable(X)
    BY <1>7 DEF ClosesIdle
  <2>2. \A u \in Threads : conn[u].socket \notin X
    BY <2>1 DEF IdleSockets, IdleSlot, ReuseInv, HeldInv
  <2>3. \A s \in Slots : pool[s].socket \in X => IdleSlot(s)
    BY <2>1 DEF IdleSockets, IdleSlot, ReuseInv, HeldInv
  <2>4. QED
    BY <1>1, <1>2, <1>7, <2>1, <2>2, <2>3
    DEF ClosesIdle, CloseUnusable, CloseSockets, EmptySlot, OpenInv
<1>8. CASE Takes(t)
    BY <1>1, <1>2, <1>8 DEF Takes, Reusable, TakeSlot, SetConn, SlotType, OpenInv
<1>9. CASE Dials(t)
    BY <1>1, <1>2, <1>9 DEF Dials, SetConn, OpenInv
<1>10. CASE Forgets(t)
    BY <1>1, <1>2, <1>10 DEF Forgets, Forget, EmptySlot, OpenInv
<1>11. QED
    BY <1>3, <1>4, <1>5, <1>6, <1>7, <1>8, <1>9, <1>10, Effects

\* A connection changes hands through its slot, under the mutex of the pool.
LEMMA HeldInvStep ==
  ASSUME ReuseInv, NEW t \in Threads, Step(t)
  PROVE  HeldInv'
<1>1. /\ conn \in [Threads -> ConnType] /\ pool \in [Slots -> SlotType] /\ NoSocket \notin Sockets
      /\ open \subseteq Sockets
    BY PoolAssumption DEF ReuseInv, TypeOK, ConnType, SlotType
<1>2. HeldInv /\ OpenInv
    BY DEF ReuseInv
<1>3. CASE Starts(t) \/ Finishes(t) \/ Keeps(t)
    BY <1>2, <1>3 DEF Starts, Finishes, Keeps, HeldInv
<1>4. CASE LeavesBehind(t)
  <2>1. \A s \in Slots :
          /\ pool'[s].socket = pool[s].socket
          /\ pool'[s].inUse <=> pool[s].inUse /\ pool[s].socket # conn[t].socket
    BY <1>1, <1>4 DEF LeavesBehind, MarkUnused, SlotsOf, SlotType
  <2>2. \A u \in Threads : conn'[u].socket = IF u = t THEN NoSocket ELSE conn[u].socket
    BY <1>1, <1>4 DEF LeavesBehind, ClearConn, NoConn
  <2>3. QED
    BY <1>2, <2>1, <2>2 DEF HeldInv
<1>5. CASE Lists(t)
  <2>1. PICK s \in FreeSlots : StoreIn(s, conn[t])
    BY <1>5 DEF Lists
  <2>2. \A r \in Slots : pool[r].socket # conn[t].socket
    BY <1>5 DEF Lists, Store, ReuseInv, PlaceInv, Placed, Unlisted
  <2>3. conn[t].socket # NoSocket
    BY <1>5 DEF Lists, Store, ReuseInv, PlaceInv, Placed
  <2>4. \A r \in Slots :
          /\ pool'[r].socket = IF r = s THEN conn[t].socket ELSE pool[r].socket
          /\ pool'[r].inUse <=> r # s /\ pool[r].inUse
    BY <1>1, <2>1 DEF StoreIn
  <2>5. \A u \in Threads : conn'[u].socket = IF u = t THEN NoSocket ELSE conn[u].socket
    BY <1>1, <1>5 DEF Lists, ClearConn, NoConn
  <2>6. QED
    BY <1>2, <2>2, <2>3, <2>4, <2>5 DEF HeldInv
<1>6. CASE ClosesOwn(t)
  <2>1. Unlisted(conn[t].socket)
    BY <1>6
    DEF ClosesOwn, ReuseInv, PlaceInv, Placed, RouteClose, NotOwn, Drop, Store, StopClose, Unlisted
  <2>2. \A u \in Threads : conn'[u].socket = IF u = t THEN NoSocket ELSE conn[u].socket
    BY <1>1, <1>6 DEF ClosesOwn, ClearConn, NoConn
  <2>3. QED
    BY <1>2, <1>6, <2>1, <2>2 DEF ClosesOwn, Unlisted, HeldInv
<1>7. CASE ClosesIdle(t)
  <2>1. PICK X \in SUBSET IdleSockets : CloseUnusable(X)
    BY <1>7 DEF ClosesIdle
  <2>2. \A s \in Slots : pool'[s] = IF IdleSlot(s) /\ pool[s].socket \in X THEN EmptySlot ELSE pool[s]
    BY <2>1 DEF CloseUnusable
  <2>3. QED
    BY <1>2, <1>7, <2>2 DEF ClosesIdle, EmptySlot, IdleSlot, HeldInv
<1>8. CASE Takes(t)
  <2>1. PICK s \in Slots : IdleSlot(s) /\ TakeSlot(s) /\ SetConn(t, pool[s].socket)
    BY <1>8 DEF Takes, Reusable
  <2>2. \A r \in Slots : /\ pool'[r].socket = pool[r].socket
                         /\ pool'[r].inUse <=> r = s \/ pool[r].inUse
    BY <1>1, <2>1 DEF TakeSlot, SlotType
  <2>3. \A u \in Threads : conn'[u].socket = IF u = t THEN pool[s].socket ELSE conn[u].socket
    BY <1>1, <2>1 DEF SetConn
  <2>4. conn[t].socket = NoSocket /\ pool[s].socket # NoSocket /\ ~pool[s].inUse
    BY <1>8, <2>1 DEF Takes, Search, IdleSlot, ReuseInv, PlaceInv, Placed
  <2>5. QED
    BY <1>2, <2>2, <2>3, <2>4 DEF HeldInv
<1>9. CASE Dials(t)
  <2>1. PICK x \in Sockets \ open : SetConn(t, x) /\ pool' = pool
    BY <1>9 DEF Dials
  <2>2. \A u \in Threads : conn'[u].socket = IF u = t THEN x ELSE conn[u].socket
    BY <1>1, <2>1 DEF SetConn
  <2>3. conn[t].socket = NoSocket
    BY <1>9 DEF Dials, Dial, ReuseInv, PlaceInv, Placed
  <2>4. /\ \A u \in Threads : conn[u].socket # x
        /\ \A s \in Slots : pool[s].socket # x
    BY <1>1, <1>2, <2>1 DEF OpenInv
  <2>5. QED
    BY <1>1, <1>2, <2>1, <2>2, <2>3, <2>4 DEF HeldInv
<1>10. CASE Forgets(t)
  <2>1. \A s \in Slots :
          pool'[s] = IF pool[s].socket = conn[t].socket THEN EmptySlot ELSE pool[s]
    BY <1>10 DEF Forgets, Forget, SlotsOf
  <2>2. QED
    BY <1>2, <1>10, <2>1 DEF Forgets, EmptySlot, HeldInv
<1>11. QED
    BY <1>3, <1>4, <1>5, <1>6, <1>7, <1>8, <1>9, <1>10, Effects

\* A connection is connected to where its record says.
LEMMA RightlyNoted ==
  ASSUME ReuseInv, NEW t \in Threads, Step(t)
  PROVE  /\ \A u \in Threads : conn'[u].socket # NoSocket => peer'[conn'[u].socket] = conn'[u].dest
         /\ \A s \in Slots : pool'[s].socket # NoSocket => peer'[pool'[s].socket] = pool'[s].dest
<1> DEFINE Right ==
      /\ \A u \in Threads : conn[u].socket # NoSocket => peer[conn[u].socket] = conn[u].dest
      /\ \A s \in Slots : pool[s].socket # NoSocket => peer[pool[s].socket] = pool[s].dest
<1> SUFFICES Right'
    OBVIOUS
<1>1. /\ conn \in [Threads -> ConnType] /\ pool \in [Slots -> SlotType] /\ NoSocket \notin Sockets
      /\ open \subseteq Sockets /\ peer \in [Sockets -> Dests \cup {NoDest}]
    BY PoolAssumption DEF ReuseInv, TypeOK, ConnType, SlotType
<1>2. HeldInv /\ OpenInv /\ Right
    BY DEF ReuseInv, DestInv
<1>3. CASE Starts(t) \/ Finishes(t) \/ Keeps(t)
    BY <1>2, <1>3 DEF Starts, Finishes, Keeps
<1>4. CASE LeavesBehind(t)
    BY <1>1, <1>2, <1>4 DEF LeavesBehind, MarkUnused, ClearConn, NoConn, SlotType
<1>5. CASE Lists(t)
    BY <1>1, <1>2, <1>5 DEF Lists, StoreIn, FreeSlots, ClearConn, NoConn
<1>6. CASE ClosesOwn(t)
  <2>1. Unlisted(conn[t].socket)
    BY <1>6
    DEF ClosesOwn, ReuseInv, PlaceInv, Placed, RouteClose, NotOwn, Drop, Store, StopClose, Unlisted
  <2>2. \A u \in Threads : conn'[u] = IF u = t THEN NoConn ELSE conn[u]
    BY <1>1, <1>6 DEF ClosesOwn, ClearConn
  <2>3. \A x \in Sockets : x # conn[t].socket => peer'[x] = peer[x]
    BY <1>1, <1>6 DEF ClosesOwn, CloseSockets
  <2>4. QED
    BY <1>1, <1>2, <1>6, <2>1, <2>2, <2>3 DEF ClosesOwn, NoConn, Unlisted, OpenInv, HeldInv
<1>7. CASE ClosesIdle(t)
  <2>1. PICK X \in SUBSET IdleSockets : CloseUnusable(X)
    BY <1>7 DEF ClosesIdle
  <2>2. \A u \in Threads : conn[u].socket \notin X
    BY <2>1 DEF IdleSockets, IdleSlot, ReuseInv, HeldInv
  <2>3. \A s \in Slots : pool[s].socket \in X => IdleSlot(s)
    BY <2>1 DEF IdleSockets, IdleSlot, ReuseInv, HeldInv
  <2>4. \A x \in Sockets : x \notin X => peer'[x] = peer[x]
    BY <1>1, <2>1 DEF CloseUnusable, CloseSockets
  <2>5. \A s \in Slots : pool'[s] = IF IdleSlot(s) /\ pool[s].socket \in X THEN EmptySlot ELSE pool[s]
    BY <2>1 DEF CloseUnusable
  <2>6. QED
    BY <1>1, <1>2, <1>7, <2>2, <2>3, <2>4, <2>5 DEF ClosesIdle, EmptySlot, OpenInv
<1>8. CASE Takes(t)
  <2>1. PICK s \in Slots : /\ IdleSlot(s) /\ TakeSlot(s) /\ SetConn(t, pool[s].socket)
                           /\ pool[s].dest = req[t].dest /\ peer' = peer
    BY <1>8 DEF Takes, Reusable, Matches
  <2>2. \A r \in Slots : pool'[r].socket = pool[r].socket /\ pool'[r].dest = pool[r].dest
    BY <1>1, <2>1 DEF TakeSlot, SlotType
  <2>3. QED
    BY <1>1, <1>2, <2>1, <2>2 DEF SetConn, IdleSlot
<1>9. CASE Dials(t)
  <2>1. PICK x \in Sockets \ open :
          SetConn(t, x) /\ pool' = pool /\ peer' = [peer EXCEPT ![x] = req[t].dest]
    BY <1>9 DEF Dials
  <2>2. /\ \A u \in Threads : conn[u].socket # x
        /\ \A s \in Slots : pool[s].socket # x
    BY <1>1, <1>2, <2>1 DEF OpenInv
  <2>3. QED
    BY <1>1, <1>2, <2>1, <2>2 DEF SetConn, OpenInv
<1>10. CASE Forgets(t)
    BY <1>1, <1>2, <1>10 DEF Forgets, Forget, EmptySlot
<1>11. QED
    BY <1>3, <1>4, <1>5, <1>6, <1>7, <1>8, <1>9, <1>10, Effects

-----------------------------------------------------------------------------
(* Places.                                                                 *)

\* A thread does not touch what belongs to the others.
LEMMA OthersKept ==
  ASSUME ReuseInv, NEW t \in Threads, Step(t), NEW u \in Threads, u # t
  PROVE  at'[u] = at[u] /\ conn'[u] = conn[u] /\ req'[u] = req[u] /\ flags'[u] = flags[u]
           /\ sharing'[u] = sharing[u]
<1> USE DEF ReuseInv, TypeOK, cspVars, Go
<1>1. at'[u] = at[u]
    BY DEF Step, Accept, Receive, Crunch, RouteOwn, RouteTlsDrop, RouteRemember, RouteClose,
      RouteNone, Store, Connect, Search, Dial, DialFails, Exchange, JudgeKeep, JudgeDrop, Drop,
      NextRequest, Leave, StopChatting, Elect, Monitor, Resign, Stop, StopClose
<1>2. conn'[u] = conn[u]
    BY Effects
    DEF Starts, Finishes, LeavesBehind, Lists, ClosesOwn, ClosesIdle, Takes, Dials, Forgets,
      Keeps, SetConn, ClearConn
<1>3. req'[u] = req[u] /\ sharing'[u] = sharing[u]
    BY DEF Step, Accept, Receive, Crunch, RouteOwn, RouteTlsDrop, RouteRemember, RouteClose,
      RouteNone, Store, Connect, Search, Dial, DialFails, Exchange, JudgeKeep, JudgeDrop, Drop,
      NextRequest, Leave, StopChatting, Elect, Monitor, Resign, Stop, StopClose
<1>4. flags'[u] = flags[u]
    BY DEF Step, Accept, Receive, Crunch, RouteOwn, RouteTlsDrop, RouteRemember, RouteClose,
      RouteNone, Store, Connect, Search, Dial, DialFails, Exchange, JudgeKeep, JudgeDrop, Drop,
      NextRequest, Leave, StopChatting, Elect, Monitor, Resign, Stop, StopClose
<1>5. QED
    BY <1>1, <1>2, <1>3, <1>4

\* A slot gets to list a connection only when a thread gives that connection away.
LEMMA UnlistedKept ==
  ASSUME ReuseInv, NEW t \in Threads, Step(t), NEW x, Unlisted(x)
  PROVE  Unlisted(x)' \/ (x = conn[t].socket /\ Store(t))
<1>1. /\ conn \in [Threads -> ConnType] /\ pool \in [Slots -> SlotType]
    BY DEF ReuseInv, TypeOK, ConnType, SlotType
<1>2. CASE LeavesBehind(t)
    BY <1>1, <1>2 DEF LeavesBehind, MarkUnused, SlotType, Unlisted
<1>3. CASE Lists(t)
    BY <1>1, <1>3 DEF Lists, StoreIn, FreeSlots, Unlisted
<1>4. CASE ClosesIdle(t)
    BY <1>1, <1>4 DEF ClosesIdle, CloseUnusable, EmptySlot, Unlisted
<1>5. CASE Takes(t)
    BY <1>1, <1>5 DEF Takes, Reusable, TakeSlot, SlotType, Unlisted
<1>6. CASE Forgets(t)
    BY <1>1, <1>6 DEF Forgets, Forget, EmptySlot, Unlisted
<1>7. CASE pool' = pool
    BY <1>7 DEF Unlisted
<1>8. QED
    BY <1>2, <1>3, <1>4, <1>5, <1>6, <1>7, Effects DEF Starts, Finishes, ClosesOwn, Dials, Keeps

\* Without MixedClients a connection is never closed behind the back of its slot.
LEMMA PlacedStep ==
  ASSUME Unmixed, ReuseInv, NEW t \in Threads, Step(t)
  PROVE  Placed(t)'
<1>1. /\ at \in [Threads -> Places] /\ conn \in [Threads -> ConnType]
      /\ req \in [Threads -> [dest: Dests \cup {NoDest}, ssl: BOOLEAN]]
      /\ sharing \in [Threads -> BOOLEAN] /\ NoSocket \notin Sockets
      /\ pool \in [Slots -> SlotType]
    BY PoolAssumption DEF ReuseInv, TypeOK, ConnType, SlotType
<1>2. Placed(t)
    BY DEF ReuseInv, PlaceInv
<1>3. CASE Accept(t) \/ Receive(t)
    BY <1>1, <1>2, <1>3 DEF Accept, Receive, Placed, Go, Unmixed, Scheme, TlsRequest, poolVars,
        osVars, Unlisted
<1>4. CASE Crunch(t)
    BY <1>1, <1>2, <1>4 DEF Crunch, Placed, Go, poolVars, osVars, Unlisted
<1>5. CASE RouteOwn(t) \/ RouteTlsDrop(t) \/ RouteNone(t)
    BY <1>1, <1>2, <1>5 DEF RouteOwn, RouteTlsDrop, RouteNone, Placed, Go, poolVars, osVars,
        Unlisted
<1>6. CASE RouteRemember(t)
    BY <1>1, <1>2, <1>6 DEF RouteRemember, NotOwn, SlotsOf, ClearConn, NoConn, Placed, Go, Unlisted
<1>7. CASE RouteClose(t) \/ Store(t)
    BY <1>1, <1>2, <1>7 DEF RouteClose, Store, ClearConn, NoConn, Placed, Go, poolVars, Unlisted
<1>8. CASE Connect(t)
    BY <1>1, <1>2, <1>8 DEF Connect, Placed, Go, Unlisted
<1>9. CASE Search(t)
    BY <1>1, <1>2, <1>9 DEF Search, Reusable, IdleSlot, SetConn, Placed, Go, Unlisted
<1>10. CASE Dial(t)
  <2>1. PICK x \in Sockets \ open : SetConn(t, x)
    BY <1>10 DEF Dial
  <2>2. \A s \in Slots : pool[s].socket # x
    BY <1>1, <2>1 DEF ReuseInv, OpenInv
  <2>3. QED
    BY <1>1, <1>2, <1>10, <2>1, <2>2 DEF Dial, SetConn, Placed, Go, poolVars, Unlisted
<1>11. CASE DialFails(t) \/ Exchange(t) \/ JudgeKeep(t)
    BY <1>1, <1>2, <1>11 DEF DialFails, Exchange, JudgeKeep, Placed, Go, poolVars, osVars, Unlisted
<1>12. CASE JudgeDrop(t)
    BY <1>1, <1>2, <1>12 DEF JudgeDrop, Judged, Forget, SlotsOf, EmptySlot, Placed, Go, Unlisted
<1>13. CASE Drop(t) \/ NextRequest(t) \/ StopChatting(t)
    BY <1>1, <1>2, <1>13 DEF Drop, NextRequest, StopChatting, ClearConn, NoConn, Placed, Go,
        poolVars, osVars, Unlisted
<1>14. CASE Leave(t)
    BY <1>1, <1>2, <1>14 DEF Leave, SlotsOf, ClearConn, NoConn, Placed, Go, Unlisted
<1>15. CASE Elect(t) \/ Monitor(t) \/ Resign(t)
    BY <1>1, <1>2, <1>15 DEF Elect, Monitor, Resign, Placed, Go, Unlisted, osVars
<1>16. CASE Stop(t)
    BY <1>1, <1>2, <1>16 DEF Stop, Forget, SlotsOf, EmptySlot, Placed, Go, Unlisted
<1>17. CASE StopClose(t)
    BY <1>1, <1>2, <1>17 DEF StopClose, ClearConn, NoConn, NoReq, Placed, Go, poolVars, Unlisted
<1>18. QED
    BY <1>3, <1>4, <1>5, <1>6, <1>7, <1>8, <1>9, <1>10, <1>11, <1>12, <1>13, <1>14, <1>15,
       <1>16, <1>17 DEF Step

\* What one thread does leaves the places of the others right.
LEMMA PlaceInvStep ==
  ASSUME Unmixed, ReuseInv, NEW t \in Threads, Step(t)
  PROVE  PlaceInv'
<1>1. \A u \in Threads : Placed(u)
    BY DEF ReuseInv, PlaceInv
<1>2. ASSUME NEW u \in Threads, u # t PROVE Placed(u)'
  <2>1. Unlisted(conn[u].socket) => Unlisted(conn[u].socket)'
    <3>1. conn[u].socket # conn[t].socket \/ conn[u].socket = NoSocket
      BY <1>2 DEF ReuseInv, HeldInv
    <3>2. QED
      BY <1>2, <3>1, UnlistedKept, OthersKept DEF Unlisted
  <2>2. QED
    BY <1>1, <1>2, <2>1, OthersKept DEF Placed
<1>3. QED
    BY <1>2, PlacedStep DEF PlaceInv

\* A thread takes, keeps or opens a connection for the destination of its request.
LEMMA DestInvStep ==
  ASSUME ReuseInv, NEW t \in Threads, Step(t)
  PROVE  DestInv'
<1> DEFINE Bound(u) ==
      /\ at[u] = "exchange" => conn[u].dest = req[u].dest
      /\ at[u] \in {"route", "routeTls", "storeOld", "connect", "search", "dial", "exchange"}
           => req[u].dest \in Dests
<1>1. \A u \in Threads : Bound(u)
    BY DEF ReuseInv, DestInv
<1>2. ASSUME NEW u \in Threads, u # t PROVE Bound(u)'
    BY <1>1, <1>2, OthersKept
<1>3. /\ at \in [Threads -> Places] /\ conn \in [Threads -> ConnType]
      /\ req \in [Threads -> [dest: Dests \cup {NoDest}, ssl: BOOLEAN]]
    BY DEF ReuseInv, TypeOK, ConnType
<1>4. Bound(t)'
  <2>1. CASE Accept(t) \/ Crunch(t) \/ JudgeKeep(t) \/ JudgeDrop(t) \/ Drop(t)
             \/ NextRequest(t) \/ Leave(t) \/ StopChatting(t) \/ DialFails(t) \/ Exchange(t)
    BY <1>3, <2>1 DEF Accept, Crunch, JudgeKeep, JudgeDrop, Drop, NextRequest, Leave,
      StopChatting, DialFails, Exchange, Go
  <2>2. CASE Elect(t) \/ Monitor(t) \/ Resign(t) \/ Stop(t) \/ StopClose(t)
    BY <1>3, <2>2 DEF Elect, Monitor, Resign, Stop, StopClose, Go
  <2>3. CASE Receive(t)
    BY <1>3, <2>3 DEF Receive, Go
  <2>4. CASE RouteOwn(t) \/ RouteTlsDrop(t)
    BY <1>1, <1>3, <2>4 DEF RouteOwn, RouteTlsDrop, Matches, Go
  <2>5. CASE RouteRemember(t) \/ RouteClose(t) \/ RouteNone(t)
    BY <1>1, <1>3, <2>5 DEF RouteRemember, RouteClose, NotOwn, RouteNone, Go
  <2>6. CASE Store(t) \/ Connect(t)
    BY <1>1, <1>3, <2>6 DEF Store, Connect, Go
  <2>7. CASE Search(t) \/ Dial(t)
    BY <1>1, <1>3, <2>7 DEF Search, Dial, SetConn, Go
  <2>8. QED
    BY <2>1, <2>2, <2>3, <2>4, <2>5, <2>6, <2>7 DEF Step
<1>5. QED
    BY <1>2, <1>4, RightlyNoted DEF DestInv

\* Only an exchange leaves something unread, and then serve() or the end of chat() sees to
\* it that the connection is not used again.
LEMMA CleanInvStep ==
  ASSUME Unmixed, ReuseInv, NEW t \in Threads, Step(t)
  PROVE  CleanInv'
<1> DEFINE Excused(u) ==
      \/ at[u] \in {"exchange", "drop", "stop", "stopClose"}
      \/ at[u] = "judge" /\ (flags[u].tainted \/ ~(flags[u].crunched \/ flags[u].serverKA))
      \/ at[u] = "next" /\ flags[u].tainted
<1>1. CleanInv /\ HeldInv /\ OpenInv
    BY DEF ReuseInv
<1>2. /\ at \in [Threads -> Places] /\ conn \in [Threads -> ConnType]
      /\ pool \in [Slots -> SlotType] /\ flags \in [Threads -> FlagsType]
      /\ open \subseteq Sockets /\ pending \subseteq open /\ NoSocket \notin Sockets
    BY PoolAssumption DEF ReuseInv, TypeOK, ConnType, SlotType
<1>3. \A s \in Slots : ~pool'[s].inUse => pool'[s].socket \notin pending'
  <2>1. CASE Starts(t)
    BY <1>1, <1>2, <2>1 DEF Starts, HeldInv, CleanInv
  <2>2. CASE Finishes(t) \/ Keeps(t)
    BY <1>1, <2>2 DEF Finishes, Keeps, CleanInv
  <2>3. CASE LeavesBehind(t)
    <3>1. conn[t].socket \notin pending
      BY <1>1, <2>3 DEF LeavesBehind, RouteRemember, NotOwn, Leave, ContinueChatting, CleanInv
    <3>2. QED
      BY <1>1, <1>2, <2>3, <3>1 DEF LeavesBehind, MarkUnused, SlotsOf, SlotType, CleanInv
  <2>4. CASE Lists(t)
    <3>1. conn[t].socket \notin pending
      BY <1>1, <2>4 DEF Lists, Store, CleanInv
    <3>2. QED
      BY <1>1, <1>2, <2>4, <3>1 DEF Lists, StoreIn, FreeSlots, CleanInv
  <2>5. CASE ClosesOwn(t)
    BY <1>1, <2>5 DEF ClosesOwn, CloseSockets, CleanInv
  <2>6. CASE ClosesIdle(t)
    BY <1>1, <1>2, <2>6 DEF ClosesIdle, CloseUnusable, CloseSockets, EmptySlot, CleanInv
  <2>7. CASE Takes(t)
    <3>1. PICK s \in Slots : /\ IdleSlot(s) /\ TakeSlot(s)
                             /\ pending' = pending \cup {pool[s].socket}
      BY <2>7 DEF Takes, Reusable
    <3>2. \A r \in Slots : /\ pool'[r].socket = pool[r].socket
                           /\ pool'[r].inUse <=> r = s \/ pool[r].inUse
      BY <1>2, <3>1 DEF TakeSlot, SlotType
    <3>3. QED
      BY <1>1, <3>1, <3>2 DEF IdleSlot, HeldInv, CleanInv
  <2>8. CASE Dials(t)
    BY <1>1, <1>2, <2>8 DEF Dials, OpenInv, CleanInv
  <2>9. CASE Forgets(t)
    BY <1>1, <1>2, <2>9 DEF Forgets, Forget, EmptySlot, CleanInv
  <2>10. QED
    BY <2>1, <2>2, <2>3, <2>4, <2>5, <2>6, <2>7, <2>8, <2>9, Effects
<1>4. ASSUME NEW u \in Threads, u # t, conn'[u].socket \in pending' PROVE Excused(u)'
  <2>1. at'[u] = at[u] /\ conn'[u] = conn[u] /\ flags'[u] = flags[u]
    BY <1>4, OthersKept
  <2>2. conn[u].socket \in pending
    <3>1. CASE Starts(t)
      BY <1>1, <1>4, <2>1, <3>1 DEF Starts, HeldInv
    <3>2. CASE Takes(t)
      <4>1. PICK s \in Slots : IdleSlot(s) /\ pending' = pending \cup {pool[s].socket}
        BY <3>2 DEF Takes, Reusable
      <4>2. conn[u].socket # pool[s].socket
        BY <1>1, <4>1 DEF IdleSlot, HeldInv
      <4>3. QED
        BY <1>4, <2>1, <4>1, <4>2
    <3>3. CASE Dials(t)
      BY <1>1, <1>2, <1>4, <2>1, <3>3 DEF Dials, OpenInv
    <3>4. CASE pending' \subseteq pending
      BY <1>4, <2>1, <3>4
    <3>5. QED
      BY <3>1, <3>2, <3>3, <3>4, Effects
      DEF Finishes, LeavesBehind, Lists, ClosesOwn, ClosesIdle, CloseUnusable, CloseSockets,
          Forgets, Keeps
  <2>3. QED
    BY <1>1, <2>1, <2>2 DEF CleanInv
<1>5. ASSUME conn'[t].socket \in pending' PROVE Excused(t)'
  <2>1. conn[t].socket \in pending => Excused(t)
    BY <1>1 DEF CleanInv
  <2>2. CASE RouteOwn(t) \/ Search(t) \/ Dial(t)
    BY <1>2, <1>5, <2>1, <2>2 DEF RouteOwn, Search, Dial, Go
  <2>3. CASE Accept(t) \/ Receive(t) \/ Crunch(t) \/ RouteTlsDrop(t) \/ RouteNone(t) \/ NextRequest(t)
    BY <1>2, <1>5, <2>1, <2>3 DEF Accept, Receive, Crunch, RouteTlsDrop, RouteNone, NextRequest, Go,
      ContinueChatting, osVars
  <2>4. CASE RouteRemember(t) \/ Leave(t)
    BY <1>2, <1>5, <2>1, <2>4 DEF RouteRemember, Leave, ContinueChatting, NotOwn, ClearConn,
        NoConn, osVars
  <2>5. CASE RouteClose(t) \/ Store(t) \/ Drop(t) \/ StopClose(t)
    <3>1. ClearConn(t) /\ pending' \subseteq pending
      BY <2>5 DEF RouteClose, Store, Drop, StopClose, CloseSockets, osVars
    <3>2. QED
      BY <1>2, <1>5, <3>1 DEF ClearConn, NoConn
  <2>6. CASE Connect(t)
    BY <1>2, <1>5, <2>1, <2>6 DEF Connect, CloseUnusable, CloseSockets, osVars
  <2>7. CASE DialFails(t) \/ Stop(t) \/ StopChatting(t) \/ JudgeDrop(t)
    BY <1>2, <2>7 DEF DialFails, Stop, StopChatting, JudgeDrop, Go
  <2>8. CASE Exchange(t)
    BY <1>2, <1>5, <2>8 DEF Exchange, Go, FlagsType
  <2>9. CASE JudgeKeep(t)
    BY <1>2, <1>5, <2>1, <2>9 DEF JudgeKeep, Judged, Keepable, Go, osVars
  <2>10. CASE Elect(t) \/ Monitor(t) \/ Resign(t)
    BY <1>2, <1>5, <2>1, <2>10 DEF Elect, Monitor, Resign, CloseUnusable, CloseSockets, osVars
  <2>11. QED
    BY <2>2, <2>3, <2>4, <2>5, <2>6, <2>7, <2>8, <2>9, <2>10 DEF Step
<1>6. QED
    BY <1>3, <1>4, <1>5 DEF CleanInv

\* The flag is tested and set under the mutex.
LEMMA MonitorInvStep ==
  ASSUME ReuseInv, NEW t \in Threads, Step(t)
  PROVE  MonitorInv'
<1> USE DEF MonitorInv
<1>1. MonitorInv /\ at \in [Threads -> Places] /\ monitor \in BOOLEAN
    BY DEF ReuseInv, TypeOK
<1>2. \A u \in Threads : u # t => at'[u] = at[u]
    BY OthersKept
<1>3. CASE Elect(t)
    BY <1>1, <1>2, <1>3 DEF Elect, Electable, Go
<1>4. CASE Monitor(t) \/ Resign(t)
    BY <1>1, <1>2, <1>4 DEF Monitor, Resign, Go
<1>5. CASE ~(Elect(t) \/ Monitor(t) \/ Resign(t))
  <2>1. monitor' = monitor
    BY <1>5 DEF Step, poolVars, Accept, Receive, Crunch, RouteOwn, RouteTlsDrop, RouteRemember,
        RouteClose,
      RouteNone, Store, Connect, Search, Dial, DialFails, Exchange, JudgeKeep, JudgeDrop, Drop,
      NextRequest, Leave, StopChatting, Stop, StopClose
  <2>2. at[t] \notin {"monitor", "resign"} /\ at'[t] \notin {"monitor", "resign"}
    BY <1>1, <1>5 DEF Step, Accept, Receive, Crunch, RouteOwn, RouteTlsDrop, RouteRemember,
        RouteClose, NotOwn, Judged,
      RouteNone, Store, Connect, Search, Dial, DialFails, Exchange, JudgeKeep, JudgeDrop, Drop,
      NextRequest, Leave, StopChatting, Stop, StopClose, Go
  <2>3. QED
    BY <1>1, <1>2, <2>1, <2>2
<1>6. QED
    BY <1>3, <1>4, <1>5

-----------------------------------------------------------------------------
(* Theorems.                                                               *)

\* Every step, those of the servers included, preserves the invariant.
LEMMA ReuseInvStep == Unmixed /\ ReuseInv /\ [Next]_vars => ReuseInv'
<1> SUFFICES ASSUME Unmixed, ReuseInv, [Next]_vars PROVE ReuseInv'
    OBVIOUS
<1>1. ASSUME NEW t \in Threads, Step(t) PROVE ReuseInv'
    BY <1>1, TypeOKStep, OpenInvStep, HeldInvStep, PlaceInvStep, DestInvStep, CleanInvStep,
       MonitorInvStep DEF ReuseInv
<1>2. CASE ServerCloses
    BY <1>2 DEF ServerCloses, poolVars, cspVars, ReuseInv, TypeOK, OpenInv, HeldInv, PlaceInv,
      Placed, Unlisted, DestInv, CleanInv, MonitorInv
<1>3. CASE UNCHANGED vars
    BY <1>3 DEF vars, poolVars, cspVars, osVars, ReuseInv, TypeOK, OpenInv, HeldInv, PlaceInv,
      Placed, Unlisted, DestInv, CleanInv, MonitorInv
<1>4. QED
    BY <1>1, <1>2, <1>3 DEF Next

\* The inductive invariant of the slots, for any number of clients, slots and sockets.
THEOREM ReuseInvariant == ASSUME Unmixed PROVE Spec => []ReuseInv
<1>1. ReuseInv /\ [Next]_vars => ReuseInv'
    BY ReuseInvStep
<1>2. QED
    BY InitReuse, <1>1, PTL DEF Spec

\* A slot in use belongs to one thread, the assertions of forget_connection() and
\* mark_connection_unused() hold, and there is one monitor as long as the flag says so.
THEOREM PoolConsistent == ASSUME Unmixed PROVE Spec => []PoolInv
<1>1. ReuseInv => PoolInv
  <2> SUFFICES ASSUME ReuseInv PROVE PoolInv
    OBVIOUS
  <2>1. SlotsInUseAreHeld
    <3> SUFFICES ASSUME NEW s \in Slots, pool[s].inUse
                 PROVE  Cardinality(Holders(pool[s].socket)) = 1
      BY DEF SlotsInUseAreHeld
    <3>1. PICK t \in Threads : conn[t].socket = pool[s].socket
      BY DEF ReuseInv, HeldInv
    <3>2. Holders(pool[s].socket) = {t}
      BY <3>1 DEF Holders, ReuseInv, HeldInv
    <3>3. QED
      BY <3>2, FS_Singleton
  <2>2. AssertionsHold
    BY DEF AssertionsHold, SlotsOf, ReuseInv, HeldInv
  <2>3. OneMonitor
    <3> DEFINE Monitors == {t \in Threads : at[t] \in {"monitor", "resign"}}
    <3>1. CASE monitor
      <4>1. PICK t \in Threads : at[t] \in {"monitor", "resign"}
        BY <3>1 DEF ReuseInv, MonitorInv
      <4>2. Monitors = {t}
        BY <4>1 DEF ReuseInv, MonitorInv
      <4>3. QED
        BY <3>1, <4>2, FS_Singleton DEF OneMonitor
    <3>2. CASE ~monitor
      <4>1. Monitors = {}
        BY <3>2 DEF ReuseInv, MonitorInv
      <4>2. QED
        BY <3>2, <4>1, FS_EmptySet DEF OneMonitor
    <3>3. QED
      BY <3>1, <3>2
  <2>4. QED
    BY <2>1, <2>2, <2>3 DEF PoolInv
<1>2. QED
    BY ReuseInvariant, <1>1, PTL

\* A request is sent to its own destination, through whosever connection.
THEOREM RightDestination == ASSUME Unmixed PROVE Spec => []RequestsGoToDestination
<1>1. ReuseInv => RequestsGoToDestination
    BY DEF RequestsGoToDestination, ReuseInv, PlaceInv, Placed, DestInv
<1>2. QED
    BY ReuseInvariant, <1>1, PTL

\* No request is sent on a connection whose last response was not read to its end.
THEOREM CleanReuse == ASSUME Unmixed PROVE Spec => ReusedOnlyWhenClean
<1>1. ASSUME ReuseInv, [Next]_vars, NEW u \in Threads, at[u] # "exchange", at'[u] = "exchange"
      PROVE  conn'[u].socket \notin pending
  <2>1. PICK t \in Threads : Step(t)
    BY <1>1 DEF Next, ServerCloses, vars, cspVars
  <2>2. u = t
    BY <1>1, <2>1, OthersKept
  <2>3. /\ at \in [Threads -> Places] /\ conn \in [Threads -> ConnType]
        /\ open \subseteq Sockets /\ pending \subseteq open
    BY <1>1 DEF ReuseInv, TypeOK, ConnType
  <2>4. RouteOwn(t) \/ (Search(t) /\ at'[t] = "exchange") \/ Dial(t)
    BY <1>1, <2>1, <2>2, <2>3 DEF Step, Accept, Receive, Crunch, RouteTlsDrop, RouteRemember,
        RouteClose,
      RouteNone, Store, Connect, Search, DialFails, Exchange, JudgeKeep, JudgeDrop, Drop,
      NextRequest, Leave, StopChatting, Elect, Monitor, Resign, Stop, StopClose, Go
  <2>5. CASE RouteOwn(t)
    BY <1>1, <2>2, <2>5 DEF RouteOwn, ReuseInv, CleanInv
  <2>6. CASE Search(t) /\ at'[t] = "exchange"
    BY <1>1, <2>2, <2>3, <2>6 DEF Search, Go, Reusable, IdleSlot, SetConn, ReuseInv, CleanInv
  <2>7. CASE Dial(t)
    BY <2>2, <2>3, <2>7 DEF Dial, SetConn
  <2>8. QED
    BY <2>4, <2>5, <2>6, <2>7
<1>2. ReuseInv /\ [Next]_vars =>
        \A t \in Threads : at[t] # "exchange" /\ at'[t] = "exchange" => conn'[t].socket \notin pending
    BY <1>1
<1>3. QED
    BY ReuseInvariant, <1>2, PTL DEF Spec, ReusedOnlyWhenClean

-----------------------------------------------------------------------------
(* The refinement of Ownership.                                            *)

\* No open socket is lost: a thread has it, or a slot lists it.
ListedInv ==
  \A x \in open : (\E t \in Threads : conn[t].socket = x) \/ (\E s \in Slots : pool[s].socket = x)

\* Sockets that a slot stops listing are closed, or still a thread's.
LEMMA ListedInvStep ==
  ASSUME ReuseInv, ListedInv, NEW t \in Threads, Step(t)
  PROVE  ListedInv'
<1>1. /\ conn \in [Threads -> ConnType] /\ pool \in [Slots -> SlotType] /\ NoSocket \notin Sockets
      /\ open \subseteq Sockets
    BY PoolAssumption DEF ReuseInv, TypeOK, ConnType, SlotType
<1> SUFFICES ASSUME NEW x \in open'
             PROVE  \/ \E u \in Threads : conn'[u].socket = x
                    \/ \E s \in Slots : pool'[s].socket = x
    BY DEF ListedInv
<1>2. x \in open => \/ \E u \in Threads : conn[u].socket = x
                    \/ \E s \in Slots : pool[s].socket = x
    BY DEF ListedInv
<1>3. CASE Starts(t) \/ Finishes(t) \/ Keeps(t)
    BY <1>2, <1>3 DEF Starts, Finishes, Keeps
<1>4. CASE LeavesBehind(t)
  <2>1. PICK s \in Slots : pool[s].socket = conn[t].socket
    BY <1>4 DEF LeavesBehind, MarkUnused, SlotsOf
  <2>2. \A r \in Slots : pool'[r].socket = pool[r].socket
    BY <1>1, <1>4 DEF LeavesBehind, MarkUnused, SlotType
  <2>3. \A u \in Threads : u # t => conn'[u].socket = conn[u].socket
    BY <1>1, <1>4 DEF LeavesBehind, ClearConn
  <2>4. QED
    BY <1>2, <1>4, <2>1, <2>2, <2>3 DEF LeavesBehind
<1>5. CASE Lists(t)
  <2>1. PICK s \in Slots : StoreIn(s, conn[t]) /\ pool[s].socket = NoSocket
    BY <1>5 DEF Lists, FreeSlots
  <2>2. \A r \in Slots : pool'[r].socket = IF r = s THEN conn[t].socket ELSE pool[r].socket
    BY <1>1, <2>1 DEF StoreIn
  <2>3. \A u \in Threads : u # t => conn'[u].socket = conn[u].socket
    BY <1>1, <1>5 DEF Lists, ClearConn
  <2>4. QED
    BY <1>1, <1>2, <1>5, <2>1, <2>2, <2>3 DEF Lists
<1>6. CASE ClosesOwn(t)
  <2>1. x \in open /\ x # conn[t].socket /\ pool' = pool
    BY <1>1, <1>6 DEF ClosesOwn, CloseSockets
  <2>2. \A u \in Threads : u # t => conn'[u].socket = conn[u].socket
    BY <1>1, <1>6 DEF ClosesOwn, ClearConn
  <2>3. QED
    BY <1>2, <2>1, <2>2
<1>7. CASE ClosesIdle(t)
  <2>1. PICK X \in SUBSET IdleSockets : CloseUnusable(X)
    BY <1>7 DEF ClosesIdle
  <2>2. x \in open /\ x \notin X
    BY <2>1 DEF CloseUnusable, CloseSockets
  <2>3. \A s \in Slots : pool[s].socket = x => pool'[s].socket = x
    BY <1>1, <2>1, <2>2 DEF CloseUnusable
  <2>4. QED
    BY <1>2, <1>7, <2>2, <2>3 DEF ClosesIdle
<1>8. CASE Takes(t)
  <2>1. PICK s \in Slots : TakeSlot(s)
    BY <1>8 DEF Takes, Reusable
  <2>2. \A r \in Slots : pool'[r].socket = pool[r].socket
    BY <1>1, <2>1 DEF TakeSlot, SlotType
  <2>3. conn[t].socket = NoSocket
    BY <1>8 DEF Takes, Search, ReuseInv, PlaceInv, Placed
  <2>4. QED
    BY <1>1, <1>2, <1>8, <2>2, <2>3, OthersKept DEF Takes
<1>9. CASE Dials(t)
  <2>1. conn[t].socket = NoSocket
    BY <1>9 DEF Dials, Dial, ReuseInv, PlaceInv, Placed
  <2>2. QED
    BY <1>1, <1>2, <1>9, <2>1, OthersKept DEF Dials, SetConn
<1>10. CASE Forgets(t)
  <2>1. \A s \in Slots : pool[s].socket # conn[t].socket => pool'[s] = pool[s]
    BY <1>10 DEF Forgets, Forget, SlotsOf
  <2>2. QED
    BY <1>2, <1>10, <2>1 DEF Forgets
<1>11. QED
    BY <1>3, <1>4, <1>5, <1>6, <1>7, <1>8, <1>9, <1>10, Effects

\* The destination an open socket is noted with, as the refinement has it.
peerOf == [x \in Sockets |-> IF x \in open THEN notedOf(x) ELSE {}]

\* What the refinement makes of a socket.
Owned ==
  \A x \in Sockets :
    /\ x \notin open => ownerOf[x] = "closed" /\ peerOf[x] = {}
    /\ \A t \in Threads : conn[t].socket = x => ownerOf[x] = t /\ peerOf[x] = {conn[t].dest}
    /\ \A s \in Slots : pool[s].socket = x /\ ~pool[s].inUse =>
         ownerOf[x] = "idle" /\ peerOf[x] = {pool[s].dest}

\* The refinement mapping, in terms of connections and slots.
LEMMA OwnerAndPeer == ReuseInv => Owned
<1> SUFFICES ASSUME ReuseInv, NEW x \in Sockets
             PROVE  /\ x \notin open => ownerOf[x] = "closed" /\ peerOf[x] = {}
                    /\ \A t \in Threads :
                         conn[t].socket = x => ownerOf[x] = t /\ peerOf[x] = {conn[t].dest}
                    /\ \A s \in Slots : pool[s].socket = x /\ ~pool[s].inUse =>
                         ownerOf[x] = "idle" /\ peerOf[x] = {pool[s].dest}
    BY DEF Owned
<1>1. HeldInv /\ OpenInv /\ x # NoSocket
    BY PoolAssumption DEF ReuseInv
<1>2. x \notin open => ownerOf[x] = "closed" /\ peerOf[x] = {}
    BY DEF ownerOf, peerOf
<1>3. ASSUME NEW t \in Threads, conn[t].socket = x
      PROVE  ownerOf[x] = t /\ peerOf[x] = {conn[t].dest}
  <2>1. Holders(x) = {t}
    BY <1>1, <1>3 DEF Holders, HeldInv
  <2>2. keeper(x) = t
    BY <2>1 DEF keeper
  <2>3. x \in open
    BY <1>1, <1>3 DEF OpenInv
  <2>4. QED
    BY <2>1, <2>2, <2>3 DEF ownerOf, peerOf, notedOf
<1>4. ASSUME NEW s \in Slots, pool[s].socket = x, ~pool[s].inUse
      PROVE  ownerOf[x] = "idle" /\ peerOf[x] = {pool[s].dest}
  <2>1. Holders(x) = {}
    BY <1>1, <1>4 DEF Holders, HeldInv
  <2>2. SlotsOf(x) = {s}
    BY <1>1, <1>4 DEF SlotsOf, HeldInv
  <2>3. x \in open
    BY <1>1, <1>4 DEF OpenInv
  <2>4. {pool[r].dest : r \in SlotsOf(x)} = {pool[s].dest}
    BY <2>2
  <2>5. QED
    BY <2>1, <2>3, <2>4 DEF ownerOf, peerOf, notedOf
<1>5. QED
    BY <1>2, <1>3, <1>4

\* The same after a step.
LEMMA OwnedPrime == ReuseInv' => Owned'
BY OwnerAndPeer, PTL

\* A socket that a step leaves alone keeps its owner.
LEMMA Unaffected ==
  ASSUME NEW x \in Sockets, x \in open' <=> x \in open,
         \A u \in Threads : /\ conn'[u].socket = x <=> conn[u].socket = x
                            /\ conn[u].socket = x => conn'[u].dest = conn[u].dest,
         \A s \in Slots : /\ pool'[s].socket = x <=> pool[s].socket = x
                          /\ pool[s].socket = x => pool'[s].dest = pool[s].dest
  PROVE  ownerOf'[x] = ownerOf[x] /\ peerOf'[x] = peerOf[x]
<1>1. Holders(x)' = Holders(x)
    BY DEF Holders
<1>2. keeper(x)' = keeper(x)
    BY <1>1 DEF keeper
<1>3. {pool[s].dest : s \in SlotsOf(x)}' = {pool[s].dest : s \in SlotsOf(x)}
    BY DEF SlotsOf
<1>4. Holders(x) # {} => keeper(x) \in Holders(x)
    BY DEF keeper
<1>5. notedOf(x)' = notedOf(x)
    BY <1>1, <1>2, <1>3, <1>4 DEF notedOf, Holders
<1>6. QED
    BY <1>1, <1>2, <1>5 DEF ownerOf, peerOf

\* Thread names are not those of the other two states.
NamesApart == "closed" \notin Threads /\ "idle" \notin Threads

\* Both modules extend FiniteSets.
LEMMA SameCardinality == \A S : Abstract!Cardinality(S) = Cardinality(S)
BY DEF Abstract!Cardinality, Cardinality

\* A connection can be left behind only while a slot is not needed for an idle one.
LEMMA RoomForIdle ==
  ASSUME NamesApart, ReuseInv, ListedInv,
         NEW r \in Slots, pool[r].inUse \/ pool[r].socket = NoSocket
  PROVE  Cardinality(Abstract!Idle) < Cardinality(Slots)
<1> DEFINE idle == Abstract!Idle
<1> DEFINE rest == Slots \ {r}
<1> DEFINE slotOf == [x \in idle |-> CHOOSE s \in Slots : pool[s].socket = x]
<1>1. \A x \in idle : x \in open /\ \A t \in Threads : conn[t].socket # x
  <2> SUFFICES ASSUME NEW x \in idle PROVE x \in open /\ \A t \in Threads : conn[t].socket # x
    OBVIOUS
  <2>1. x \in Sockets /\ ownerOf[x] = "idle"
    BY DEF Abstract!Idle
  <2>2. QED
    BY <2>1, OwnerAndPeer DEF Owned, NamesApart
<1>2. \A x \in idle : /\ slotOf[x] \in Slots /\ pool[slotOf[x]].socket = x
                      /\ slotOf[x] # r
  <2> SUFFICES ASSUME NEW x \in idle
               PROVE  /\ slotOf[x] \in Slots /\ pool[slotOf[x]].socket = x
                      /\ slotOf[x] # r
    OBVIOUS
  <2>1. \E s \in Slots : pool[s].socket = x
    BY <1>1 DEF ListedInv
  <2>2. slotOf[x] \in Slots /\ pool[slotOf[x]].socket = x
    BY <2>1
  <2>3. x \in Sockets /\ x # NoSocket
    BY PoolAssumption DEF Abstract!Idle
  <2>4. QED
    BY <1>1, <2>2, <2>3 DEF ReuseInv, HeldInv
<1>3. slotOf \in Injection(idle, rest)
    BY <1>2 DEF Injection, IsInjective
<1>4. IsFiniteSet(rest) /\ Cardinality(rest) = Cardinality(Slots) - 1 /\ Cardinality(Slots) \in Nat
    BY PoolAssumption, FS_RemoveElement, FS_CardinalityType
<1>5. Cardinality(rest) \in Nat /\ IsFiniteSet(idle) /\ Cardinality(idle) <= Cardinality(rest)
    BY <1>3, <1>4, FS_Injection, FS_CardinalityType
<1>6. Cardinality(idle) \in Nat
    BY <1>5, FS_CardinalityType
<1>7. QED
    BY <1>4, <1>5, <1>6

\* The state of the refinement, socket by socket.
LEMMA SameMap ==
  ASSUME \A x \in Sockets : ownerOf'[x] = ownerOf[x] /\ peerOf'[x] = peerOf[x]
  PROVE  ownerOf' = ownerOf /\ peerOf' = peerOf
BY DEF ownerOf, peerOf

\* One socket changes, the others do not.
LEMMA UpdatedMap ==
  ASSUME NEW x \in Sockets, NEW o, NEW p, ownerOf'[x] = o, peerOf'[x] = p,
         \A y \in Sockets \ {x} : ownerOf'[y] = ownerOf[y] /\ peerOf'[y] = peerOf[y]
  PROVE  ownerOf' = [ownerOf EXCEPT ![x] = o] /\ peerOf' = [peerOf EXCEPT ![x] = p]
BY DEF ownerOf, peerOf

\* Closing sockets, as Ownership has it.
LEMMA ClosedMap ==
  ASSUME ReuseInv, ReuseInv', NEW X \in SUBSET Sockets, CloseSockets(X),
         \A x \in Sockets \ X : ownerOf'[x] = ownerOf[x] /\ peerOf'[x] = peerOf[x]
  PROVE  Abstract!CloseAll(X)
<1>1. \A x \in X : x \notin open'
    BY DEF CloseSockets
<1>2. \A x \in X : ownerOf'[x] = "closed" /\ peerOf'[x] = {}
    BY <1>1, OwnedPrime DEF Owned
<1>3. ownerOf' = [x \in Sockets |-> IF x \in X THEN "closed" ELSE ownerOf[x]]
    BY <1>2 DEF ownerOf
<1>4. peerOf' = [x \in Sockets |-> IF x \in X THEN {} ELSE peerOf[x]]
    BY <1>2 DEF peerOf
<1>5. pending' = pending \ X
    BY DEF CloseSockets
<1>6. QED
    BY <1>3, <1>4, <1>5 DEF Abstract!CloseAll, peerOf

\* Every step of a thread is a step of Ownership, or none.
LEMMA RefinementStep ==
  ASSUME NamesApart, ReuseInv, ReuseInv', ListedInv, NEW t \in Threads, Step(t)
  PROVE  Abstract!ONext
<1>0. PICK own : own = conn[t].socket
    OBVIOUS
<1> USE <1>0
<1>1. /\ conn \in [Threads -> ConnType] /\ pool \in [Slots -> SlotType] /\ NoSocket \notin Sockets
      /\ open \subseteq Sockets
    BY PoolAssumption DEF ReuseInv, TypeOK, ConnType, SlotType
<1>2. HeldInv /\ OpenInv /\ Owned /\ Owned'
    BY OwnerAndPeer, OwnedPrime DEF ReuseInv
<1>3. own # NoSocket => /\ own \in open /\ own \in Sockets /\ ownerOf[own] = t
                      /\ \A u \in Threads \ {t} : conn[u].socket # own
    BY <1>1, <1>2 DEF OpenInv, HeldInv, Owned
<1>4. \A u \in Threads \ {t} : conn'[u] = conn[u]
    BY OthersKept
<1>5. CASE UNCHANGED <<conn, pool, open>> /\ pending' = pending
  <2>1. ownerOf' = ownerOf /\ peerOf' = peerOf
    BY <1>5, Unaffected, SameMap
  <2>2. QED
    BY <1>5, <2>1 DEF Abstract!ONext, Abstract!oVars, peerOf
<1>6. CASE Starts(t) \/ (Finishes(t) /\ pending' # pending)
  <2>1. ownerOf' = ownerOf /\ peerOf' = peerOf
    BY <1>6, Unaffected, SameMap DEF Starts, Finishes
  <2>2. own # NoSocket
    BY <1>6 DEF Starts, Finishes, Exchange, ReuseInv, PlaceInv, Placed
  <2>3. Abstract!Use(own)
    BY <1>3, <1>6, <2>1, <2>2 DEF Starts, Finishes, Abstract!Use, peerOf
  <2>4. QED
    BY <1>3, <2>2, <2>3 DEF Abstract!ONext
<1>7. CASE LeavesBehind(t) \/ Lists(t)
  <2>1. own # NoSocket /\ own \notin pending
    <3>1. own \notin pending
      BY <1>7 DEF LeavesBehind, Lists, Store, RouteRemember, NotOwn, Leave, ContinueChatting,
          ReuseInv, CleanInv
    <3>2. QED
      BY <1>7, <3>1 DEF LeavesBehind, Lists, Store, ReuseInv, PlaceInv, Placed
  <2>2. conn'[t] = NoConn
    BY <1>1, <1>7 DEF LeavesBehind, Lists, ClearConn
  <2>3. PICK s \in Slots :
          /\ pool[s].inUse \/ pool[s].socket = NoSocket
          /\ pool[s].socket = own \/ pool[s].socket = NoSocket
          /\ pool'[s].socket = own /\ ~pool'[s].inUse /\ pool'[s].dest = conn[t].dest
          /\ \A r \in Slots \ {s} : pool'[r].socket = pool[r].socket /\ pool'[r].dest = pool[r].dest
    <3>1. CASE LeavesBehind(t)
      <4>1. PICK s \in Slots : pool[s].socket = own
        BY <3>1 DEF LeavesBehind, MarkUnused, SlotsOf
      <4>2. \A r \in Slots : pool'[r].socket = pool[r].socket /\ pool'[r].dest = pool[r].dest
        BY <1>1, <3>1 DEF LeavesBehind, MarkUnused, SlotType
      <4>3. ~pool'[s].inUse
        BY <1>1, <3>1, <4>1 DEF LeavesBehind, MarkUnused, SlotsOf, SlotType
      <4>4. pool[s].inUse
        BY <1>2, <2>1, <4>1 DEF HeldInv
      <4>5. pool[s].dest = conn[t].dest
        BY <1>2, <2>1, <4>1 DEF ReuseInv, DestInv
      <4>6. QED
        BY <4>1, <4>2, <4>3, <4>4, <4>5
    <3>2. CASE Lists(t)
      BY <1>1, <3>2 DEF Lists, StoreIn, FreeSlots
    <3>3. QED
      BY <1>7, <3>1, <3>2
  <2>4. open' = open /\ pending' = pending
    BY <1>7 DEF LeavesBehind, Lists
  <2>5. ownerOf'[own] = "idle" /\ peerOf'[own] = {conn[t].dest}
    BY <1>2, <1>3, <2>1, <2>3 DEF Owned
  <2>6. peerOf[own] = {conn[t].dest}
    BY <1>2, <1>3, <2>1 DEF Owned
  <2>7. ASSUME NEW y \in Sockets \ {own} PROVE ownerOf'[y] = ownerOf[y] /\ peerOf'[y] = peerOf[y]
    BY <1>1, <1>4, <2>2, <2>3, <2>4, Unaffected DEF NoConn
  <2>8. ownerOf' = [ownerOf EXCEPT ![own] = "idle"] /\ peerOf' = [peerOf EXCEPT ![own] = peerOf[own]]
    BY <1>3, <2>1, <2>5, <2>6, <2>7, UpdatedMap
  <2>9. ownerOf' = [ownerOf EXCEPT ![own] = "idle"] /\ peerOf' = peerOf
    BY <1>3, <2>1, <2>8 DEF peerOf
  <2>10. Abstract!Cardinality(Abstract!Idle) < Cardinality(Slots)
    BY <2>3, RoomForIdle, SameCardinality
  <2>11. Abstract!Use(own)
    BY <1>3, <2>1, <2>4, <2>9, <2>10 DEF Abstract!Use, peerOf
  <2>12. QED
    BY <1>3, <2>1, <2>11 DEF Abstract!ONext
<1>8. CASE ClosesOwn(t) /\ own # NoSocket
  <2>1. CloseSockets({own}) /\ conn'[t] = NoConn /\ pool' = pool
    BY <1>1, <1>8 DEF ClosesOwn, ClearConn
  <2>2. open' = open \ {own}
    BY <2>1 DEF CloseSockets
  <2>3. \A y \in Sockets \ {own} : ownerOf'[y] = ownerOf[y] /\ peerOf'[y] = peerOf[y]
    BY <1>1, <1>4, <2>1, <2>2, Unaffected DEF NoConn
  <2>4. Abstract!CloseAll({own})
    BY <1>3, <1>8, <2>1, <2>3, ClosedMap
  <2>5. QED
    BY <1>3, <1>8, <2>4 DEF Abstract!Use, Abstract!ONext
<1>9. CASE ClosesOwn(t) /\ own = NoSocket
  <2>1. CloseSockets({}) /\ conn'[t] = NoConn /\ pool' = pool
    <3>1. {own} \ {NoSocket} = {}
      BY <1>9
    <3>2. QED
      BY <1>1, <1>9, <3>1 DEF ClosesOwn, ClearConn
  <2>2. open' = open /\ pending' = pending
    BY <2>1 DEF CloseSockets
  <2>3. ASSUME NEW y \in Sockets PROVE ownerOf'[y] = ownerOf[y] /\ peerOf'[y] = peerOf[y]
    <3>1. y # NoSocket
      BY <1>1
    <3>2. conn[t].socket # y /\ conn'[t].socket # y
      BY <1>9, <2>1, <3>1 DEF NoConn
    <3>3. QED
      BY <1>4, <2>1, <2>2, <3>2, Unaffected
  <2>4. QED
    BY <2>2, <2>3, SameMap DEF Abstract!ONext, Abstract!oVars, peerOf
<1>10. CASE ClosesIdle(t)
  <2>1. PICK X \in SUBSET IdleSockets : CloseUnusable(X)
    BY <1>10 DEF ClosesIdle
  <2>2. X \subseteq Sockets /\ X \subseteq Abstract!Idle
    BY <1>1, <1>2, <2>1 DEF IdleSockets, IdleSlot, SlotType, Owned, Abstract!Idle
  <2>3. CloseSockets(X) /\ open' = open \ X /\ conn' = conn
    BY <1>10, <2>1 DEF ClosesIdle, CloseUnusable, CloseSockets
  <2>4. ASSUME NEW y \in Sockets \ X PROVE ownerOf'[y] = ownerOf[y] /\ peerOf'[y] = peerOf[y]
    <3>1. \A s \in Slots : /\ pool'[s].socket = y <=> pool[s].socket = y
                           /\ pool[s].socket = y => pool'[s].dest = pool[s].dest
      BY <1>1, <2>1 DEF CloseUnusable, EmptySlot
    <3>2. QED
      BY <2>3, <3>1, Unaffected
  <2>5. Abstract!CloseAll(X)
    BY <2>2, <2>3, <2>4, ClosedMap
  <2>6. QED
    BY <2>2, <2>5 DEF Abstract!CloseIdle, Abstract!ONext
<1>11. CASE Takes(t)
  <2>1. PICK s \in Slots : /\ IdleSlot(s) /\ TakeSlot(s) /\ SetConn(t, pool[s].socket)
                           /\ pool[s].dest = req[t].dest
                           /\ pending' = pending \cup {pool[s].socket} /\ open' = open
    BY <1>11 DEF Takes, Reusable, Matches
  <2> DEFINE y == pool[s].socket
  <2>2. y \in Sockets /\ ownerOf[y] = "idle" /\ peerOf[y] = {req[t].dest}
    BY <1>1, <1>2, <2>1 DEF IdleSlot, SlotType, Owned
  <2>3. conn[t].socket = NoSocket /\ conn'[t].socket = y /\ conn'[t].dest = req[t].dest
    BY <1>1, <1>11, <2>1 DEF Takes, Search, SetConn, ReuseInv, PlaceInv, Placed
  <2>4. ownerOf'[y] = t /\ peerOf'[y] = {req[t].dest}
    BY <1>2, <2>2, <2>3 DEF Owned
  <2>5. \A r \in Slots : pool'[r].socket = pool[r].socket /\ pool'[r].dest = pool[r].dest
    BY <1>1, <2>1 DEF TakeSlot, SlotType
  <2>6. ASSUME NEW z \in Sockets \ {y} PROVE ownerOf'[z] = ownerOf[z] /\ peerOf'[z] = peerOf[z]
    BY <1>1, <1>4, <2>1, <2>3, <2>5, Unaffected
  <2>7. ownerOf' = [ownerOf EXCEPT ![y] = t] /\ peerOf' = [peerOf EXCEPT ![y] = peerOf[y]]
    BY <2>2, <2>4, <2>6, UpdatedMap
  <2>8. peerOf' = peerOf
    BY <2>2, <2>7 DEF peerOf
  <2>9. Abstract!Take(y)
    BY <2>1, <2>2, <2>7, <2>8 DEF Abstract!Take, peerOf
  <2>10. QED
    BY <2>2, <2>9 DEF Abstract!ONext
<1>12. CASE Dials(t)
  <2>1. PICK y \in Sockets \ open :
          SetConn(t, y) /\ open' = open \cup {y} /\ pool' = pool /\ pending' = pending \cup {y}
    BY <1>12 DEF Dials
  <2>2. ownerOf[y] = "closed"
    BY <1>2, <2>1 DEF Owned
  <2>3. conn[t].socket = NoSocket /\ conn'[t].socket = y /\ conn'[t].dest = req[t].dest
    BY <1>1, <1>12, <2>1 DEF Dials, Dial, SetConn, ReuseInv, PlaceInv, Placed
  <2>4. ownerOf'[y] = t /\ peerOf'[y] = {req[t].dest}
    BY <1>2, <2>1, <2>3 DEF Owned
  <2>5. ASSUME NEW z \in Sockets \ {y} PROVE ownerOf'[z] = ownerOf[z] /\ peerOf'[z] = peerOf[z]
    BY <1>1, <1>4, <2>1, <2>3, Unaffected
  <2>6. /\ ownerOf' = [ownerOf EXCEPT ![y] = t]
        /\ peerOf' = [peerOf EXCEPT ![y] = {req[t].dest}]
    BY <2>1, <2>4, <2>5, UpdatedMap
  <2>7. req[t].dest \in Dests
    BY <1>12 DEF Dials, Dial, ReuseInv, DestInv
  <2>8. Abstract!Open(y)
    BY <2>1, <2>2, <2>6, <2>7 DEF Abstract!Open, peerOf
  <2>9. QED
    BY <2>1, <2>8 DEF Abstract!ONext
<1>13. CASE Forgets(t)
  <2>1. own # NoSocket
    BY <1>13 DEF Forgets, JudgeDrop, Judged
  <2>2. \A s \in Slots : pool[s].socket # own => pool'[s] = pool[s]
    BY <1>13 DEF Forgets, Forget, SlotsOf
  <2>3. \A s \in Slots : pool[s].socket = own => pool'[s].socket = NoSocket
    BY <1>13 DEF Forgets, Forget, SlotsOf, EmptySlot
  <2>4. conn' = conn /\ open' = open /\ pending' = pending
    BY <1>13 DEF Forgets
  <2>5. ASSUME NEW y \in Sockets PROVE ownerOf'[y] = ownerOf[y] /\ peerOf'[y] = peerOf[y]
    <3>1. CASE y = own
      <4>1. ownerOf[own] = t /\ peerOf[own] = {conn[t].dest}
        BY <1>2, <3>1 DEF Owned
      <4>2. ownerOf'[own] = t /\ peerOf'[own] = {conn'[t].dest}
        BY <1>2, <2>4, <3>1 DEF Owned
      <4>3. QED
        BY <2>4, <3>1, <4>1, <4>2
    <3>2. CASE y # own
      BY <1>1, <2>2, <2>3, <2>4, <3>2, Unaffected
    <3>3. QED
      BY <3>1, <3>2
  <2>6. QED
    BY <2>4, <2>5, SameMap DEF Abstract!ONext, Abstract!oVars, peerOf
<1>14. QED
    BY <1>5, <1>6, <1>7, <1>8, <1>9, <1>10, <1>11, <1>12, <1>13, Effects DEF Keeps, Finishes

\* Slots and flags implement exclusive ownership: an open connection has one owner or is
\* idle, it is taken only for the destination it is connected to and after the last
\* exchange was finished, and only its owner closes it.
THEOREM SharingIsOwnership == ASSUME Unmixed, NamesApart PROVE Spec => ImplementsOwnership
<1>1. Init => ListedInv /\ Abstract!OInit
  <2> SUFFICES ASSUME Init PROVE ListedInv /\ Abstract!OInit
    OBVIOUS
  <2>1. ListedInv
    BY DEF Init, ListedInv
  <2>2. ownerOf = [x \in Sockets |-> "closed"] /\ peerOf = [x \in Sockets |-> {}] /\ pending = {}
    BY DEF Init, ownerOf, peerOf
  <2>3. QED
    BY <2>1, <2>2 DEF Abstract!OInit, peerOf
<1>2. ReuseInv /\ ReuseInv' /\ ListedInv /\ [Next]_vars
        => ListedInv' /\ [Abstract!ONext]_(Abstract!oVars)
  <2> SUFFICES ASSUME ReuseInv, ReuseInv', ListedInv, [Next]_vars
               PROVE  ListedInv' /\ Abstract!ONext
    OBVIOUS
  <2>1. ASSUME NEW t \in Threads, Step(t) PROVE ListedInv' /\ Abstract!ONext
    BY <2>1, ListedInvStep, RefinementStep
  <2>2. CASE UNCHANGED <<conn, pool, open, pending>>
    <3>1. ownerOf' = ownerOf /\ peerOf' = peerOf
      BY <2>2, Unaffected, SameMap
    <3>2. Abstract!ONext
      BY <2>2, <3>1 DEF Abstract!ONext, Abstract!oVars, peerOf
    <3>3. QED
      BY <2>2, <3>2 DEF ListedInv
  <2>3. QED
    BY <2>1, <2>2 DEF Next, ServerCloses, vars, poolVars, cspVars, osVars
<1>3. QED
    BY ReuseInvariant, <1>1, <1>2, PTL DEF Spec, ImplementsOwnership, Abstract!OSpec
====
