------------------------------ MODULE Ownership ------------------------------
(***************************************************************************)
(* What sharing server connections promises, without slots, flags or locks:*)
(* every open socket belongs to one connection thread or is idle, an idle  *)
(* one is taken only for the destination it is connected to and only after *)
(* the exchange on it was finished, and only its owner closes it.  The     *)
(* reference for ReusePool.                                                *)
(***************************************************************************)
EXTENDS Naturals, FiniteSets

CONSTANTS Threads, Sockets, Dests, NoDest, MaxIdle

VARIABLES
  owner,   \* "closed", "idle" or the thread
  peer,    \* the destination an open socket is connected to
  pending  \* sockets with an exchange that is not finished

oVars == <<owner, peer, pending>>

OInit ==
  /\ owner = [x \in Sockets |-> "closed"]
  /\ peer = [x \in Sockets |-> NoDest]
  /\ pending = {}

Idle == {x \in Sockets : owner[x] = "idle"}

Open(x) ==
  /\ owner[x] = "closed"
  /\ \E t \in Threads, d \in Dests :
       owner' = [owner EXCEPT ![x] = t] /\ peer' = [peer EXCEPT ![x] = d]
  /\ pending' = pending \cup {x}

Take(x) ==
  /\ owner[x] = "idle"
  /\ \E t \in Threads : owner' = [owner EXCEPT ![x] = t]
  /\ pending' = pending \cup {x}
  /\ UNCHANGED peer

CloseAll(X) ==
  /\ owner' = [x \in Sockets |-> IF x \in X THEN "closed" ELSE owner[x]]
  /\ peer' = [x \in Sockets |-> IF x \in X THEN NoDest ELSE peer[x]]
  /\ pending' = pending \ X

\* The owner starts another exchange or finishes one, leaves the connection to
\* the others, or closes it.
Use(x) ==
  /\ owner[x] \in Threads
  /\ \/ /\ pending' \in {pending \cup {x}, pending \ {x}}
        /\ UNCHANGED <<owner, peer>>
     \/ /\ x \notin pending /\ Cardinality(Idle) < MaxIdle
        /\ owner' = [owner EXCEPT ![x] = "idle"]
        /\ UNCHANGED <<peer, pending>>
     \/ CloseAll({x})

CloseIdle == \E X \in SUBSET Idle : CloseAll(X)

\* (That nothing changes is said first because TLC looks at it first.)
ONext == UNCHANGED oVars \/ (\E x \in Sockets : Open(x) \/ Take(x) \/ Use(x)) \/ CloseIdle

OSpec == OInit /\ [][ONext]_oVars
=============================================================================
