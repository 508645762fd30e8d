----------------------------- MODULE MCReusePool -----------------------------
(* TLC instances of ReusePool: two clients, one slot fewer than the clients   *)
(* may fill, and a socket number that is handed out again.                    *)
EXTENDS ReusePool, TLC

\* Threads, sockets and slots are interchangeable; so are destinations.
Symmetric == Permutations(Threads) \cup Permutations(Sockets) \cup Permutations(Dests)
=============================================================================
