------------------------------ MODULE MCReload ------------------------------
(* TLC instances of Reload: two connections, two actions slots of one loader, *)
(* a trust file.                                                              *)
EXTENDS Reload, TLC

CONSTANTS c1, c2, pConf, pA, pB, pTrust

MCSlots == {"actions1", "actions2", "trust"}
MCLoaderOf == [s \in MCSlots |-> IF s = "trust" THEN "load_trustfile" ELSE "load_action_files"]

Conf(a1, a2, t, max, threaded, ports) ==
  [path |-> ("actions1" :> a1 @@ "actions2" :> a2 @@ "trust" :> t),
   max |-> max, threaded |-> threaded, ports |-> ports]

MCConfigs ==
  { Conf(pA, pB, NoPath, 1, TRUE, "p1"),
    Conf(pB, NoPath, NoPath, 0, TRUE, "p2"),
    Conf(NoPath, NoPath, pTrust, 0, FALSE, "p1") }

\* For liveness: two files in two slots, listed in either order.
LiveConfigs ==
  { Conf(pA, pB, NoPath, 0, TRUE, "p1"), Conf(pB, NoPath, NoPath, 0, TRUE, "p1") }

TrustConfigs == { Conf(NoPath, NoPath, pTrust, 0, TRUE, "p1") }

\* Which free node malloc() returns makes no difference: take the first.
AllocateFirst ==
  \A f \in (files' \cup {loading'}) \ (files \cup {loading, NoFile}) :
    \A g \in FileIds \ (files \cup {loading}) : f <= g
=============================================================================
