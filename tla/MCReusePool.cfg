SPECIFICATION Spec
CONSTANTS
  Threads = {t1, t2}
  Slots = {1}
  Sockets = {s1, s2}
  Dests = {d1, d2}
  NoSocket = NoSocket
  NoDest = NoDest
  HttpsInspection = TRUE
  MixedClients = FALSE
INVARIANTS PoolInv RequestsGoToDestination
PROPERTIES ReusedOnlyWhenClean ImplementsOwnership
SYMMETRY Symmetric
