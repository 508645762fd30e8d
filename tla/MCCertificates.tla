--------------------------- MODULE MCCertificates ---------------------------
EXTENDS Certificates, TLC

Symmetry == Permutations(Threads) \cup Permutations(Hosts)
=============================================================================
