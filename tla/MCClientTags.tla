---------------------------- MODULE MCClientTags ----------------------------
(* TLC instances of ClientTags: a configuration that defines both tags and    *)
(* one from which the second was removed.                                     *)
EXTENDS ClientTags, TLC
CONSTANTS n1, n2
TagSets   == {{n1, n2}, {n1}}
Symmetric == Permutations(Threads) \cup Permutations(Addresses)
=============================================================================
