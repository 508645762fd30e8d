----------------------------- MODULE MCCgiEdit -----------------------------
EXTENDS CgiEdit, TLC

L(type, id) == [type |-> type, id |-> id]

MCFiles == {
  \* like user.action: a block, then the sections
  <<L("system", 1), L("comment", 1), L("action", 1), L("comment", 2), L("url", 1), L("action", 2)>>,
  \* like match-all.action: the first line is a header
  <<L("action", 1), L("url", 1), L("url", 2), L("comment", 1)>>}

\* What happens to a file that two threads wrote at once is not followed.
Followed == ~mixed

Symmetry == Permutations(Threads)
=============================================================================
