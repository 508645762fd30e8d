SPECIFICATION TagsSpec
CONSTANTS
  n1 = n1
  n2 = n2
  Threads = {t1, t2}
  Addresses = {a1, a2}
  Names = {n1, n2}
  Configured <- TagSets
  Lifetime = 1
  MaxTime = 3
  Nobody = Nobody
INVARIANT TagsInv
PROPERTY AppliedInTime
SYMMETRY Symmetric
