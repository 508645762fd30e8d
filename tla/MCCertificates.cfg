CONSTANTS
  Threads = {t1, t2}
  Hosts = {h1, h2}
  MaxKeys = 3
SPECIFICATION CertSpec
INVARIANTS
  FilesMatch
  KeyIsNew
CHECK_DEADLOCK FALSE
SYMMETRY Symmetry
