CONSTANTS
  Threads = {t1, t2}
  Files <- MCFiles
  MaxClock = 3
  MaxLine = 4
  Tolerated = 2
SPECIFICATION Spec
INVARIANT FileStaysValid
PROPERTY EditDoesWhatWasAsked
CHECK_DEADLOCK FALSE
SYMMETRY Symmetry
CONSTRAINT Followed
