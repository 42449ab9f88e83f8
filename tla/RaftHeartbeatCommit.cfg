\* A heartbeat commits a record the follower got from an older leader.
SPECIFICATION Spec
CONSTANTS
  Server = {s1, s2, s3}
  Writer = {w1, w2}
  Nil = Nil
  StaleThreads = FALSE
  Losses = FALSE
  MaxTerm = 2
  MaxLog = 1
  MaxCrash = 0
  MaxBeat = 1
  MaxLate = 0
SYMMETRY Symmetry
VIEW View
INVARIANTS
  CommitOnMajority
CHECK_DEADLOCK FALSE
