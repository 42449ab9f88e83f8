\* Two leaderships, two clients; a server crashes at any step.
SPECIFICATION Spec
CONSTANTS
  Server = {s1, s2, s3}
  Writer = {w1, w2}
  Nil = Nil
  StaleThreads = FALSE
  Losses = FALSE
  MaxTerm = 2
  MaxLog = 1
  MaxCrash = 1
  MaxBeat = 0
  MaxLate = 0
SYMMETRY Symmetry
VIEW View
INVARIANTS
  ElectionSafety
  AckedDurable
  AckedOnMajority
PROPERTIES
  LeaderAppendOnly
CHECK_DEADLOCK FALSE
