\* Two terms of elections; a heartbeat and a request that outlives its caller.
SPECIFICATION Spec
CONSTANTS
  Server = {s1, s2, s3}
  Writer = {}
  Nil = Nil
  StaleThreads = FALSE
  Losses = TRUE
  MaxTerm = 2
  MaxLog = 0
  MaxCrash = 0
  MaxBeat = 1
  MaxLate = 1
SYMMETRY Symmetry
INVARIANTS
  ElectionSafety
VIEW View
PROPERTIES
  ElectsLeaders
CHECK_DEADLOCK FALSE
