\* One leader and two clients; one crash, one heartbeat.
SPECIFICATION Spec
CONSTANTS
  Server = {s1, s2, s3}
  Writer = {w1, w2}
  Nil = Nil
  StaleThreads = FALSE
  Losses = FALSE
  MaxTerm = 1
  MaxLog = 2
  MaxCrash = 1
  MaxBeat = 1
  MaxLate = 0
SYMMETRY Symmetry
VIEW View
INVARIANTS
  TypeOK
  CommitOnMajority
  StateMachineSafety
CHECK_DEADLOCK FALSE
