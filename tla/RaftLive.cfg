\* Liveness with a fair-lossy network.
SPECIFICATION FairSpec
CONSTANTS
  Server = {s1, s2, s3}
  Writer = {w1}
  Nil = Nil
  StaleThreads = FALSE
  Losses = TRUE
  MaxTerm = 1
  MaxLog = 1
  MaxCrash = 0
  MaxBeat = 0
  MaxLate = 0
PROPERTIES
  WriterAnswered
  
CHECK_DEADLOCK FALSE
