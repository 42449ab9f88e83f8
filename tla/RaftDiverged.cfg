\* The logs of the servers have diverged; one more leadership repairs them. One more crash.
SPECIFICATION DivergedSpec
CONSTANTS
  s1 = s1
  s2 = s2
  s3 = s3
  w1 = w1
  w2 = w2
  w3 = w3
  Server = {s1, s2, s3}
  Writer = {w1, w2, w3}
  Nil = Nil
  StaleThreads = FALSE
  Losses = TRUE
  MaxTerm = 3
  MaxLog = 2
  MaxCrash = 2
  MaxBeat = 0
  MaxLate = 0
VIEW DivergedView
INVARIANTS
  LogMatching
  
  AckedDurable

  
CHECK_DEADLOCK FALSE
