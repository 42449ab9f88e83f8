\* A record of an older term is applied on a majority and can be replaced.
SPECIFICATION SplitSpec
CONSTANTS
  s1 = s1
  s2 = s2
  s3 = s3
  w1 = w1
  w2 = w2
  w3 = w3
  Server = {s1, s2, s3}
  Writer = {w1, w2}
  Nil = Nil
  StaleThreads = FALSE
  Losses = FALSE
  MaxTerm = 3
  MaxLog = 1
  MaxCrash = 1
  MaxBeat = 0
  MaxLate = 0
VIEW DivergedView
INVARIANTS
  AppliedIsSafe
CHECK_DEADLOCK FALSE
