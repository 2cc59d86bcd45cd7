SPECIFICATION FairSpec
CONSTANTS
  Serials = {s1, s2}
  Callers = {c1}
  MaxRuns = 2
  Concurrency = 1
  MaxCrashes = 1
  MaxFaults = 0
PROPERTIES
  AbortedHolderSettles
  EveryDispatchSettles
