SPECIFICATION Spec
CONSTANTS
  Serials = {s1}
  Callers = {c1}
  MaxRuns = 1
  Concurrency = 1
  MaxCrashes = 1
  MaxFaults = 0
PROPERTIES
  ResumeRefusesClaimed
