SPECIFICATION Spec
CONSTANTS
  Serials = {s1, s2}
  Callers = {c1, c2}
  MaxRuns = 2
  Concurrency = 2
  MaxCrashes = 2
  MaxFaults = 1
SYMMETRY Symmetry
PROPERTIES
  ImplementsRegistry
