SPECIFICATION Spec
CONSTANTS
  Serials = {s1, s2}
  Callers = {c1, c2}
  MaxRuns = 3
  Concurrency = 1
  MaxCrashes = 1
  MaxFaults = 0
SYMMETRY Symmetry
INVARIANTS
  OneRunPerDrive
  OneWriterPerDrive
  ReservationsMatch
  PermitsMatch
  NothingForgotten
PROPERTIES
  TerminalIsForever
  WritesOnlyFreeDrives
