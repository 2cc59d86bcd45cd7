SPECIFICATION SemSpec
CONSTANTS
  Tasks = {t1, t2, t3, t4, t5}
  Max = 2
INVARIANTS
  PermitsConserved
PROPERTIES
  NoStarvation
