SPECIFICATION Spec
CONSTANTS
  Drives = {d1}
  Stages = 2
  Reporting = {2}
  MaxReports = 2
  MaxRuns = 2
  MaxDrops = 1
  MaxRestarts = 1
  MaxGets = 1
  Endings = {"DONE", "ABORTED"}
CHECK_DEADLOCK FALSE
INVARIANTS RunningShown StopOffersOwnedRun
PROPERTIES ShownNeverGoesBack
