SPECIFICATION FairSpec
CONSTANT Done = 2
INVARIANTS
  ResultIsOwn
  AbortStopsDrive
  
PROPERTY AbortedStageEnds
CHECK_DEADLOCK FALSE
