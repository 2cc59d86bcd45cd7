SPECIFICATION AutoSpec
CONSTANTS
  Serials = {s1}
  Callers = {poller, http}
  Poller = poller
  MaxRuns = 2
  Concurrency = 1
  MaxCrashes = 1
  MaxFaults = 1
PROPERTIES
  AutoOncePerProcess
  DeniedIsRetried
