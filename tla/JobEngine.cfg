\* One canceller, one loss of the process.
CONSTANTS
  j1 = j1  j2 = j2  j3 = j3  w1 = w1  w2 = w2  c1 = c1
  None = None
  Jobs <- MCJobs
  Workers <- MCWorkers
  Callers <- MCCallers
  InstallJobs <- MCInstall
  KnownJobs <- MCKnown
  CreatedKeys = {1}
  Reports = {5000}
  MaxCrashes = 1
  MaxFaults = 1
SPECIFICATION MCSpec
INVARIANTS
  RowConsistent
  OneWorkerPerJob
  FinalEventIsTrue
  StartedAtMostOnce
PROPERTIES
  ImplementsLifecycle
  JobsFinish
