\* One job, one worker and one canceller are enough.
CONSTANTS
  j1 = j1  j2 = j2  j3 = j3  w1 = w1  w2 = w2  c1 = c1
  None = None
  Jobs <- OneJob
  Workers <- OneWorker
  Callers <- MCCallers
  InstallJobs <- NoJobs
  KnownJobs <- OneJob
  CreatedKeys = {1}
  Reports = {}
  MaxCrashes = 0
  MaxFaults = 0
SPECIFICATION MCSpec
INVARIANTS CancelReachesHandler
