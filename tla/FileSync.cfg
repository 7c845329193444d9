SPECIFICATION FairSpec
CONSTANTS
  p = p  u1 = u1  u2 = u2  u3 = u3  t1 = t1  t2 = t2  t3 = t3  f = f
  None = None
  Paths = {p}
  Target = p
  Uploads = {u1, u2, u3}
  TrashIds = {t1, t2, t3}
  Folders = {f}
  Owned = {}
  FolderOf <- MCFolderOf
  Versions = {"v", "w", "x"}
  Outsiders = {"x"}
  Size <- MCSize
  Capacity = 20
  Reserves = {1}
  Quotas = {}
  Callers = {"agent", "late"}
  Ways <- MCWays
  Tries = 2
  MaxRequests = 0
  MaxMishaps = 1
  MaxIntrusions = 1
  MaxEdits = 1
  MaxFaults = 1
PROPERTIES CopyIsSafe Synced QueueSettles
CHECK_DEADLOCK FALSE
