SPECIFICATION HostSpec
CONSTANTS
  Tunnels = {t1}
  Peers = {p1, p2}
  Interfaces = {i1}
  Goroutines = {c1, c2}
  Absent = Absent
  MaxCalls = 3
  MaxFaults = 1
  d1 = d1  d2 = d2
  Slots <- HostSlots
  DiskNames = {1, 2}
  Requesters = {c1, c2}
  Nothing = Nothing
  MaxOperations = 2
  MaxTrouble = 2
  a = a  b = b  c = c  u1 = u1  u2 = u2  e1 = e1  f = f  g = g
  None = None
  Paths = {a, b, c}
  Uploads = {u1, u2}
  TrashIds = {e1}
  Folders = {f, g}
  FolderOf <- MCFolderOf
  Owned <- MCOwned
  Versions = {"v", "x"}
  Outsiders = {"x"}
  Size <- MCSize
  Capacity = 4
  Reserves = {1, 2}
  Quotas = {0, 2}
  Callers = {"user"}
  MaxRequests = 4
  MaxMishaps = 1
  MaxIntrusions = 1
INVARIANTS PoolSurvives PurposesHold FilesAreSound PromiseKept
PROPERTIES NetworkIsAsSaved LossIsAsked
SYMMETRY HostSymmetry
CHECK_DEADLOCK FALSE
