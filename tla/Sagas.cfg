SPECIFICATION SagasSpec
CONSTANTS
  Images = {1, 2, 3}
  Dirs = {1, 2, 3}
  MaxFaults = 2
  MaxCrashes = 2
  MaxRequests = 4
  Clients = {c1, c2}
  NoClient = none
  Jobs = {j1, j2}
  Versions = {1, 2}
  MaxPublished = 1
  Modules = {1, 2, 3}
  Target = 1
  Arch = "amd64"
  Releases = {1, 2}
  MaxRecordings = 2
  MaxMoves = 2
  CoreVersions = {1, 2}
  Builds = {1, 2}
  MaxUploads = 1
  MaxLosses = 1
SYMMETRY Interchangeable
INVARIANTS DataFitsCode OneWriterOfData RegisteredKept RecordsAreTrue
INVARIANTS AdmissionIsExclusive PlansAreSound CatalogueIsSound
INVARIANT UpdatesAreSound
PROPERTY InstalledWasApproved
CHECK_DEADLOCK FALSE
