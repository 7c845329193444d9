\* Two versions of one module, two failing commands or writes, and one of each
\* way to be interrupted.
SPECIFICATION RetryingSpec
CONSTANTS
  Images = {1, 2}
  MaxFaults = 2
  MaxRejects = 1
  MaxHangUps = 1
  MaxCrashes = 1
  MaxDeaths = 1
INVARIANTS RowTellsContainers OneOwnerOfData RecordedImageSurvives
PROPERTIES InstallConverges
