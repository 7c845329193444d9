SPECIFICATION Spec
CONSTANTS
  Images = {1, 2}
  MaxFaults = 0
  MaxRejects = 0
  MaxHangUps = 1
  MaxCrashes = 0
  MaxDeaths = 0
INVARIANTS SwapIsSettled
