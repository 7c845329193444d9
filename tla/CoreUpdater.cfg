\* Two releases, four requests, one kind of mishap in a behaviour. It ends when the
\* requests are spent.
SPECIFICATION FairSpec
CONSTANTS
  Versions = {1, 2}
  MaxRequests = 4
  MaxMishaps = 1
INVARIANTS ServiceSurvives WayBack ReportsAreTrue
PROPERTIES HandedOverSettles
CHECK_DEADLOCK FALSE
