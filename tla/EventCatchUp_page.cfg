SPECIFICATION PollingSpec
CONSTANTS
  Publishers = {p1}
  Consumers = {c1}
  Topics = {seen, hidden}
  Visible = {seen}
  Capacity = 1
  PageSize = 1
  MaxEvents = 2
  MaxSessions = 0
PROPERTIES HistoryReachesEnd
