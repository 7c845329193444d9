SPECIFICATION FollowSpec
CONSTANTS
  Publishers = {p1, p2}
  Consumers = {c1}
  Topics = {seen}
  Visible = {seen}
  Capacity = 1
  PageSize = 2
  MaxEvents = 2
  MaxSessions = 1
INVARIANTS CatchUpComplete
