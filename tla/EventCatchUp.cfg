\* One-slot channels, and a history read event by event.
SPECIFICATION MCSpec
CONSTANTS
  p1 = p1  p2 = p2  c1 = c1  seen = seen  hidden = hidden
  Publishers = {p1, p2}
  Consumers = {c1}
  Topics = {seen, hidden}
  Visible = {seen}
  Capacity = 1
  PageSize = 1
  MaxEvents = 3
  MaxSessions = 2
INVARIANTS StreamIsSound AtMostOneLate
PROPERTIES ClientsAreServed
