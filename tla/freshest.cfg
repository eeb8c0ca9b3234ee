\* Two feeds that deliver into the same full queue.
SPECIFICATION Spec
CONSTANTS
  Feeds = {ws, fills}
  QueueMax = 2
  MaxEvents = 3
INVARIANTS
  FreshestKept
CHECK_DEADLOCK FALSE
