\* Live mode: two feeds, a queue of two, three events each and the sentinel, so
\* that the queue is full most of the time and the sentinel can be evicted.
\* A stopped plugin stops the system.
SPECIFICATION Spec
CONSTANTS
  Feeds = {ws, fills}
  QueueMax = 2
  MaxEvents = 3
INVARIANTS
  InOrder
  LossesCounted
PROPERTIES
  Stops
  Served
CHECK_DEADLOCK FALSE
