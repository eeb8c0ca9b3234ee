\* Orders of two and an inventory cap of three, which two fills overshoot by one;
\* three mids, a quote one away from the mid and replaced from a distance of two
\* on, so that a move of one fills and a move of two replaces; four orders, five
\* ticks and a queue of two, which two fills or a fill and two ticks overfill.
\* The run ends when the ticks are used up and the strategy has stopped.
SPECIFICATION MakerSpec
CONSTANTS
  Mids = {2, 3, 4}
  Size = 2
  QueueMax = 2
  MaxTicks = 5
  MaxOrders = 4
  HalfSpread = 1
  Requote = 2
  Cap = 3
INVARIANTS
  QuotesTracked
  InventoryTrue
  OvershootBounded
  PnlExact
CHECK_DEADLOCK FALSE
