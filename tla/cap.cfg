\* The instance of maker.cfg: a cap of three and orders of two.
SPECIFICATION MakerSpec
CONSTANTS
  Mids = {2, 3, 4}
  Size = 2
  QueueMax = 2
  MaxTicks = 5
  MaxOrders = 4
  HalfSpread = 1
  Requote = 2
  Cap = 3
INVARIANTS
  NeverQuotesPastCap
CHECK_DEADLOCK FALSE
