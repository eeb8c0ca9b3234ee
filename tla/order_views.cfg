\* The store under every interleaving of writes, closes, crashes and restarts,
\* with two orders and two oids; live execution with two plugins, an order each
\* and every disturbance; mean reversion with four orders, so that two rounds of
\* entry and close can be open at once, two mids, five ticks and a queue of two.
\* A run of the strategy ends when the ticks are used up and it has stopped.
SPECIFICATION ViewsSpec
CONSTANTS
  c1 = c1
  c2 = c2
  p1 = p1
  p2 = p2
  coin1 = coin1
  Cloids = {c1, c2}
  Plugins = {p1, p2}
  Coins = {coin1}
  NaNOrders = {}
  Oids = {1, 2}
  Intent <- MCIntent
  GrossOf <- MCGrossOf
  Mids = {2, 3}
  Size = 1
  QueueMax = 2
  MaxTicks = 5
  MaxOrders = 4
INVARIANTS
  TypeOK
  WriteThrough
  LiveTypeOK
  ExposureCounted
  LedgerTruthful
  FateComing
  Cancellable
  EntryTrue
  PositionExplained
  EntriesTracked
PROPERTIES
  RowsAdvance
  ImplementsLedger
CHECK_DEADLOCK FALSE
