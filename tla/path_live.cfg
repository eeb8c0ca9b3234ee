\* Four orders (c1 and c2 can be filled by the same mid, c4 is below the minimum
\* notional), no faults: what the code's threads are sure to bring about once they
\* are scheduled.  One submission per window of two ticks, four moments in time,
\* so that the window slides over the orders.
SPECIFICATION FairSpec
CONSTANTS
  c1 = c1
  c2 = c2
  c3 = c3
  c4 = c4
  p1 = p1
  p2 = p2
  coin1 = coin1
  Cloids = {c1, c2, c3, c4}
  Plugins = {p1, p2}
  Coins = {coin1}
  NaNOrders = {}
  Mids = {3, 4}
  MinNotional = 4
  MaxOpen = 2
  MaxGross = 15
  MaxRate = 1
  Window = 2
  MaxTime = 3
  Intent <- MCIntent
  GrossOf <- MCGrossOf
INVARIANTS
  RateBound
PROPERTIES
  ImplementsRateWindow
  LockReleased
  OutcomeRecorded
