\* A buy of c1 at 3 and a reduce-only sell of c3, mids 3 and 4, no faults.
SPECIFICATION FairSpec
CONSTANTS
  c1 = c1
  c2 = c2
  c3 = c3
  c4 = c4
  p1 = p1
  p2 = p2
  coin1 = coin1
  Cloids = {c1, c3}
  Plugins = {p1, p2}
  Coins = {coin1}
  NaNOrders = {}
  Mids = {3, 4}
  MinNotional = 4
  MaxOpen = 2
  MaxGross = 30
  MaxRate = 4
  Window = 1
  MaxTime = 0
  Intent <- MCIntent
  GrossOf <- MCGrossOf
INVARIANTS
  NoRestingCrossed
