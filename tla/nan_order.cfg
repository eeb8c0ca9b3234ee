\* c1's size is a NaN, c2 is an ordinary order; no faults.
SPECIFICATION FairSpec
CONSTANTS
  c1 = c1
  c2 = c2
  c3 = c3
  c4 = c4
  p1 = p1
  p2 = p2
  coin1 = coin1
  Cloids = {c1, c2}
  Plugins = {p1, p2}
  Coins = {coin1}
  NaNOrders = {c1}
  Mids = {3, 4}
  MinNotional = 4
  MaxOpen = 2
  MaxGross = 12
  MaxRate = 4
  Window = 1
  MaxTime = 0
  Intent <- MCIntent
  GrossOf <- MCGrossOf
INVARIANTS
  ExposureCounted
