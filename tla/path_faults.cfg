\* Two plugins, three orders, mids 3 and 4, with every fault: failing writes, a
\* closed store, crashes and restarts.  At most two orders may be open: c1 and c2
\* may rest together (6 + 9 of 15), so c3 is one too many; c3 (8) leaves no room
\* for c2 but, being reduce-only, needs none itself.  The clock stands still:
\* path_live is about time.
SPECIFICATION Spec
CONSTANTS
  c1 = c1
  c2 = c2
  c3 = c3
  c4 = c4
  p1 = p1
  p2 = p2
  coin1 = coin1
  Cloids = {c1, c2, c3}
  Plugins = {p1, p2}
  Coins = {coin1}
  NaNOrders = {}
  Mids = {3, 4}
  MinNotional = 4
  MaxOpen = 2
  MaxGross = 15
  MaxRate = 4
  Window = 1
  MaxTime = 0
  Intent <- MCIntent
  GrossOf <- MCGrossOf
INVARIANTS
  TypeOK
  ExposureCounted
  LedgerTruthful
  Accounted
  OwnerInformed
  LimitsHold
PROPERTIES
  ImplementsLimitedLedger
