\* Two plugins, one with a coin that subscribes up to twice and one without; two
\* coins, a queue of one event and one tick; live mode and mock mode.
\* The run ends when stop is done and every hook has returned.
SPECIFICATION Spec
CONSTANTS
  p1 = p1
  p2 = p2
  coin1 = coin1
  coin2 = coin2
  Coins = {coin1, coin2}
  Specs <- MCSpecs
  CoinOf <- MCCoinOf
  QueueMax = 1
  MaxSubs <- MCMaxSubs
  MaxTicks = 1
INVARIANTS
  ReadyBeforeTrading
  RaisedStop
  CleanStop
  MidsFirst
PROPERTIES
  StoreClosedLast
  StopsAnyway
CHECK_DEADLOCK FALSE
