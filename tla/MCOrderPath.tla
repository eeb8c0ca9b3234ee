---------------------------- MODULE MCOrderPath ----------------------------
(***************************************************************************)
(* Instances of OrderPath: two plugins, one coin whose mid moves between   *)
(* 3 and 4, and orders that between them cross, rest, breach each limit,   *)
(* bypass the cap, and fall below the minimum notional.                    *)
(***************************************************************************)
EXTENDS OrderPath, MCOrders

CONSTANTS c1, c2, c3, c4, p1, p2, coin1

MCIntent == [c \in Cloids |->
  CASE c = c1 -> BuyOf(p1, coin1, 2, 3)
    [] c = c2 -> BuyOf(p2, coin1, 3, 3)
    [] c = c3 -> ReduceOnlyOf(SellOf(p2, coin1, 2, 4))
    [] c = c4 -> SellOf(p1, coin1, 1, 3)]
MCGrossOf == SumOfNotionals(MCIntent)
=============================================================================
