------------------------------ MODULE MCOrders ------------------------------
(***************************************************************************)
(* Values for the constants of Orders, shared by the MC modules: intents   *)
(* as records and GrossOf as the actual sum over a set of orders.          *)
(***************************************************************************)
EXTENDS Integers, FiniteSetsExt, TLC

BuyOf(p, coin, sz, px) == [plugin |-> p, coin |-> coin, side |-> "buy",
                           sz |-> sz, limitPx |-> px, reduceOnly |-> FALSE]
SellOf(p, coin, sz, px) == [BuyOf(p, coin, sz, px) EXCEPT !.side = "sell"]
ReduceOnlyOf(intent) == [intent EXCEPT !.reduceOnly = TRUE]

SumOfNotionals(intents) ==
  [S \in SUBSET DOMAIN intents |->
     MapThenSumSet(LAMBDA c : intents[c].sz * intents[c].limitPx, S)]
=============================================================================
