---------------------------- MODULE MCOrderViews ----------------------------
(***************************************************************************)
(* Three views of orders that share no variable: the store on disk and in  *)
(* memory, the live manager between its threads and the venue, and a       *)
(* strategy between its fills and its entry.  Each is explored by itself:  *)
(* one moves only as long as the other two are where they begin, so that   *)
(* the states are the sum of the three and not their product.              *)
(***************************************************************************)
EXTENDS OrderStore, LiveOrders, MeanReversion, MCOrders

CONSTANTS c1, c2, p1, p2, coin1

MCIntent == c1 :> BuyOf(p1, coin1, 2, 3) @@ c2 :> SellOf(p2, coin1, 3, 3)
MCGrossOf == SumOfNotionals(MCIntent)

strategyVars == <<executionVars, reversionVars>>

\* The strategy has not begun, with the mid it begins at left open only for itself.
StrategyAtRest == ReversionInit /\ mid = NoMid

ViewsInit == Init /\ LiveInit /\ ReversionInit

ViewsNext ==
  \/ Next /\ LiveInit /\ StrategyAtRest /\ UNCHANGED <<liveVars, strategyVars>>
  \/ LiveNext /\ Init /\ StrategyAtRest /\ UNCHANGED <<vars, strategyVars>>
  \/ ReversionNext /\ Init /\ LiveInit /\ UNCHANGED <<vars, liveVars>>

ViewsSpec == ViewsInit /\ [][ViewsNext]_<<vars, liveVars, strategyVars>>
=============================================================================
