------------------------------- MODULE Orders -------------------------------
(***************************************************************************)
(* The order vocabulary every component speaks (contract/orders.py) and    *)
(* the lifecycle ranking of services/order_store.py.  A cloid is the       *)
(* correlation key of one order, so the intent of each order is a constant *)
(* function of its cloid.                                                  *)
(***************************************************************************)
EXTENDS Integers, FiniteSets

CONSTANTS
  Cloids,     \* client order ids: one per order the platform ever handles
  Plugins,    \* plugin ids: one thread each
  Coins,      \* symbols
  Intent,     \* the OrderIntent behind each cloid
  NaNOrders,  \* orders whose sz is the float NaN (nothing compares with a NaN)
  GrossOf     \* the gross notional of a set of orders

Absent == "absent"   \* no row for this cloid

OpenStates == {"pending", "resting"}
TerminalStates == {"filled", "cancelled", "rejected"}
OrderState == OpenStates \cup TerminalStates

Rank == [s \in OrderState |-> IF s = "pending" THEN 0
                              ELSE IF s = "resting" THEN 1 ELSE 2]

OrderIntent == [plugin : Plugins, coin : Coins, side : {"buy", "sell"},
                sz : Nat, limitPx : Nat, reduceOnly : BOOLEAN]

Notional(c) == Intent[c].sz * Intent[c].limitPx

\* The orders a map from cloids to states holds open.
OpenIn(states) == {c \in Cloids : states[c] \in OpenStates}

\* A buy crosses when it pays at or above the mid, a sell when it asks at or below.
Crosses(c, mid) == IF Intent[c].side = "buy" THEN Intent[c].limitPx >= mid
                                             ELSE Intent[c].limitPx <= mid

ASSUME IntentAssumption ==
  /\ IsFiniteSet(Cloids)
  /\ Intent \in [Cloids -> OrderIntent]
  /\ NaNOrders \subseteq Cloids

\* GrossOf is the finite sum of the notionals, given by the equations that
\* determine it: a constant, so that proofs may use the equations without
\* an induction over finite sets.
ASSUME GrossAssumption ==
  /\ GrossOf \in [SUBSET Cloids -> Nat]
  /\ GrossOf[{}] = 0
  /\ \A c \in Cloids : GrossOf[{c}] = Notional(c)
  /\ \A S, T \in SUBSET Cloids :
       S \cap T = {} => GrossOf[S \cup T] = GrossOf[S] + GrossOf[T]
=============================================================================
