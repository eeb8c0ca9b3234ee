------------------------------- MODULE Limits -------------------------------
(***************************************************************************)
(* The global limits the risk guard enforces (risk_guard.py, Limits).      *)
(***************************************************************************)
EXTENDS Integers

CONSTANTS
  MaxOpen,    \* max_open_orders
  MaxGross,   \* max_gross_notional
  MaxRate,    \* max_orders_per_sec
  Window      \* one second, in ticks of the clock

ASSUME LimitsAssumption ==
  /\ MaxOpen \in Nat /\ MaxGross \in Nat
  /\ MaxRate \in Nat /\ Window \in Nat \ {0}
=============================================================================
