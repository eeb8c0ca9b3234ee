---------------------------- MODULE LimitedLedger ----------------------------
(***************************************************************************)
(* The ledger as the submission path uses it: every new order satisfies    *)
(* the global limits at the instant it is recorded.  OrderPath, with its   *)
(* locks, threads, feed and crashes, implements it.                        *)
(***************************************************************************)
EXTENDS OrderLedger, Limits

WithinLimits(c) ==
  /\ Cardinality(Open) < MaxOpen
  /\ Intent[c].reduceOnly \/ GrossOf[Open] + Notional(c) <= MaxGross

LimitedRecord(c) == WithinLimits(c) /\ Record(c)

LimitedNext ==
  \E c \in Cloids : LimitedRecord(c) \/ \E s \in OrderState : Advance(c, s)

LimitedSpec == Init /\ [][LimitedNext]_ledger

-----------------------------------------------------------------------------
ReduceOnly == {c \in Cloids : Intent[c].reduceOnly}

\* The global limits hold of the open orders at every moment, not only when
\* one is admitted: no more than MaxOpen are open, and those that count
\* against the cap (all but the reduce-only ones, which bypass it) are within
\* MaxGross together, however fills, cancels and restarts interleave
\* (risk_guard.py:43-61 with order_router.py:27-44).
LimitsHold ==
  /\ Cardinality(Open) <= MaxOpen
  /\ GrossOf[Open \ ReduceOnly] <= MaxGross
=============================================================================
