----------------------------- MODULE OrderLedger -----------------------------
(***************************************************************************)
(* What the order store promises, with no lock, no disk and no memory      *)
(* layer in sight: one durable state per order, which only ever advances.  *)
(* OrderStore implements it.                                               *)
(***************************************************************************)
EXTENDS Orders

VARIABLE ledger       \* cloid -> its recorded state, or Absent

Open == OpenIn(ledger)

TypeOK == ledger \in [Cloids -> OrderState \cup {Absent}]

Init == ledger = [c \in Cloids |-> Absent]

\* An order enters the ledger as pending.
Record(c) ==
  /\ ledger[c] = Absent
  /\ c \notin NaNOrders
  /\ ledger' = [ledger EXCEPT ![c] = "pending"]

\* An update only takes an open order to a higher rank; any other is ignored.
Advances(c, s) ==
  /\ ledger[c] \in OpenStates
  /\ Rank[s] > Rank[ledger[c]]

Advance(c, s) ==
  /\ Advances(c, s)
  /\ ledger' = [ledger EXCEPT ![c] = s]

Next == \E c \in Cloids : Record(c) \/ \E s \in OrderState : Advance(c, s)

Spec == Init /\ [][Next]_ledger
=============================================================================
