--------------------------- MODULE MeanReversion ---------------------------
(***************************************************************************)
(* plugins/mean_reversion.py: one position at a time, entered against a    *)
(* move of the mid and flattened when the mid has come back or time is up. *)
(*                                                                         *)
(* What the rolling window and the clock decide (whether there is a        *)
(* signal, on which side, and whether the position is due) is left open.   *)
(***************************************************************************)
EXTENDS Execution

VARIABLES
  entry,     \* the order of the current position, if any, and e["filled"]
  forgotten  \* history: filled entries nothing was or will be placed to close

reversionVars == <<entry, work, forgotten>>

NoEntry == [order |-> 0, filled |-> FALSE]
\* The plugin's thread: where it is, and the order it is about to place.
ReversionWaiting == [pc |-> "waiting", order |-> New("buy", NoMid, FALSE)]
Submitting(side, m, reduceOnly) == [pc |-> "submit", order |-> New(side, m, reduceOnly)]

ReversionInit ==
  /\ ExecutionInit
  /\ entry = NoEntry
  /\ work = ReversionWaiting
  /\ forgotten = {}

\* on_market_data with a mid.
TakeTick(m) == m # NoMid /\ Dequeue /\ Head(queue) = Tick(m)

\* A one-sided book, no signal, or a position not yet due.
NothingToDo ==
  /\ Dequeue /\ Head(queue).tag = "market_data"
  /\ UNCHANGED <<marketVars, orders, evicted, reversionVars>>

\* _maybe_enter: "fade the move", at the mid of the tick.
Enter(m, side) ==
  /\ TakeTick(m) /\ entry = NoEntry
  /\ work' = Submitting(side, m, FALSE)
  /\ UNCHANGED <<marketVars, orders, evicted, entry, forgotten>>

\* Mutant of FlattenUnfilled: the entry is dropped but not pulled.
DropUnfilled(m) ==
  /\ TakeTick(m) /\ entry # NoEntry /\ ~entry.filled
  /\ entry' = NoEntry
  /\ UNCHANGED <<marketVars, orders, evicted, work, forgotten>>

\* _maybe_flatten, for all it knows of an order that rests.
FlattenUnfilled(m) ==
  /\ TakeTick(m) /\ entry # NoEntry /\ ~entry.filled
  /\ CancelOrder(entry.order)
  /\ forgotten' = forgotten \cup ({entry.order} \cap InState("filled"))
  /\ entry' = NoEntry
  /\ UNCHANGED <<marketVars, evicted, work>>

\* Mutant of Opposite: the close adds to the position.
SameSide(side) == side

Opposite(side) == IF side = "buy" THEN "sell" ELSE "buy"

FlattenFilled(m) ==
  /\ TakeTick(m) /\ entry # NoEntry /\ entry.filled
  /\ work' = Submitting(Opposite(orders[entry.order].side), m, TRUE)
  /\ UNCHANGED <<marketVars, orders, evicted, entry, forgotten>>

\* What the strategy does with the answer: it keeps an entry that was not
\* rejected, and forgets the position whatever became of the close.
Remember(filled) ==
  entry' = IF work.order.reduceOnly THEN NoEntry
           ELSE [order |-> Len(orders'), filled |-> filled]

Refused ==
  /\ work.pc = "submit"
  /\ entry' = NoEntry
  /\ forgotten' = IF work.order.reduceOnly THEN forgotten \cup {entry.order} ELSE forgotten
  /\ work' = ReversionWaiting
  /\ UNCHANGED <<executionVars>>

FilledAtOnce ==
  /\ work.pc = "submit" /\ MayPlace
  /\ CrossesAt(work.order.side, work.order.px, mid)
  /\ PlaceFilled(work.order) /\ Remember(TRUE)
  /\ work' = ReversionWaiting
  /\ UNCHANGED <<marketVars, queue, evicted, forgotten>>

DoesNotCross ==
  /\ work.pc = "submit" /\ MayPlace
  /\ ~CrossesAt(work.order.side, work.order.px, mid)
  /\ work' = [work EXCEPT !.pc = "rest"]
  /\ UNCHANGED <<executionVars, entry, forgotten>>

ReversionRest ==
  /\ work.pc = "rest"
  /\ PlaceResting(work.order) /\ Remember(FALSE)
  /\ work' = ReversionWaiting
  /\ UNCHANGED <<marketVars, queue, evicted, forgotten>>

\* Mutant of ReversionOnOrderUpdate: the cloid is not compared.
ReversionOnAnyOrderUpdate ==
  /\ Dequeue /\ Head(queue).tag = "order_update"
  /\ entry' = IF entry # NoEntry THEN [entry EXCEPT !.filled = TRUE] ELSE entry
  /\ UNCHANGED <<marketVars, orders, evicted, work, forgotten>>

ReversionOnOrderUpdate ==
  /\ Dequeue /\ Head(queue).tag = "order_update"
  /\ entry' = IF Head(queue) = Fill(entry.order) THEN [entry EXCEPT !.filled = TRUE] ELSE entry
  /\ UNCHANGED <<marketVars, orders, evicted, work, forgotten>>

\* on_stop, with whatever is queued unheard.
ReversionOnStop ==
  /\ work.pc = "waiting"
  /\ IF entry # NoEntry /\ ~entry.filled THEN CancelOrder(entry.order) ELSE UNCHANGED orders
  /\ work' = [work EXCEPT !.pc = "stopped"]
  /\ UNCHANGED <<marketVars, queue, evicted, entry, forgotten>>

ReversionNext ==
  \/ FeedStep /\ UNCHANGED reversionVars
  \/ \E m \in Mids : FlattenUnfilled(m) \/ FlattenFilled(m) \/ Enter(m, "buy") \/ Enter(m, "sell")
  \/ NothingToDo \/ Refused \/ FilledAtOnce \/ DoesNotCross \/ ReversionRest
  \/ ReversionOnOrderUpdate \/ ReversionOnStop

ReversionSpec == ReversionInit /\ [][ReversionNext]_<<executionVars, reversionVars>>

-----------------------------------------------------------------------------
ReversionTypeOK ==
  /\ ExecutionTypeOK
  /\ entry \in [order : 0 .. MaxOrders, filled : BOOLEAN]
  /\ work \in [pc : {"waiting", "submit", "rest", "stopped"},
               order : {order \in Order : order.state = "resting"}]
  /\ forgotten \subseteq 1 .. MaxOrders

\* The strategy pulls or closes by what it believes of its entry.  What it takes
\* for filled is filled; what it takes for resting rests, unless the news of the
\* fill is on its way or was given up by a full queue: the news of an older entry
\* never passes for that of this one (mean_reversion.py:59-61, 70-79).
EntryTrue ==
  entry # NoEntry =>
    \/ entry.filled /\ entry.order \in InState("filled")
    \/ ~entry.filled /\ entry.order \in InState("resting")
    \/ ~entry.filled /\ entry.order \in InState("filled") \cap (OnTheWay \cup evicted)
    \/ work.pc = "stopped" /\ entry.order \in InState("cancelled")

Closes == {i \in DOMAIN orders : orders[i].reduceOnly}

\* "Flatten the position" (mean_reversion.py:3-5): what is held is the current
\* entry, and what earlier rounds left behind: entries cancelled too late, entries
\* whose close was refused, and closes that are not filled yet.  Nothing is held
\* for any other reason, and nothing is closed twice (mean_reversion.py:63-75).
PositionExplained ==
  LET filled == InState("filled") IN
  SumOf(Signed, filled)
    = SumOf(Signed, ({entry.order} \cap filled) \cup forgotten) - SumOf(Signed, Closes \ filled)

\* No entry works that the strategy does not know of, and when on_stop has run
\* nothing works but closes, which the strategy never takes back
\* (mean_reversion.py:63-75, 81-83).
EntriesTracked ==
  \A i \in InState("resting") \ Closes : entry.order = i /\ work.pc # "stopped"
=============================================================================
