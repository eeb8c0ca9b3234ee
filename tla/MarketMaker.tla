---------------------------- MODULE MarketMaker ----------------------------
(***************************************************************************)
(* plugins/market_maker.py: a bid below and an ask above the mid, replaced *)
(* when the mid has moved, and an inventory the strategy counts from the   *)
(* fills it is told of.                                                    *)
(***************************************************************************)
EXTENDS Execution

CONSTANTS
  HalfSpread,  \* how far a quote is from the mid
  Requote,     \* how far a quote may be from its target
  Cap          \* inventory_cap

ASSUME MakerAssumption == {HalfSpread, Requote, Cap} \subseteq Nat \ {0}

VARIABLES
  inventory,  \* what the strategy believes it holds
  quotes,     \* side -> its quote's order, or NoQuote; px is that order's
  late        \* history: quotes whose cancel came after their fill

makerVars == <<inventory, quotes, work, late>>

NoQuote == 0
\* The plugin's thread: where it is, for which side, and at what mid.
MakerWaiting == [pc |-> "waiting", side |-> "bid", mid |-> NoMid]

OrderSide(side) == IF side = "bid" THEN "buy" ELSE "sell"
Target(side, m) == IF side = "bid" THEN m - HalfSpread ELSE m + HalfSpread

\* on_start: only then do ticks and updates reach the strategy.
MakerInit ==
  /\ ExecutionInit
  /\ inventory = 0
  /\ quotes = [side \in {"bid", "ask"} |-> NoQuote]
  /\ work = MakerWaiting
  /\ late = {}

\* After the bid the ask, after the ask the next event.
NextSide ==
  work' = IF work.side = "bid" THEN [pc |-> "requote", side |-> "ask", mid |-> work.mid]
                               ELSE MakerWaiting

\* Mutant of Cancel: the quote is forgotten and the order left alone.
CancelForgetting(side) ==
  /\ quotes' = [quotes EXCEPT ![side] = NoQuote]
  /\ UNCHANGED <<orders, late>>

\* _cancel: whatever the router answers, the quote is gone.
Cancel(side) ==
  LET i == quotes[side] IN
  \/ i = NoQuote /\ UNCHANGED <<orders, quotes, late>>
  \/ /\ i # NoQuote
     /\ CancelOrder(i)
     /\ quotes' = [quotes EXCEPT ![side] = NoQuote]
     /\ late' = IF i \in InState("filled") THEN late \cup {i} ELSE late

-----------------------------------------------------------------------------
MakerOnMarketData ==
  LET event == Head(queue) IN
  /\ Dequeue
  /\ event.tag = "market_data"
  /\ work' = IF event.value = NoMid THEN work
             ELSE [pc |-> "requote", side |-> "bid", mid |-> event.value]
  /\ UNCHANGED <<marketVars, orders, evicted, inventory, quotes, late>>

\* Mutant of MakerOnOrderUpdate: any fill counts, also one of an old quote.
MakerOnAnyOrderUpdate ==
  LET i == Head(queue).value IN
  /\ Dequeue
  /\ Head(queue).tag = "order_update"
  /\ inventory' = inventory + Signed[i]
  /\ quotes' = [side \in {"bid", "ask"} |-> IF quotes[side] = i THEN NoQuote ELSE quotes[side]]
  /\ UNCHANGED <<marketVars, orders, evicted, work, late>>

MakerOnOrderUpdate ==
  LET i == Head(queue).value IN
  /\ Dequeue
  /\ Head(queue).tag = "order_update"
  /\ \/ /\ \E side \in {"bid", "ask"} :
             quotes[side] = i /\ quotes' = [quotes EXCEPT ![side] = NoQuote]
        /\ inventory' = inventory + Signed[i]
     \/ /\ \A side \in {"bid", "ask"} : quotes[side] # i
        /\ UNCHANGED <<inventory, quotes>>
  /\ UNCHANGED <<marketVars, orders, evicted, work, late>>

\* Mutant of AtCap: a short position is never at the cap.
AtCapLong(side) == inventory >= Cap

AtCap(side) == IF side = "bid" THEN inventory >= Cap ELSE inventory <= -Cap

CloseEnough(side) ==
  LET i == quotes[side] IN
  i # NoQuote /\ Max({orders[i].px - Target(side, work.mid),
                      Target(side, work.mid) - orders[i].px}) < Requote

\* _requote, up to the submission.
DropStale ==
  /\ work.pc = "requote"
  /\ \/ AtCap(work.side) /\ Cancel(work.side) /\ NextSide
     \/ /\ ~AtCap(work.side) /\ CloseEnough(work.side)
        /\ NextSide
        /\ UNCHANGED <<orders, quotes, late>>
     \/ /\ ~AtCap(work.side) /\ ~CloseEnough(work.side)
        /\ Cancel(work.side)
        /\ work' = [work EXCEPT !.pc = "submit"]
  /\ UNCHANGED <<marketVars, queue, evicted, inventory>>

Quote == New(OrderSide(work.side), Target(work.side, work.mid), FALSE)

Quoted == quotes' = [quotes EXCEPT ![work.side] = Len(orders')] /\ NextSide

\* submit: refused by the guard or the manager, filled at once, or to be rested.
Submit ==
  /\ work.pc = "submit"
  /\ \/ NextSide /\ UNCHANGED <<orders, quotes>>
     \/ /\ MayPlace /\ CrossesAt(Quote.side, Quote.px, mid)
        /\ PlaceFilled(Quote) /\ Quoted
     \/ /\ MayPlace /\ ~CrossesAt(Quote.side, Quote.px, mid)
        /\ work' = [work EXCEPT !.pc = "rest"]
        /\ UNCHANGED <<orders, quotes>>
  /\ UNCHANGED <<marketVars, queue, evicted, inventory, late>>

\* Into _resting it goes, whatever the mid is by now.
MakerRest ==
  /\ work.pc = "rest"
  /\ PlaceResting(Quote) /\ Quoted
  /\ UNCHANGED <<marketVars, queue, evicted, inventory, late>>

\* on_stop: between two events at any time, and what is queued is not handled.
MakerOnStop ==
  /\ \/ /\ work.pc = "waiting"
        /\ Cancel("bid")
        /\ work' = [work EXCEPT !.pc = "stopping"]
     \/ /\ work.pc = "stopping"
        /\ Cancel("ask")
        /\ work' = [work EXCEPT !.pc = "stopped"]
  /\ UNCHANGED <<marketVars, queue, evicted, inventory>>

MakerNext ==
  \/ FeedStep /\ UNCHANGED makerVars
  \/ MakerOnMarketData \/ MakerOnOrderUpdate
  \/ DropStale \/ Submit \/ MakerRest \/ MakerOnStop

MakerSpec == MakerInit /\ [][MakerNext]_<<executionVars, makerVars>>

-----------------------------------------------------------------------------
MakerTypeOK ==
  /\ ExecutionTypeOK
  /\ inventory \in Int
  /\ quotes \in [{"bid", "ask"} -> 0 .. MaxOrders]
  /\ work \in [pc : {"waiting", "requote", "submit", "rest", "stopping", "stopped"},
               side : {"bid", "ask"}, mid : Mids \cup {NoMid}]
  /\ late \subseteq 1 .. MaxOrders

\* Every order that works is the quote of its side, whatever fills, cancels and
\* lost updates come in between: there are never two on a side, and none is left
\* when on_stop has run (market_maker.py:34-55, 66-68).
QuotesTracked ==
  \A i \in InState("resting") :
    \E side \in {"bid", "ask"} : quotes[side] = i /\ orders[i].side = OrderSide(side)

\* The fills the strategy never counts: those made at placement, those it
\* cancelled too late, and those the queue gave up.
Uncounted == Instant \cup late \cup evicted

\* What the strategy believes it holds differs from what it holds by the fills
\* that are still on their way and by those three kinds of fill, and by nothing
\* else (market_maker.py:57-64, core.py:107-119).
InventoryTrue ==
  inventory = SumOf(Signed, InState("filled") \ (Uncounted \cup OnTheWay))

\* "Respect an inventory cap: don't quote a side that would push inventory past the
\* cap" (market_maker.py:4-5).  It does: only the inventory is compared with the cap,
\* without the size of the quote (market_maker.py:35-38).
NeverQuotesPastCap ==
  /\ quotes["bid"] # NoQuote => inventory + Size <= Cap
  /\ quotes["ask"] # NoQuote => inventory - Size >= -Cap

\* How far past the cap the code can go, and no further: but for the three kinds of
\* fill it never counts the position is less than one order beyond the cap, with
\* fills still unheard of and a quote on either side (market_maker.py:34-55).
OvershootBounded ==
  LET position == SumOf(Signed, InState("filled") \ Uncounted) IN
  position \in -(Cap + Size - 1) .. Cap + Size - 1
=============================================================================
