----------------------------- MODULE Execution -----------------------------
(***************************************************************************)
(* What one strategy trades on in mock mode: the feed thread with its mids *)
(* and the fills they cause, the strategy's bounded queue, and its own     *)
(* orders at the MockOrderManager.  The strategy modules extend this one   *)
(* with their hooks, which run on the plugin's thread.                     *)
(*                                                                         *)
(* OrderPath has the inside of submit; here the guard and the venue refuse *)
(* an order or let it through, and an order that is let through exists     *)
(* from the moment the manager fills it or puts it into _resting.          *)
(***************************************************************************)
EXTENDS Integers, Sequences, FiniteSetsExt

CONSTANTS
  Mids,       \* the mids a tick may have
  Size,       \* order_size, the same for all orders of a strategy
  QueueMax,   \* _QUEUE_MAX
  MaxTicks,   \* bound: ticks the feed delivers
  MaxOrders   \* bound: orders the platform lets through

NoMid == 0   \* a one-sided book, or no tick yet

ASSUME ExecutionAssumption ==
  /\ Mids \subseteq Nat \ {0} /\ Size \in Nat \ {0}
  /\ QueueMax \in Nat \ {0} /\ MaxTicks \in Nat /\ MaxOrders \in Nat

VARIABLES
  mid,      \* MidPriceTracker._mids of the strategy's coin
  orders,   \* the strategy's orders, in the order in which they came to exist
  feed,     \* where the feed thread is, and what it has still to enqueue
  queue,    \* the events waiting for the strategy, oldest first
  ticks,    \* history: how many ticks there have been
  evicted,  \* history: the orders whose fill a full queue gave up
  earned,   \* history: what the moves of the mid earned on the position
  work      \* where the plugin's thread is, and what for: each strategy has its own

executionVars == <<mid, orders, feed, queue, ticks, evicted, earned>>
marketVars == <<mid, feed, ticks, earned>>

Tick(m) == [tag |-> "market_data", value |-> m]
Fill(i) == [tag |-> "order_update", value |-> i]

FeedIdle == [pc |-> "idle", fills |-> {}, tick |-> NoMid]

ExecutionInit ==
  /\ mid \in Mids \cup {NoMid}
  /\ orders = <<>> /\ queue = <<>>
  /\ feed = FeedIdle
  /\ ticks = 0 /\ evicted = {} /\ earned = 0

InState(s) == {i \in DOMAIN orders : orders[i].state = s}

\* Filled by place itself: no order update is ever sent about these.
Instant == {i \in InState("filled") : ~orders[i].rested}

-----------------------------------------------------------------------------
(* positions_and_pnl: a fold over the fills the store has recorded.        *)

Total(s) ==
  LET upTo[n \in 0 .. Len(s)] == IF n = 0 THEN 0 ELSE upTo[n - 1] + s[n]
  IN  upTo[Len(s)]

\* What the orders of S contribute to a fold over all orders.
SumOf(amount, S) == Total([i \in DOMAIN amount |-> IF i \in S THEN amount[i] ELSE 0])

Signed == [i \in DOMAIN orders |-> IF orders[i].side = "buy" THEN Size ELSE -Size]

\* Fills on their way to the store, and on their way to the strategy.
FillsIn(events) ==
  {i \in DOMAIN orders : \E k \in DOMAIN events : events[k] = Fill(i)}

NextFill == Min(feed.fills)

Unrecorded == IF feed.pc = "evict" /\ feed.fills # {} THEN feed.fills \ {NextFill} ELSE feed.fills
OnTheWay == feed.fills \cup FillsIn(queue)

Recorded == InState("filled") \ Unrecorded

Position == SumOf(Signed, Recorded)

\* Mutant of Cash: every order is taken to have paid its limit price.
CashAtLimit == SumOf([i \in DOMAIN orders |-> -Signed[i] * orders[i].px], Recorded)

Cash == SumOf([i \in DOMAIN orders |-> -Signed[i] * orders[i].paid], Recorded)

Pnl == Cash + Position * mid

-----------------------------------------------------------------------------
(* The manager, as the strategy's submit and cancel reach it.              *)

CrossesAt(side, px, m) == IF side = "buy" THEN px >= m ELSE px <= m

\* Without a mid there is no market data and the order is rejected.
MayPlace == mid # NoMid /\ Len(orders) < MaxOrders

New(side, px, reduceOnly) ==
  [side |-> side, px |-> px, reduceOnly |-> reduceOnly,
   state |-> "resting", paid |-> NoMid, rested |-> TRUE]

FilledAt(order, price, rested) ==
  [side |-> order.side, px |-> order.px, reduceOnly |-> order.reduceOnly,
   state |-> "filled", paid |-> price, rested |-> rested]

PlaceFilled(order) == orders' = Append(orders, FilledAt(order, mid, FALSE))

PlaceResting(order) == orders' = Append(orders, order)

\* A cancel that comes too late returns False, which no strategy looks at.
CancelOrder(i) ==
  orders' = IF orders[i].state = "resting"
            THEN [orders EXCEPT ![i].state = "cancelled"] ELSE orders

-----------------------------------------------------------------------------
(* The feed thread.  It calls the mid tracker first, whose subscription is *)
(* the older one, and with it the fills; then it enqueues the tick.        *)

\* A one-sided book changes no mid and fills nothing.
Update(m) ==
  /\ feed = FeedIdle /\ ticks < MaxTicks
  /\ ticks' = ticks + 1
  /\ \/ /\ m = NoMid
        /\ feed' = [pc |-> "enqueue", fills |-> {}, tick |-> NoMid]
        /\ UNCHANGED <<mid, earned>>
     \/ /\ m # NoMid
        /\ mid' = m
        /\ earned' = earned + Position * (m - mid)
        /\ feed' = [pc |-> "poll", fills |-> {}, tick |-> m]
  /\ UNCHANGED <<orders, queue, evicted>>

\* poll_fills: a resting order is filled at its own price.
PollFills ==
  LET crossed == {i \in InState("resting") : CrossesAt(orders[i].side, orders[i].px, mid)} IN
  /\ feed.pc = "poll"
  /\ orders' = [i \in DOMAIN orders |->
       IF i \in crossed THEN FilledAt(orders[i], orders[i].px, TRUE) ELSE orders[i]]
  /\ feed' = [pc |-> "enqueue", fills |-> crossed, tick |-> feed.tick]
  /\ UNCHANGED <<mid, queue, ticks, evicted, earned>>

HasRoom == Len(queue) < QueueMax

\* What the feed enqueues next, the fills in the order of _resting, and where
\* it is when that is done.
Event == IF feed.fills = {} THEN Tick(feed.tick) ELSE Fill(NextFill)

Brought == IF feed.fills = {} THEN FeedIdle
           ELSE [pc |-> "enqueue", fills |-> feed.fills \ {NextFill}, tick |-> feed.tick]

\* _on_order_event and the strategy's tick callback, up to the first put_nowait:
\* a fill is persisted, then enqueued.
Enqueue ==
  /\ feed.pc = "enqueue"
  /\ earned' = earned + IF feed.fills = {} THEN 0
                        ELSE Signed[NextFill] * (mid - orders[NextFill].paid)
  /\ \/ /\ HasRoom
        /\ queue' = Append(queue, Event)
        /\ feed' = Brought
     \/ /\ ~HasRoom
        /\ feed' = [feed EXCEPT !.pc = "evict"]
        /\ UNCHANGED queue
  /\ UNCHANGED <<mid, orders, ticks, evicted>>

\* The rest of _enqueue: there is one feed, so after the eviction there is room.
EvictOldest ==
  LET gone == IF queue = <<>> THEN <<>> ELSE <<Head(queue)>>
      rest == IF queue = <<>> THEN <<>> ELSE Tail(queue) IN
  /\ feed.pc = "evict"
  /\ queue' = Append(rest, Event)
  /\ evicted' = evicted \cup FillsIn(gone)
  /\ feed' = Brought
  /\ UNCHANGED <<mid, orders, ticks, earned>>

FeedStep ==
  \/ \E m \in Mids \cup {NoMid} : Update(m)
  \/ PollFills \/ Enqueue \/ EvictOldest

\* The plugin's thread takes the oldest event.
Dequeue == work.pc = "waiting" /\ queue # <<>> /\ queue' = Tail(queue)

-----------------------------------------------------------------------------
Events == {Tick(m) : m \in Mids \cup {NoMid}} \cup {Fill(i) : i \in 1 .. MaxOrders}

Order == [side : {"buy", "sell"}, px : Int, reduceOnly : BOOLEAN,
          state : {"resting", "filled", "cancelled"}, paid : Int, rested : BOOLEAN]

ExecutionTypeOK ==
  /\ mid \in Mids \cup {NoMid}
  /\ orders \in Seq(Order)
  /\ Len(orders) <= MaxOrders
  /\ feed \in [pc : {"idle", "poll", "enqueue", "evict"},
               fills : SUBSET (1 .. MaxOrders), tick : Mids \cup {NoMid}]
  /\ queue \in Seq(Events) /\ Len(queue) <= QueueMax
  /\ ticks \in 0 .. MaxTicks
  /\ evicted \subseteq 1 .. MaxOrders
  /\ earned \in Int

\* "Exact total P&L with no cost-basis bookkeeping" (observability.py:21): the
\* fold over the fills and the current mark is what every move of the mid earned
\* on the position of that moment, plus what each fill was better than the mid,
\* however ticks, fills and placements interleave (observability.py:17-39).
PnlExact == mid # NoMid => Pnl = earned
=============================================================================
