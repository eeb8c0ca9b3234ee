# A verification of the Hyperliquid strategy platform

TLA+ modules for the platform in `src/strategy_platform`, model-checked with TLC on small instances and
proved with TLAPS for all. Paths below are relative to `src/strategy_platform` unless they start with
`src/`. `PROJECT.json` maps every definition to the lines it models.

## 1. Inventory

The platform runs trading strategies ("plugins"), one thread each, against one exchange. Three kinds of
thread are inside its code at any time:

* the **plugin threads**, which drain their own queue, call hooks, and through `ctx` call
  `OrderRouter.submit` / `cancel` and `MarketDataService.subscribe`;
* the **feed threads** of the SDK's websockets: market data (always), which updates the mids, in mock mode
  fills resting orders (`MidPriceTracker._update` -> `poll_fills` -> `Platform._on_order_event`) and
  enqueues ticks; the account's fills (live mode only), on a websocket and a thread of their own;
* the **main thread**, which starts everything and, on Ctrl+C, stops it (`Platform.stop`).

| component | state it keeps | operations | what is hard | correct when |
|---|---|---|---|---|
| `services/order_store.py` OrderStore | a SQLite row per order; `_open` and `_gross_notional` in memory; `_lock` | `record_pending`, `apply`, reads, `close`, rebuild at start | late, duplicate and out-of-order updates; a crash between commit and memory; restart | memory is the open part of the disk; the disk only advances |
| `services/risk_guard.py` RiskGuard | `_recent`, the submission times of the last second | `check`, `note_submission` | reads two numbers of the store one after the other, and the clock twice | no limit is breached, ever |
| `services/order_router.py` OrderRouter | `_lock` | `submit`, `cancel` | the result is applied outside the lock; exceptions half way | what is working is counted, what is final is true, the lock comes back |
| `services/order_manager.py` MockOrderManager | `_resting`, its lock | `place`, `cancel`, `poll_fills` | a mid, a cancel and a placement at once | an order is filled, cancelled or resting, one of them only |
| `services/order_manager.py` LiveOrderManager | `_coin_by_cloid`, the venue's own state | the same, and the fill stream | lost answers, partial fills, restart | its report is what the venue did |
| `core.py` MidPriceTracker | `_mids`, `_tracking` | `track`, `_update`, `mid` | called by the feed, read by submitters | the mid is the last one |
| `core.py` PluginRunner | a bounded queue, `_stop`, `dropped` | `_enqueue`, `_run`, `stop`, `join` | `_enqueue` is up to three queue operations; sentinel and flag | order kept, losses counted, plugin stops |
| `services/market_data.py` MarketDataService | `_subs`, `_token_key`, `_connected`, `_lock` | `subscribe`, `unsubscribe`, `_on_event`, `_on_disconnect` | reconnection runs without the lock | every subscriber has its feed, over one connection |
| `services/market_data.py` LiveMarketFeed | `_info`, `_sids`, `_closing` | `connect`, `disconnect`, `subscribe`, `unsubscribe` | handlers set after the socket opens; two handlers for one drop | one live connection |
| `core.py` Platform | the wiring, `runners` | `start`, `stop`, `status`, `_on_order_event` | partial start, quarantined plugins, stopping under load | every event reaches its owner |
| `contract/context.py` Context | tokens | forwards to router and market data | `unsubscribe_all` against a late `subscribe` | no token leaks |
| `services/observability.py` | none | `positions_and_pnl`, `StatusServer` | torn snapshots | P&L is the fold over the fills |
| `src/plugins/*` | quotes, inventory, entry | hooks | fills racing cancels | the strategy's view of its position is the store's |
| `config.py`, `__main__.py` | none | read once | - | - |

Interactions: plugin -> Context -> OrderRouter -> (RiskGuard -> OrderStore), OrderStore, OrderManager, OrderStore
again; feed -> MidPriceTracker -> MockOrderManager -> Platform -> OrderStore, then PluginRunner; feed ->
MarketDataService -> PluginRunner. All shared state sits behind one lock per component, and no lock is held
across components but two: `OrderRouter._lock` around guard, store and manager, and `MarketDataService._lock`
around the feed's calls. The hazards this gives rise to are listed in `PROJECT.json`, each at its line.

## 2. Modules

```
Orders  Limits          vocabulary; the limits
  |  \    |
  |   OrderLedger       what the store promises          <== OrderStore implements it
  |     |
  |   LimitedLedger     + the limits on admission        <== OrderPath implements it
  |   RateWindow        the orders-per-second limit      <== OrderPath implements it
  |
  +-- OrderStore        two layers, one lock, crashes
  +-- OrderPath         router, guard, mock manager, feed thread, faults
  +-- LiveOrders        live manager, venue, event stream, restarts
PluginRunner            one plugin's queue and thread
MarketData              the shared connection and its recovery
Lifecycle               start and stop, plugin threads, subscriptions, the fan-out of ticks
Execution               what a strategy trades on: mids, fills, its queue, its P&L
  +-- MarketMaker       plugins/market_maker.py
  +-- MeanReversion     plugins/mean_reversion.py
```

`MCOrders`, `MCOrderPath`, `MCMarketData` and `MCLifecycle` give constants values for TLC, and `MCOrderViews` does for three
modules that share no variable, `OrderStore`, `LiveOrders` and `MeanReversion`: each moves only while the other two are where
they begin, so that one run explores the sum of their states and not the product. `*Proofs` hold
the theorems; `OrdersProofs` is lemmas about sums of notionals, and `StrategyProofs` extends both strategies, to prove once what they share.

**Orders / Limits.** The intent of an order is a constant function of its cloid, since nothing changes an
intent after `submit` has given it a cloid. Prices and sizes are small naturals; a size that is the float
NaN is a member of `NaNOrders`. `GrossOf` is the sum of notionals over a set of orders, a constant function given
by the equations that determine it; `MCOrders` computes it, and TLC evaluates the assumption.

**OrderStore.** `db` is the disk, `mem` and `gross` the memory layer. A write is two steps of the holder of
`_lock`: the commit (`RecordCommit`, `ApplyCommit`) and the memory update (`RecordTrack`, `ApplyEvict`,
`ApplyUpdate`), with `op` holding what has been committed and not yet put in memory. A crash may fall between
them. Early returns, ignored inserts, statements that raise before the commit and reads are stuttering steps.

**OrderLedger / LimitedLedger.** One durable state per order that only advances; in the second, an order is only
recorded when the limits allow it *at that instant*.

**RateWindow.** `Check` trims and compares, `Note` appends, and each reads `clock` for itself; `admitted` is what
the router's lock guarantees between them. A new process starts with an empty window.

**OrderPath.** One action is a stretch of code between two points where another thread can get in. `submit` is
`Submit` (lock, rate check), `CheckOpen`, `CheckNotional`, `Reserve` (`note_submission`, `record_pending`),
`Place` (reads the mid, decides), `Rest` (inserts into `_resting`), `Apply` (outside the lock); `cancel` is `Cancel`,
then `Apply`. The feed thread is `NewMid`, `Poll`, then for each fill `Emit` (persist) and `Notify` (find the owner,
enqueue). `ReserveRaises`, `ApplyRaises` and `EmitRaises` are a database statement that raises, `Close` is
`Platform.stop` closing the store under running threads, perhaps with a tick in the feed thread's hands (`TickOf`) that `_update`
is then called for; `Crash` and `Restart` the process. The store is used through
`OrderLedger`, which `OrderStore` implements, so each call of it is one step. History variables, which no action
reads (but `issued`, so that a cloid is used once): `log`, `issued`, `venue` (what the manager did), `told` (what
was put into its owner's queue: what a full queue then gives up is `PluginRunner`'s subject), `lost` (orders whose news an exception or a crash destroyed).

**LiveOrders.** `LiveOrderManager`, with the venue as an actor. `submit` is `Submit` (reserve, and into `place`), `VenueTakes`,
`Answered` (parse, remember the coin), `AnswerGarbled` (the parser raises) or `PlaceRaises`, `Apply`; `cancel` is `Cancel`, `VenueCancels`, `Confirmed` or
`CancelRaises`, `Apply`. `place` runs under the router's lock, so one thread at a time is between `Submit` and its
answer; cancels are not. Fills travel on the event stream (`news`), are reported as `FILLED` whatever their size
(`OnUserFill`), and a dead stream stays dead (`StreamDrops`). Which orders the guard admits, and statements on the
database that raise, are OrderPath's subject. A request that raises before it reached the venue never reaches it later. The process ends and starts again as `ProcessEnds` and `ProcessStarts`.
The history variable `hit` keeps, for each order, which disturbances befell it, so that each property names exactly
the ones it does not survive:

| disturbance | what happens | breaks |
|---|---|---|
| `answer` | `place` raises although the venue has the order; reported as rejected (line 176) | `ExposureCounted`, `LedgerTruthful` |
| `garbled` | an answer of another shape raises while it is parsed and leaves `place`, with the order pending (line 179) | `FateComing` |
| `partial` | a part is filled and reported as `FILLED` (line 161) | `ExposureCounted`, `LedgerTruthful` |
| `confirm` | `cancel` raises although the venue cancelled (line 206) | `FateComing` |
| `venue` | the venue cancels of its own accord | `FateComing` |
| `unheard` | a fill nobody listens to, or news lost with the stream (line 136) | `FateComing` |
| `restart` | the process ends with the order open (line 117) | `FateComing`, `Cancellable` |

Each exception is needed: without any one of them TLC finds the property violated. The missing reconciliation after a restart is acknowledged in `src/DESIGN_DOCUMENT.md:308-312`, so none of this is
listed as a finding; the runs and the proofs show that nothing else is missing.

**PluginRunner.** `queue.Queue` makes each operation atomic; `_enqueue` is `Put`, and when the queue is full
`Evict` and `Retry`, with other threads in between. The plugin's thread is `Started`, `Loop`, `Get` / `Timeout`,
`HookReturns`; the main thread `SetStop`, `PutStop`. A tick and an order update take the same way, so an event is
only a feed and a number. `FreshestKept` is what the comment in line 110 promises, that no event is lost while an older one of its
own feed stays queued. With one feed it is a theorem; with two it is false, and the run `freshest` shows how: the second
`put_nowait` may find the queue full again and give up the event in hand. What is true of any feeds is that the room is then
taken by another feed's event (`LostToARival`).

**MarketData.** Both ends of each connection: what the service and the feed believe, and what the SDK's socket
carries (`up`). `subscribe` is `Subscribe`, `CallHook`, `Register` under the lock; `_on_disconnect` is `Report`,
then `Reconnect`, `RecoveryHook`, `Resubscribe` for each key and `Recovered`, without it. An upstream unsubscription may raise on a dropped
socket and is refused by one that is not open yet (`ReleaseRaises`), which leaves the connection to nobody. The constant
`Disturbances` says what the environment may do beyond one drop at a time, and the history variable `hit` what it has
done, so that each property names exactly the disturbances it does not survive:

| disturbance | meaning | `Covered` | `OneCopy` | `OnDemand` |
|---|---|---|---|---|
| none | one drop at a time, subscribers quiet meanwhile | holds | holds | holds |
| `again` | the new connection drops during the recovery | holds | fails | fails |
| `twice` | one drop reported to `on_error` and `on_close` | holds | fails | fails |
| `late` | a deliberate close is reported after the next connect | holds | fails | fails |
| `early` | a drop before the handlers are set | fails | holds | fails |
| `unready` | a feed is let go before its socket has opened | holds | fails | fails |
| `overlap` | subscribers come and go during the recovery | fails | fails | fails |

(Each row alone, with four connections, which `again` needs to break `OnDemand`.) The run `market` has all but `overlap`,
which every property excepts and `resubscribes` is about.

**Lifecycle.** The main thread is `StartStream`, `Track` and `Spawn` for each plugin, any of which may raise and end it there
(`Raised`), then `Interrupt`, and the seven parts of `Platform.stop`: `Flag`, `Join`, `Release` and `Clear` (the two halves of
`unsubscribe_all`) for each plugin, `StopStream`, `StopPrices`, `Close`. A plugin whose config names no coin has no mids tracked for it
(`Passes`). A plugin's thread is `PluginRunner`'s, with its queue
cut down to a length and the sentinel to the flag it comes with; from inside a hook it may subscribe, to any coin (`Subscribe`,
`Subscribed`, `AppendToken`; feeds other than `bbo` count as other coins), and a hook ends (`HookEnds`), by returning or by raising, or never: `crasher.py` and
`looper.py` are the two extremes. The websocket's thread takes a snapshot of the subscribers (`OnEvent`) and calls
them one by one, unlocked (`Callback`), in the order of their tokens, which are numbers given out once (`Register`). In live mode the event
stream's thread persists and delivers the fills of a message one by one (`UserFills`, `Persist`, `Notify`), or loses the rest of it to a store that
raises (`FillLost`). `disconnect_websocket` ends the stream but does not wait for a callback that is running, so that thread, a tick in hand and the plugins
left behind are the three that `stop` can close the store under (`StoreUsers`); `StoreClosedLast` says that nobody joins them afterwards. A quarantined plugin's thread goes on: it may subscribe between `Release` and
`Clear`, or after both, and its subscription then stays. Plugin names are distinct: nothing checks that, but with two
equal ones there is one entry in `_by_name` for both.

**Execution.** One strategy's surroundings in mock mode: the feed thread with its mids (`Update`), the fills they cause
(`PollFills`), and their way into the strategy's bounded queue before the tick itself (`Enqueue`, `EvictOldest`); the orders
the strategy has at the manager; and `positions_and_pnl` over the recorded fills, a fold (`Total`) in which an order outside the
set in question counts zero (`SumOf`). `feed` is where the feed thread is, with the fills it has still to enqueue and the tick that comes
after them. All orders of a strategy have the same
size, as both strategies' do. What the guard refuses is open. A fill at placement is taken to be recorded at once.
`earned` adds up what each move of the mid earned on the position of that moment, which is what `PnlExact` compares the fold with.

**MarketMaker, MeanReversion.** `Execution` and the hooks of one strategy on the plugin's thread. A hook is cut where it calls
the router: `DropStale` (decide, cancel), `Submit` and `MakerRest` for the maker's two sides in turn; `Enter`, `FlattenFilled`,
`FlattenUnfilled` and what becomes of the order (`Refused`, `FilledAtOnce`, `DoesNotCross`, `ReversionRest`) for mean reversion. `MakerOnStop` and `ReversionOnStop` may
come between any two events and leave the queue unheard. Of the maker's relative spreads the model keeps the comparison
of distances; of mean reversion's window and clock that they may decide either way at any tick. The history variables (`late`,
`evicted`, `forgotten`) name the fills the strategies are wrong about:

| fill | why the strategy misses it | breaks |
|---|---|---|
| at placement | `submit_order` answers `FILLED`, the maker stores a quote and waits for an update that never comes (`market_maker.py:49`) | inventory, cap |
| `late` | the cancel comes after the fill, and its update finds no quote (`market_maker.py:54`) | inventory, cap |
| `evicted` | a full queue gave the update up (`core.py:112`) | inventory, cap, `entry["filled"]` |
| `forgotten` | an entry is cancelled too late, or its close is refused (`mean_reversion.py:71-75`) | "flatten the position" |

`InventoryTrue`, `OvershootBounded`, `EntryTrue` and `PositionExplained` say that there is nothing else. The history variables are read by
no guard. The strategies claim nothing about these fills, so they are no finding. What the maker does claim is that it will not quote a side
that would push its inventory past the cap (`market_maker.py:4-5`), and that is false by its own inventory where the cap is not
a multiple of the size (`NeverQuotesPastCap`, the run `cap`); where it is one, it is a theorem.

## 3. Runs

| run | instance | shows |
|---|---|---|
| `order_views` | the store: 2 orders, 2 oids, every crash point | `TypeOK`, `WriteThrough`, `RowsAdvance`, refinement of `OrderLedger` |
| | live execution: 2 plugins with an order each, all seven disturbances | `LiveTypeOK`, `ExposureCounted`, `LedgerTruthful`, `FateComing`, `Cancellable`, each with its exceptions |
| | mean reversion: 4 orders, 2 mids, 5 ticks, a queue of 2 | `EntryTrue`, `PositionExplained`, `EntriesTracked` |
| `path_faults` | 2 plugins, 3 orders, 2 mids, all faults, clock still | `TypeOK`, `ExposureCounted`, `LedgerTruthful`, `Accounted`, `OwnerInformed`, `LimitsHold`, refinement of `LimitedLedger` |
| `path_live` | 4 orders, no faults, fairness, one submission per window of 2 ticks, 4 moments | `LockReleased`, `OutcomeRecorded`, `RateBound`, refinement of `RateWindow` |
| `runner` | 2 feeds of 3 events, a queue of 2 | `InOrder`, `LossesCounted`, `Stops`, `Served` |
| `market` | 2 feeds, 2 subscribers, 3 connections; all disturbances but `overlap` | `Covered`, `OneCopy`, `OnDemand`, each with its exceptions |
| `maker` | 4 orders of 2, a cap of 3, 3 mids, 5 ticks, a queue of 2 | `QuotesTracked`, `InventoryTrue`, `OvershootBounded`, `PnlExact` |
| `lifecycle` | a plugin with a coin that subscribes up to twice and one without, 2 coins, a queue of 1, one tick, mock and live | `ReadyBeforeTrading`, `StoreClosedLast`, `RaisedStop`, `CleanStop`, `MidsFirst`, `StopsAnyway` |

`TypeOK` of `PluginRunner`, `Lifecycle`, `MarketMaker` and `MeanReversion` says what kind of value each variable has, and is
true of the same instances (add it to the `INVARIANTS` of the run); no run repeats it.

Runs that show where the code departs from what its comments or its design document say:

| run | says | the code |
|---|---|---|
| `missed_cross` | resting orders are filled "when the mid crosses their price" | `place` reads the mid before the order is in `_resting`; a mid in between fills nothing |
| `nan_order` | an order is saved before it is sent | a NaN size breaks `NOT NULL`, which `OR IGNORE` hides; the order rests uncounted |
| `resubscribes` | "resubscribes every active feed" | a subscriber that comes or goes during the recovery can be left without its feed |
| `freshest` | "drop the oldest event, keep the freshest" | when two feeds race for the room of the evicted event, one loses its newest while an older one of its own stays |
| `cap` | "don't quote a side that would push inventory past the cap" | the inventory alone is compared with the cap, not what it would be after the quote |

**Bounds.** Two plugins are enough for every race on the router's lock (a third only repeats one of the two), three
orders for each limit to be met, exceeded and bypassed (two may be open, with 15 of notional: 6 + 9 fit and make
the third one too many, 8 + 9 do not, and the order of 8 is reduce-only). Mids 3 and 4 make each order cross, rest, and be filled later. The clock
stands still in `path_faults` and runs in `path_live`, whose four moments let a window of two slide over the orders (crashes and time together are left to `RateWindow`, whose proof has both). Two feeds with
a queue of two let an event be evicted between any two operations of `_enqueue`, and three events each let the
sentinel itself be evicted. In `LiveOrders` an order meets the other only at the router's lock, and is only handled by its own
plugin's thread, so two are enough; in `OrderStore` a second order is there for the sum of notionals to have two terms (the proofs make no such assumption).
In `MarketData` a feed is let go too early only while the socket carries it once, or it could be added without end. Three connections allow two recoveries, one of them during another.
Four orders are two rounds of the maker's quotes or of mean reversion's entry and close, so that news of one round
meets the next; a queue of two is overfilled by one tick that fills two orders; five ticks place, fill, replace, and fill
again. A cap of 3 with orders of 2 is overstepped by one, which is as far as `OvershootBounded` lets it, and is attained. In `lifecycle` one plugin may subscribe once more when the main thread has passed it, to its own coin or to the other, and the plugin without a coin stands for
the rest of the platform; one tick and one message of fills are under way at any point of the stop. The bounded clock,
events and connections make TLC's instances stop, so the runs about them do not check deadlock.

**Fairness.** `path_live` assumes that a thread which is inside the platform's code is scheduled: weak fairness of the feed
thread's step and of each plugin thread's. Nothing there blocks but `OrderRouter._lock`, which is only waited for
before `submit` begins; no plugin and no market is obliged to do anything (`Input` is not fair). It has no faults:
after a crash or a failing write an outcome may indeed never be recorded, which is what `lost` is for, and that an exception gives
the lock back too is the `with` statement's doing (`ReserveRaises`).
`runner` assumes that the plugin's own thread is scheduled and its hooks return; a hook that never returns is the
case `Platform.stop` quarantines, and then nothing can be promised. The enqueuing threads are not assumed fair.
`lifecycle` assumes weak fairness of the main thread's stop and of each plugin's thread while it is in the platform's code, never
of a hook. A join times out only for a plugin that is in a hook: an idle thread sees its flag within 0.2 s, a tenth of the
time-out. `MarketDataService.subscribe` is taken to return or raise; a connection attempt that hung would
hold the service's lock and with it the stop. A hook subscribes a bounded number of times, so `unsubscribe_all` comes to the
end of its list.

## 4. Proofs

TLAPS proves these for every set of orders, plugins and coins, every limit and every length of run:

| module | theorem | argument |
|---|---|---|
| `OrderStoreProofs` | `TypeCorrect`, `StoreWritesThrough`, `DiskAdvances`, `StoreImplementsLedger` | memory equals `Rebuilt(db)` except for the one order named by `op`, and `gross` is short by or in excess of that order's notional |
| `LiveOrdersProofs` | `TypeCorrect`, `LiveExposureCounted`, `LiveLedgerTruthful`, `LiveFateComing`, `LiveCancellable` | below |
| `OrderPathProofs` | `WindowBounded` (of `RateWindow`) | the deque is the tail of the history; what was trimmed has expired for good; after a successful check there is a free place |
| `OrderPathProofs` | `TypeCorrect`, `PathImplementsLimitedLedger`, `LedgerKeepsLimits`, `LimitsAlwaysHold`, `PathDrivesRateWindow`, `RateIsBounded`, `FinalStatesAreTrue`, `NoSlotLeaks`, `WorkingIsCounted`, `ExposureIsCounted`, `OwnersAreInformed` | below |
| `PluginRunnerProofs` | `TypeInvariance`, `EventsInOrder`, `OnlyARivalTakesTheRoom`, `OneFeedKeepsTheFreshest`, `LossesAreCounted` | below |
| `LifecycleProofs` | `TypeInvariance`, `RunsOnItsServices`, `NobodyBeginsAfterClose`, `RaisesBetweenJoinAndClose`, `StopLeavesNothing`, `MidsComeFirst` | below |
| `MarketDataProofs` | `TypeInvariance`, `FeedsAreCovered`, `OneConnectionForAll`, `ConnectedOnDemand` | below |
| `StrategyProofs` | of `MakerSpec`: `MakerInvariance`, `MakerTypes`, `QuotesAreTracked`, `InventoryIsTrue`, `OvershootIsBounded`, `WholeOrdersKeepTheCap`, `MakerPnlIsExact` | below |
| `StrategyProofs` | of `ReversionSpec`: `ReversionInvariance`, `ReversionIsTyped`, `EntryIsTrue`, `EntriesAreTracked`, `PositionIsExplained`, `ReversionPnlIsExact` | below |

The inductive invariant of `OrderPath` is `TypeOK`, `LockInv` (a thread in the critical section holds the lock, so there
is at most one), `ThreadInv` and `FeedInv` (what each thread carries is an order of its plugin), and `Admitted`: *what
the guard read still holds*. A thread past the open-order check still sees fewer than `MaxOpen` open orders, and one past the
notional check still sees room for its order, although both numbers were read earlier and apart. This is inductive because nothing
but the lock's holder adds an open order, and fills, cancels and late results only free exposure. With it, the step that
records an order is `LimitedRecord`, and every other step is an update or a stutter. `LimitsHold` is proved of the limited ledger,
where an admission adds one order within the limits (`OneMoreFits`) and everything else only removes (`FewerFit`), and carried
over by the refinement. The same invariant gives the refinement
of `RateWindow`: its `admitted` is "some thread is past the rate check", which only the lock's holder can be, so that a
`note_submission` follows a check with none in between; `RateBound` is then what
`WindowBounded`, in the same module, says of the window.

What becomes of an order is a second invariant of `OrderPath`, `FateInv`. It says of each order who *follows* it (a thread
that holds its result, the feed with a fill in hand, the manager, or nobody because `lost` names it); that a result in hand
and a recorded final state are what the manager did (`Result`, `Truthful`), and that what the owner was told is durable and what is final reaches it (`Durable`, `Heard`); and that a resting order with a
proper size is recorded and open (`Counted`). A step concerns one order, and the thread or feed that has it; for every other
order nothing that `FateInv` mentions changes. `ExposureCounted` and `OwnerInformed` have the hypothesis `NaNOrders = {}`: an
order whose size is NaN rests without being recorded, which is what the run `nan_order` shows, and `WorkingIsCounted`
says that it is the only exception.

The invariant of `PluginRunner` that keeps `InOrder` orders everything that is between the feeds and the hooks: what was
handled comes before what is in the queue, that before what a feed's thread has in its hands (`OrderInv`); a thread that retries after an
eviction finds room, or a rival has taken it. With a single feed there is no rival but the sentinel, so nothing missing is newer than anything queued
(`OneFeedKeepsTheFreshest`, until the stop). `LossesCounted` compares a counter with the size of a set, so its invariant (`LossInv`)
carries that what is missing is finite and grows by one event at a time; the feeds themselves may be infinitely many.

The invariant of `Lifecycle` has three parts. `RunInv` follows main: before `spawn` nothing runs, each coin passed is
tracked, and after the last join every thread that is not dead is one left behind, with its `on_stop` called otherwise: this is `RaisedStop`, since what raises in `stop` does so after the last
join and before the store is closed. Once it is closed, nobody is subscribed for the mids and the stream is not up, so that no tick or fill can begin. `StopInv` says where the token of each
subscription is: in the list of its owner, at a place `unsubscribe_all` has yet to come to, or in the hands of the owner's
thread, which has subscribed but not yet appended; when main walks the list of a plugin that is not left behind, that thread has
ended, so the list is complete. `MidsInv` says that the tracker's token is older than any plugin's on the same coin, and that in a
fan-out under way a plugin's callback has the tracker's before it, or behind it and done.

`MarketData` has an invariant for each of two sets of disturbances. `CoverInv` holds while nobody calls the service during a
recovery and every drop is reported: each key in the registry is *promised* (delivered by a live connection, or a report is due, or
a recovery has yet to come to it), the keys a recovery took are still the registry's, and a dead connection in `_info` is about to be
reported or replaced; a connection in use has keys, unless the last one's release was refused. With everything quiet, only the first kind of promise is left, which is `Covered`. `CopyInv` holds
while drops come one at a time, reported once, with nobody about: one report or recovery at most, a connection is opened only when
none is live, and a key on the wire is registered and on nobody's list of things to do. It gives `OneCopy`, and both together `OnDemand`.

The inductive invariant of `LiveOrders` says of each thread that what it carries is an order of its plugin and true of it
(`Sound`: a result it is about to apply is the venue's, an order being placed is unknown to the venue and pending), and
of each order that its news is true, that the venue has it only once it is recorded, and the four properties
(`Tracked`). A step concerns one order and its owner's thread; `LocalStep` shows once that it leaves all others alone.

The properties of the strategies compare sums over sets of orders, so `StrategyProofs` begins with the fold they are made of. The
prover has no induction to offer, but well-founded orders have a least element (`WFMin`), and from that comes `UpFromZero`: a set that has 0
and with each number the next one has them all. With it the fold exists and is unique (`FoldExists`, `FoldIsUnique`), and the sum of a set changes by what is added to
the set and not at all by an order appended outside it (`SumOfUnion`, `SumAddOne`, `SumOfAppend`).

Both strategies share `ExecInv`. Its `NewsInv` says that a fill is announced once: it is with the feed, or in the queue, or was given up,
or was taken out, and never in two of these places. Its `PnlInv` is `PnlExact` without the hypothesis, which needs that a fill is worth nothing to the books before it is
recorded (`Unrecorded`), and what it was better than the mid at that moment. All that a strategy has to know of a step of the feed is `FillsNow(X)`: the
orders of `X` rested and are filled, and their news is on its way, or some older news is given up.

`MakerInv` adds where the news of a quote can be. `QuotesTracked` alone is not inductive: an update clears a quote, so it must be known that
the update is of a filled order (`NewsInv`), and a quote that is filled must have its news still to come, or be one of the three kinds of fill that the strategy
never hears of (`QuoteKnown`); conversely, news on its way is of a present quote or of one cancelled too late (`NewsOfQuotes`), which is why every update that is
not counted is named by `late`. The cap is compared before a quote is placed and used when it fills: `CapInv` says that
a side with a quote, or about to have one, was below the cap, and stays so because only that side's fill moves the inventory that way, and it takes the quote with it.
`OvershootBounded` follows from it and from at most one fill on each side still unheard of, since news on its way that counts is of a quote. If the cap is a whole number of orders, so is the inventory, and below the cap there is room for one more (`WholeOrdersKeepTheCap`).

`ReversionInv` adds that what is about to be placed is an entry when there is none, or the opposite of a filled entry (`Pending`), so that a close
never opens a position; and `BooksOpen`, the balance of `PositionExplained` with the closes counted as filled from the moment they exist. In this form it
does not change when a close fills.

Assumptions: those of `Orders`, `Limits`, `OrderStore`, `OrderPath`, `PluginRunner`, `MarketData`, `Lifecycle`, `Execution` and `MarketMaker` (finitely many cloids, the
equations of `GrossOf`, natural limits, a window of at least one tick, a queue with room for one event, distinct plugin names, a coin or none for each plugin, a positive size, spread and cap), which TLC evaluates
on every run. The bounds `MaxTicks` and `MaxOrders` of `Execution` may be any numbers.

**Model-checked only:** liveness (`LockReleased`, `OutcomeRecorded`, `Stops`, `Served`, `StopsAnyway`), which is out of the prover's
reach. Every invariant and every action property that the passing runs check is proved as well. That TLC's `GrossOf` satisfies the equations assumed of it is
evaluated on the instances, not proved.

## 5. What is not modelled

* `StatusServer`, configuration and the scripts: I/O, or not part of the running platform. A status snapshot, which reads
  fills, marks and counters one after the other; nothing acts on it.
* Plugins of one name, which the configuration allows and `_by_name` does not tell apart.
* In the strategies: order sizes other than the one configured, floating-point drift, the statistics and the clock behind
  mean reversion's decisions, and a database that fails inside `submit` or `cancel`: the exception ends the hook before the
  strategy has noted the order, which `OrderPath` has from the platform's side.
* In the store: `avg_px`, `reason`, timestamps, the drift of floating-point sums, and a transaction left open by a commit that
  raises. `--fresh` deletes the database before anything runs.
* In live execution: the entries of `_coin_by_cloid` that nothing removes once their order has filled (memory only: a stale
  one costs a refused cancel, which `LiveOrders` has), prices and sizes and their rounding, fills of orders that are not ours (the code skips them), and
  the inside of the SDK. In `Lifecycle`, a stream that dies on its own (`LiveOrders` has it).
* In the path: `tif`, which only the live SDK reads; oids; more than one process at a time.
* In the strategies' surroundings an order that fills at placement is placed and recorded in one step; `OrderPath` has the two apart.
* In the runner: `dropped += 1` is taken together with the put before it, as the interpreter (`requires-python >= 3.12`) switches
  threads at no point inside it in practice; the error log.
* In market data: the count of callbacks that raised, backoff delays, and the inside of the SDK, which is
  external: that a socket may call `on_error` and then `on_close` for one failure, and that a subscription on a dropped
  socket may raise or seem to succeed, that an unsubscription is refused before the socket is open, are assumptions about it.

## 6. Possible extensions

The system is modelled, and what the runs check of safety is proved. What could be added:

1. `positions_and_pnl` with orders of several sizes and coins: the fold's lemmas in `StrategyProofs` are about any sequence of integers and do not
   depend on one size.
2. `StatusServer`'s snapshot, should anything come to act on it.
3. `OrderPath` and `Lifecycle` as one composition: today `OrderPath` has a `Close` at any moment, and `Lifecycle` only who may still use
   the store when it is closed.
