----------------------------- MODULE Lifecycle -----------------------------
(***************************************************************************)
(* Platform.start and Platform.stop on the main thread (core.py), beside   *)
(* the plugin threads they start, flag, join and leave behind, the         *)
(* websocket thread that fans ticks out to whoever is subscribed, and the  *)
(* event stream's own thread, which brings live mode's fills to the store. *)
(*                                                                         *)
(* Hooks may subscribe at any time and may take for ever; a hook that      *)
(* raises ends like one that returns.  The connection behind the           *)
(* subscriptions is MarketData's subject, the queue PluginRunner's, what   *)
(* hooks do to orders OrderPath's, and an event stream that dies on its    *)
(* own LiveOrders': here a queue is a number of events.                    *)
(***************************************************************************)
EXTENDS Integers, FiniteSets, SequencesExt

CONSTANTS
  Specs,     \* the configured plugins, in the order of the config
  Coins,     \* a feed of another kind counts as another coin
  CoinOf,    \* plugin -> the coin in its config, if it has one
  QueueMax,  \* _QUEUE_MAX
  MaxSubs,   \* bound: plugin -> how often it subscribes
  MaxTicks   \* bound: ticks of the market

Plugins == ToSet(Specs)
Prices == "prices"   \* the MidPriceTracker
Stream == "stream"   \* the thread of LiveOrderManager's event stream
Free == "free"
NoCoin == "no coin"

ASSUME LifecycleAssumption ==
  /\ Specs \in Seq(Plugins) /\ Specs # <<>>
  /\ IsInjective(Specs)   \* names are the user's, nothing checks them
  /\ CoinOf \in [Plugins -> Coins \cup {NoCoin}] /\ NoCoin \notin Coins
  /\ QueueMax \in Nat \ {0} /\ MaxSubs \in [Plugins -> Nat] /\ MaxTicks \in Nat
  /\ {Prices, Stream, Free} \cap Plugins = {}

VARIABLES
  main,      \* where the main thread is, and at which plugin and token
  stream,    \* live mode's event stream, "none" in mock mode
  store,     \* the order store
  tracking,  \* MidPriceTracker._tracking
  flagged,   \* the plugins whose _stop is set
  thread,    \* plugin -> where its thread is, and how far in ctx.subscribe
  tokens,    \* plugin or Prices -> its list _tokens
  issued,    \* the last of _next_token: tokens are numbered
  lock,      \* who holds MarketDataService._lock across two steps, or Free
  registry,  \* the subscriptions of MarketDataService; a dict keeps them in the
             \* order of their tokens
  feed,      \* the callbacks the websocket thread has still to make, and of what tick
  fills,     \* where the event stream's thread is in its callback
  inbox,     \* plugin -> how many events are queued
  \* History:
  ticks,     \* how many ticks there have been
  mark,      \* coin -> the tick its mid comes from
  seen,      \* plugin -> coin -> the newest tick put into its queue
  quarantined, farewell  \* plugins whose join timed out; whose on_stop was called

vars == <<main, stream, store, tracking, flagged, thread, tokens, issued, lock, registry,
          feed, fills, inbox, ticks, mark, seen, quarantined, farewell>>
feedVars == <<feed, fills, inbox, ticks, mark, seen>>
wiring == <<stream, store, tracking>>
services == <<tokens, issued, lock, registry>>

At(pc) == [pc |-> pc, k |-> 1, j |-> 1]
Plugin == Specs[main.k]
Thread(pc) == [pc |-> pc, sub |-> "none", n |-> 0, token |-> 0]
NoTick == [todo |-> {}, tick |-> 0]

Init ==
  /\ main = At("stream")
  /\ stream \in {"none", "down"}
  /\ store = "open"
  /\ tracking = {} /\ flagged = {}
  /\ thread = [p \in Plugins |-> Thread("unborn")]
  /\ tokens = [o \in Plugins \cup {Prices} |-> <<>>]
  /\ issued = 0 /\ lock = Free /\ registry = {}
  /\ feed = NoTick /\ fills = "idle"
  /\ inbox = [p \in Plugins |-> 0]
  /\ ticks = 0
  /\ mark = [c \in Coins |-> 0]
  /\ seen = [p \in Plugins |-> [c \in Coins |-> 0]]
  /\ quarantined = {} /\ farewell = {}

-----------------------------------------------------------------------------
(* Platform.start.  What raises there leaves main with all that has been   *)
(* started so far.                                                         *)

Raised == main' = At("raised")

\* One step through the plugins, then on to the next part.
Onward(next) ==
  main' = IF main.k = Len(Specs) THEN At(next) ELSE [main EXCEPT !.k = @ + 1]

StartStream ==
  /\ main.pc = "stream"
  /\ \/ stream = "none" /\ main' = At("track") /\ UNCHANGED stream
     \/ stream = "down" /\ main' = At("track") /\ stream' = "up"
     \/ stream = "down" /\ Raised /\ UNCHANGED stream
  /\ UNCHANGED <<store, tracking, flagged, thread, services, feedVars, quarantined, farewell>>

\* MarketDataService.subscribe from the next token on, under its lock.
Register(owner, coin) ==
  /\ issued' = issued + 1
  /\ registry' = registry \cup {[id |-> issued', owner |-> owner, coin |-> coin]}

\* Nothing to track: the config names no coin, or one that is tracked.
Passes(coin) == coin \in tracking \cup {NoCoin}

\* Mutant of Track: a subscription that raises is survived.
TrackSwallowing ==
  LET coin == CoinOf[Plugin] IN
  /\ main.pc = "track" /\ lock = Free
  /\ tracking' = tracking \cup ({coin} \ {NoCoin})
  /\ \/ ~Passes(coin)
        /\ Register(Prices, coin)
        /\ tokens' = [tokens EXCEPT ![Prices] = Append(@, issued')]
     \/ UNCHANGED <<registry, issued, tokens>>
  /\ Onward("spawn")
  /\ UNCHANGED <<stream, store, flagged, thread, lock, feedVars, quarantined, farewell>>

\* MidPriceTracker.track: the coin is marked before it is subscribed.
Track ==
  LET coin == CoinOf[Plugin] IN
  /\ main.pc = "track" /\ lock = Free
  /\ \/ /\ Passes(coin)
        /\ Onward("spawn") /\ UNCHANGED <<tracking, registry, issued, tokens>>
     \/ /\ ~Passes(coin)
        /\ tracking' = tracking \cup {coin}
        /\ Register(Prices, coin)
        /\ tokens' = [tokens EXCEPT ![Prices] = Append(@, issued')]
        /\ Onward("spawn")
     \/ /\ ~Passes(coin)
        /\ tracking' = tracking \cup {coin}
        /\ Raised /\ UNCHANGED <<registry, issued, tokens>>
  /\ UNCHANGED <<stream, store, flagged, thread, lock, feedVars, quarantined, farewell>>

\* _load_plugin_class, then the runner's thread: a class that cannot be loaded
\* raises.
Spawn ==
  /\ main.pc = "spawn"
  /\ \/ /\ thread' = [thread EXCEPT ![Plugin] = Thread("on_start")]
        /\ Onward("running")
     \/ Raised /\ UNCHANGED thread
  /\ UNCHANGED <<wiring, flagged, services, feedVars, quarantined, farewell>>

\* Ctrl+C, the first one.
Interrupt ==
  /\ main.pc = "running"
  /\ main' = At("flag")
  /\ UNCHANGED <<wiring, flagged, thread, services, feedVars, quarantined, farewell>>

-----------------------------------------------------------------------------
(* Platform.stop.                                                          *)

\* PluginRunner.stop; the sentinel takes the queue's room but is no event.
Flag ==
  /\ main.pc = "flag"
  /\ flagged' = flagged \cup {Plugin}
  /\ Onward("join")
  /\ UNCHANGED <<wiring, thread, services, feedVars, quarantined, farewell>>

Hooks == {"on_start", "hook", "on_stop"}

\* Mutant of Join: without the timeout.
JoinForever ==
  /\ main.pc = "join" /\ thread[Plugin].pc = "dead"
  /\ Onward("release")
  /\ UNCHANGED <<wiring, flagged, thread, services, feedVars, quarantined, farewell>>

\* Mutant of Join: the answer of is_alive() is taken the wrong way round.
JoinLive ==
  /\ main.pc = "join"
  /\ \/ thread[Plugin].pc = "dead" /\ quarantined' = quarantined \cup {Plugin}
     \/ thread[Plugin].pc \in Hooks /\ UNCHANGED quarantined
  /\ Onward("release")
  /\ UNCHANGED <<wiring, flagged, thread, services, feedVars, farewell>>

\* join returns when the thread has ended, or after join_timeout.  A thread that
\* is in no hook sees its flag in a tenth of that time.
Join ==
  /\ main.pc = "join"
  /\ \/ thread[Plugin].pc = "dead" /\ UNCHANGED quarantined
     \/ thread[Plugin].pc \in Hooks /\ quarantined' = quarantined \cup {Plugin}
  /\ Onward("release")
  /\ UNCHANGED <<wiring, flagged, thread, services, feedVars, farewell>>

\* MarketDataService.unsubscribe.
Unregister(id) == registry' = {t \in registry : t.id # id}

\* Mutant of Release: the list is cleared after its first token.
ReleaseFirst ==
  /\ main.pc = "release" /\ lock = Free
  /\ \/ /\ main.j = 1 /\ tokens[Plugin] # <<>>
        /\ Unregister(tokens[Plugin][1])
        /\ main' = [main EXCEPT !.j = 2] \/ Raised
     \/ /\ main.j = 2 \/ tokens[Plugin] = <<>>
        /\ main' = [main EXCEPT !.pc = "clear"]
        /\ UNCHANGED registry
  /\ UNCHANGED <<wiring, flagged, thread, tokens, issued, lock, feedVars, quarantined, farewell>>

\* unsubscribe_all walks the list while a plugin left behind may append to it.
\* The upstream unsubscribe may raise, and then the rest of stop is not done.
Release ==
  /\ main.pc = "release" /\ lock = Free
  /\ \/ /\ main.j <= Len(tokens[Plugin])
        /\ Unregister(tokens[Plugin][main.j])
        /\ main' = [main EXCEPT !.j = @ + 1] \/ Raised
     \/ /\ main.j > Len(tokens[Plugin])
        /\ main' = [main EXCEPT !.pc = "clear"]
        /\ UNCHANGED registry
  /\ UNCHANGED <<wiring, flagged, thread, tokens, issued, lock, feedVars, quarantined, farewell>>

Clear ==
  /\ main.pc = "clear"
  /\ tokens' = [tokens EXCEPT ![Plugin] = <<>>]
  /\ main' = IF main.k = Len(Specs) THEN At("stop_stream")
             ELSE [pc |-> "release", k |-> main.k + 1, j |-> 1]
  /\ UNCHANGED <<wiring, flagged, thread, issued, lock, registry, feedVars, quarantined, farewell>>

\* Mutant of StopStream: the stream is left up, as in mock mode.
StopStreamNever ==
  /\ main.pc = "stop_stream"
  /\ main' = At("prices")
  /\ UNCHANGED <<wiring, flagged, thread, services, feedVars, quarantined, farewell>>

\* disconnect_websocket does not wait for a callback that is running.
StopStream ==
  /\ main.pc = "stop_stream"
  /\ stream' = IF stream = "up" THEN "down" ELSE stream
  /\ main' = At("prices")
  /\ UNCHANGED <<store, tracking, flagged, thread, services, feedVars, quarantined, farewell>>

\* MidPriceTracker.stop.
StopPrices ==
  /\ main.pc = "prices" /\ lock = Free
  /\ \/ /\ main.j <= Len(tokens[Prices])
        /\ Unregister(tokens[Prices][main.j])
        /\ main' = [main EXCEPT !.j = @ + 1] \/ Raised
        /\ UNCHANGED tokens
     \/ /\ main.j > Len(tokens[Prices])
        /\ tokens' = [tokens EXCEPT ![Prices] = <<>>]
        /\ main' = At("close")
        /\ UNCHANGED registry
  /\ UNCHANGED <<wiring, flagged, thread, issued, lock, feedVars, quarantined, farewell>>

Close ==
  /\ main.pc = "close"
  /\ store' = "closed"
  /\ main' = At("stopped")
  /\ UNCHANGED <<stream, tracking, flagged, thread, services, feedVars, quarantined, farewell>>

-----------------------------------------------------------------------------
(* A plugin's thread: _run, and ctx.subscribe from inside a hook.          *)

InHook(p) == thread[p].pc \in Hooks /\ thread[p].sub = "none"

\* Into MarketDataService.subscribe, which holds its lock while it connects.
Subscribe(p) ==
  /\ InHook(p) /\ thread[p].n < MaxSubs[p] /\ lock = Free
  /\ lock' = p
  /\ thread' = [thread EXCEPT ![p].sub = "subscribing", ![p].n = @ + 1]
  /\ UNCHANGED <<main, wiring, flagged, tokens, issued, registry, feedVars, quarantined, farewell>>

\* It returns the token of the coin that was asked for, be it the plugin's own or
\* not, or raises into the hook, which then goes on or ends.
Subscribed(p) ==
  /\ thread[p].sub = "subscribing"
  /\ lock' = Free
  /\ \/ /\ \E c \in Coins : Register(p, c)
        /\ thread' = [thread EXCEPT ![p].sub = "appending", ![p].token = issued']
     \/ /\ thread' = [thread EXCEPT ![p].sub = "none"]
        /\ UNCHANGED <<registry, issued>>
  /\ UNCHANGED <<main, wiring, flagged, tokens, feedVars, quarantined, farewell>>

AppendToken(p) ==
  /\ thread[p].sub = "appending"
  /\ tokens' = [tokens EXCEPT ![p] = Append(@, thread[p].token)]
  /\ thread' = [thread EXCEPT ![p].sub = "none", ![p].token = 0]
  /\ UNCHANGED <<main, wiring, flagged, issued, lock, registry, feedVars, quarantined, farewell>>

\* A hook returns or raises: _safe makes no difference.
HookEnds(p) ==
  /\ InHook(p)
  /\ thread' = [thread EXCEPT ![p].pc = IF @ = "on_stop" THEN "dead" ELSE "loop"]
  /\ UNCHANGED <<main, wiring, flagged, services, feedVars, quarantined, farewell>>

Goes(p, pc) ==
  /\ thread' = [thread EXCEPT ![p].pc = pc]
  /\ farewell' = IF pc = "on_stop" THEN farewell \cup {p} ELSE farewell
  /\ UNCHANGED <<main, wiring, flagged, services, feed, fills, ticks, mark, seen,
                 quarantined>>

Loop(p) ==
  /\ thread[p].pc = "loop"
  /\ Goes(p, IF p \in flagged THEN "on_stop" ELSE "get")
  /\ UNCHANGED inbox

\* An event, the sentinel (anywhere in the queue, or evicted), or nothing in time.
Get(p) ==
  /\ thread[p].pc = "get"
  /\ \/ inbox[p] > 0 /\ Goes(p, "hook") /\ inbox' = [inbox EXCEPT ![p] = @ - 1]
     \/ p \in flagged /\ Goes(p, "on_stop") /\ UNCHANGED inbox
     \/ inbox[p] = 0 /\ Goes(p, "loop") /\ UNCHANGED inbox

-----------------------------------------------------------------------------
(* The websocket thread: MarketDataService._on_event.                      *)

\* The callbacks of the feed at this moment.
Snapshot(c) == {t \in registry : t.coin = c}

OnEvent(c) ==
  /\ feed.todo = {} /\ lock = Free /\ ticks < MaxTicks
  /\ Snapshot(c) # {}
  /\ ticks' = ticks + 1
  /\ feed' = [todo |-> Snapshot(c), tick |-> ticks']
  /\ UNCHANGED <<main, wiring, flagged, thread, services, fills, inbox, mark, seen,
                 quarantined, farewell>>

Enqueued(n) == IF n < QueueMax THEN n + 1 ELSE n

\* Mutant of CalledNext: the newest subscriber is called first.
CalledNextNewest(token) == \A other \in feed.todo : token.id >= other.id

CalledNext(token) == \A other \in feed.todo : token.id <= other.id

\* One callback, unlocked: the tracker's, which takes the mid over and may fill
\* orders, or a plugin's, which enqueues the tick.  One that raises is survived.
Callback == \E token \in feed.todo :
  /\ CalledNext(token)
  /\ feed' = [feed EXCEPT !.todo = @ \ {token}]
  /\ \/ /\ token.owner = Prices
        /\ mark' = [mark EXCEPT ![token.coin] = feed.tick]
        /\ UNCHANGED <<inbox, seen>>
     \/ /\ token.owner # Prices
        /\ inbox' = [inbox EXCEPT ![token.owner] = Enqueued(@)]
        /\ seen' = [seen EXCEPT ![token.owner][token.coin] = feed.tick]
        /\ UNCHANGED mark
  /\ UNCHANGED <<main, wiring, flagged, thread, services, fills, ticks, quarantined, farewell>>

-----------------------------------------------------------------------------
(* The event stream's thread: _on_user_fills, and Platform._on_order_event *)
(* for each fill of a message.                                             *)

FillStep(from, to) ==
  /\ fills = from /\ fills' = to
  /\ UNCHANGED <<main, wiring, flagged, thread, services, feed, ticks, mark, seen,
                 quarantined, farewell>>

UserFills == stream = "up" /\ FillStep("idle", "apply") /\ UNCHANGED inbox

\* store.apply.
Persist == store = "open" /\ FillStep("apply", "notify") /\ UNCHANGED inbox

\* The row's owner is told, if it is one of the runners; then the next fill.
Notify ==
  /\ store = "open"
  /\ FillStep("notify", "apply") \/ FillStep("notify", "idle")
  /\ \/ \E p \in Plugins : /\ thread[p].pc # "unborn"
                           /\ inbox' = [inbox EXCEPT ![p] = Enqueued(@)]
     \/ UNCHANGED inbox

\* The store raises, as it always does once it is closed: the rest of the message
\* is lost.
FillLost ==
  /\ FillStep("apply", "idle") \/ FillStep("notify", "idle")
  /\ UNCHANGED inbox

-----------------------------------------------------------------------------
Start == StartStream \/ Track \/ Spawn
StopStep == Flag \/ Join \/ Release \/ Clear \/ StopStream \/ StopPrices \/ Close

StreamStep == UserFills \/ Persist \/ Notify \/ FillLost

PlatformStep(p) == Subscribed(p) \/ AppendToken(p) \/ Loop(p) \/ Get(p)

Next ==
  \/ Start \/ Interrupt \/ StopStep \/ Callback \/ StreamStep
  \/ \E p \in Plugins : Subscribe(p) \/ PlatformStep(p) \/ HookEnds(p)
  \/ \E c \in Coins : OnEvent(c)

\* The main thread and the plugin threads are scheduled while they are in the
\* platform's code.  Nothing makes a hook return.
Fairness == WF_vars(StopStep) /\ \A p \in Plugins : WF_vars(PlatformStep(p))

Spec == Init /\ [][Next]_vars /\ Fairness

-----------------------------------------------------------------------------
Tokens == [id : Nat, owner : Plugins \cup {Prices}, coin : Coins]

TypeOK ==
  /\ main \in [pc : {"stream", "track", "spawn", "running", "flag", "join", "release",
                     "clear", "stop_stream", "prices", "close", "stopped", "raised"},
               k : 1 .. Len(Specs), j : Nat]
  /\ stream \in {"none", "down", "up"} /\ store \in {"open", "closed"}
  /\ tracking \subseteq Coins
  /\ {flagged, quarantined, farewell} \subseteq SUBSET Plugins
  /\ thread \in [Plugins -> [pc : Hooks \cup {"unborn", "loop", "get", "dead"},
                             sub : {"none", "subscribing", "appending"}, n : Nat, token : Nat]]
  /\ tokens \in [Plugins \cup {Prices} -> Seq(Nat)] /\ issued \in Nat
  /\ lock \in Plugins \cup {Free} /\ registry \subseteq Tokens
  /\ feed \in [todo : SUBSET Tokens, tick : 0 .. MaxTicks]
  /\ inbox \in [Plugins -> 0 .. QueueMax] /\ ticks \in 0 .. MaxTicks
  /\ fills \in {"idle", "apply", "notify"}
  /\ mark \in [Coins -> 0 .. MaxTicks] /\ seen \in [Plugins -> [Coins -> 0 .. MaxTicks]]

Started == {p \in Plugins : thread[p].pc # "unborn"}
Alive == {p \in Started : thread[p].pc # "dead"}
Owners == {t.owner : t \in registry}
Tracked(coin) == \E t \in registry : t.owner = Prices /\ t.coin = coin

\* A plugin runs only on a platform that hears of fills and has subscribed to the
\* mids of its coin, if it names one, so that no order for it is placed without
\* either, also when start or stop raised half way; only a plugin left behind sees
\* them go (core.py:200-212, 215-228).
ReadyBeforeTrading ==
  \A p \in Alive \ quarantined :
    stream # "down" /\ (CoinOf[p] # NoCoin => Tracked(CoinOf[p]))

\* Whoever may still call the store: plugins, the tracker of the mids when it is
\* among the callbacks of the tick in hand, and the event stream in its callback.
StoreUsers ==
  Alive \cup ({Prices} \cap {t.owner : t \in feed.todo})
        \cup (IF fills = "idle" THEN {} ELSE {Stream})

\* What has been shut down stays quiet: when the store is closed every plugin is
\* dead or left behind, and from then on nobody begins to use the store who was
\* not at it already: neither a plugin nor a tick nor a fill of the venue
\* (core.py:215-227, order_manager.py:138-152).
StoreClosedLast ==
  [][store' = "closed" =>
       /\ Alive' \subseteq quarantined'
       /\ store = "closed" => StoreUsers' \subseteq StoreUsers]_vars

\* A stop that raises half way, as its unsubscriptions may, has by then given every
\* plugin its on_stop or left it behind, and leaves open the store that those left
\* behind, the tracker and the stream may still use (core.py:215-228).
RaisedStop ==
  main.pc = "raised" /\ flagged # {} =>
    /\ Started \subseteq farewell \cup quarantined
    /\ Alive \subseteq quarantined
    /\ store = "open"

\* "Tears down subscriptions" (core.py:7-8), and gives every plugin its on_stop
\* (plugin.py:71): when stop is over, nothing is subscribed but what a plugin that
\* was left behind had subscribed by then or subscribes later, and only such a
\* plugin can have missed its chance to cancel its orders (core.py:121-135,
\* 215-228, context.py:26-29, 43-46).
CleanStop ==
  main.pc = "stopped" =>
    /\ Owners \subseteq quarantined
    /\ Started \subseteq farewell \cup quarantined

\* A plugin never decides on a tick that the mids, by which orders are filled, are
\* behind of, as long as the mids of that coin are subscribed, be it the plugin's
\* own coin or another's (core.py:203-206, market_data.py:96-105).
MidsFirst ==
  \A p \in Plugins, c \in Coins : Tracked(c) => seen[p][c] <= mark[c]

\* A stop comes to its end whatever hooks are doing, be it that they never return
\* (core.py:215-228).
StopsAnyway == main.pc = "flag" ~> main.pc \in {"stopped", "raised"}
=============================================================================
