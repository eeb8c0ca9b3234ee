------------------------------ MODULE OrderPath ------------------------------
(***************************************************************************)
(* The submission path with everything that runs beside it: the plugin     *)
(* threads inside OrderRouter.submit and cancel, the RiskGuard they        *)
(* consult, the MockOrderManager they place with, and the feed thread that *)
(* updates the mids and fills resting orders (MidPriceTracker._update,     *)
(* poll_fills, Platform._on_order_event).  One action is one stretch of    *)
(* code between two points where another thread can get in.                *)
(*                                                                         *)
(* The store is used through its abstraction: OrderStore implements        *)
(* OrderLedger, so a call of it is one step on ledger.                     *)
(***************************************************************************)
EXTENDS Orders, Limits, Sequences

CONSTANTS
  Mids,         \* the mids the feed may report
  MinNotional,  \* MIN_NOTIONAL_USD
  MaxTime       \* bound on the clock

Free == "free"
None == "none"
NoMid == -1

ASSUME PathAssumption ==
  /\ Mids \subseteq Nat
  /\ MinNotional \in Nat /\ MaxTime \in Nat
  /\ Free \notin Plugins

VARIABLES
  status,   \* "up", "closed" (store closed by Platform.stop) or "down"
  ledger,   \* the order store: cloid -> recorded state, or Absent
  resting,  \* MockOrderManager._resting
  mid,      \* MidPriceTracker._mids
  lock,     \* the plugin whose thread holds OrderRouter._lock, or Free
  clock, recent,      \* time.monotonic(), RiskGuard._recent
  thread,   \* plugin -> where its thread is in submit or cancel, and with what
  feed,     \* where the feed thread is in _update, and with what
  \* History, which no action reads except to issue a cloid once:
  log,      \* the submission times noted since the process started
  issued,   \* the cloids handed to submit so far
  venue,    \* cloid -> what the manager did with the order, or Absent
  told,     \* cloid -> the outcomes its owner was given
  lost      \* orders whose fate an exception or a crash took from the platform

vars == <<status, ledger, resting, mid, lock, clock, recent, thread, feed,
          log, issued, venue, told, lost>>
storeVars == <<status, ledger>>
rateVars == <<clock, recent, log>>
historyVars == <<issued, told, lost>>

ThreadIdle == [pc |-> "idle", cloid |-> None, state |-> Absent]
At(pc, c) == [pc |-> pc, cloid |-> c, state |-> Absent]
WithResult(c, s) == [pc |-> "apply", cloid |-> c, state |-> s]

FeedIdle == [pc |-> "idle", coin |-> None, out |-> {}, cur |-> None]
TickOf(coin) == [pc |-> "tick", coin |-> coin, out |-> {}, cur |-> None]
Emitting(out) == IF out = {} THEN FeedIdle
                 ELSE [pc |-> "emit", coin |-> None, out |-> out, cur |-> None]

\* The stretches of submit that run under OrderRouter._lock.
Checking == {"open", "notional", "reserve"}
Critical == Checking \cup {"place", "rest"}

Ledger == INSTANCE LimitedLedger
Rate == INSTANCE RateWindow
          WITH admitted <- \E p \in Plugins : thread[p].pc \in Checking

Open == OpenIn(ledger)

Init ==
  /\ status = "up"
  /\ ledger = [c \in Cloids |-> Absent]
  /\ resting = {}
  /\ mid = [coin \in Coins |-> NoMid]
  /\ lock = Free
  /\ clock = 0 /\ recent = <<>> /\ log = <<>>
  /\ thread = [p \in Plugins |-> ThreadIdle]
  /\ feed = FeedIdle
  /\ issued = {}
  /\ venue = [c \in Cloids |-> Absent]
  /\ told = [c \in Cloids |-> {}]
  /\ lost = {}

Tell(c, s) == told' = [told EXCEPT ![c] = @ \cup {s}]

\* Mutant of Applied: only a pending order is updated.
AppliedOnce(c, s) ==
  IF ledger[c] = "pending" THEN [ledger EXCEPT ![c] = s] ELSE ledger

\* OrderStore.apply: an update that does not advance the order is ignored.
Applied(c, s) ==
  IF Ledger!Advances(c, s) THEN [ledger EXCEPT ![c] = s] ELSE ledger

-----------------------------------------------------------------------------
(* submit, up to the reservation: RiskGuard.check, note_submission,        *)
(* record_pending.  Each read of the store is a call of its own, so fills  *)
(* and cancels get in between.                                             *)

\* Mutant of Refuse: an early return that forgets the lock.
RefuseKeepingLock(p, c) ==
  /\ thread' = [thread EXCEPT ![p] = ThreadIdle]
  /\ UNCHANGED lock
  /\ Tell(c, "rejected")

\* A failed check: the result is a rejection that is never recorded.
Refuse(p, c) ==
  /\ thread' = [thread EXCEPT ![p] = ThreadIdle]
  /\ lock' = Free
  /\ Tell(c, "rejected")

Submit(p, c) ==
  /\ status # "down"
  /\ thread[p] = ThreadIdle /\ lock = Free
  /\ Intent[c].plugin = p /\ c \notin issued
  /\ issued' = issued \cup {c}
  /\ recent' = Rate!Trim(recent, clock)
  /\ \/ /\ Rate!UnderRate(recent')
        /\ lock' = p
        /\ thread' = [thread EXCEPT ![p] = At("open", c)]
        /\ UNCHANGED told
     \/ /\ ~Rate!UnderRate(recent')
        /\ Refuse(p, c)
  /\ UNCHANGED <<storeVars, resting, mid, clock, log, feed, venue, lost>>

\* Mutant of BelowMaxOpen: > instead of >= in the rejection.
UpToMaxOpen == Cardinality(Open) <= MaxOpen

BelowMaxOpen == Cardinality(Open) < MaxOpen

CheckOpen(p) ==
  /\ thread[p].pc = "open"
  /\ \/ /\ BelowMaxOpen
        /\ thread' = [thread EXCEPT ![p] = At("notional", @.cloid)]
        /\ UNCHANGED <<lock, told>>
     \/ /\ ~BelowMaxOpen
        /\ Refuse(p, thread[p].cloid)
  /\ UNCHANGED <<storeVars, rateVars, resting, mid, feed, issued, venue, lost>>

\* Mutant of BelowMaxGross: the cap is compared without the new order.
GrossAloneBelowMax(c) == Intent[c].reduceOnly \/ GrossOf[Open] <= MaxGross

\* Reduce-only orders bypass the cap; with a NaN the comparison is false.
BelowMaxGross(c) ==
  \/ Intent[c].reduceOnly
  \/ c \in NaNOrders
  \/ GrossOf[Open] + Notional(c) <= MaxGross

CheckNotional(p) ==
  /\ thread[p].pc = "notional"
  /\ \/ /\ BelowMaxGross(thread[p].cloid)
        /\ thread' = [thread EXCEPT ![p] = At("reserve", @.cloid)]
        /\ UNCHANGED <<lock, told>>
     \/ /\ ~BelowMaxGross(thread[p].cloid)
        /\ Refuse(p, thread[p].cloid)
  /\ UNCHANGED <<storeVars, rateVars, resting, mid, feed, issued, venue, lost>>

\* Mutant of NoteSubmission: the cutoff is noted instead of the time.
NoteCutoff ==
  /\ recent' = Append(recent, clock - Window)
  /\ log' = Append(log, clock - Window)
  /\ UNCHANGED clock

\* Mutant of NoteSubmission: the deque is not advanced.
NoteNothing == log' = Append(log, clock) /\ UNCHANGED <<clock, recent>>

NoteSubmission ==
  /\ recent' = Append(recent, clock)
  /\ log' = Append(log, clock)
  /\ UNCHANGED clock

\* note_submission and record_pending; the row of a NaN order is silently
\* ignored by the INSERT.
Reserve(p) ==
  LET c == thread[p].cloid IN
  /\ thread[p].pc = "reserve" /\ status = "up"
  /\ NoteSubmission
  /\ \/ Ledger!Record(c)
     \/ c \in NaNOrders /\ UNCHANGED ledger
  /\ thread' = [thread EXCEPT ![p] = At("place", c)]
  /\ UNCHANGED <<status, resting, mid, lock, feed, historyVars, venue>>

-----------------------------------------------------------------------------
(* MockOrderManager.place, and submit's apply of its result once the       *)
(* router's lock is released.                                              *)

RejectedByVenue(c) ==
  \/ c \notin NaNOrders /\ Notional(c) < MinNotional
  \/ mid[Intent[c].coin] = NoMid

\* The manager's answer is final: the lock is released with it in hand.
Answer(p, c, s) ==
  /\ venue' = [venue EXCEPT ![c] = s]
  /\ thread' = [thread EXCEPT ![p] = WithResult(c, s)]
  /\ lock' = Free

\* place reads the mid once and decides by it.
Place(p) ==
  LET c == thread[p].cloid
      m == mid[Intent[c].coin] IN
  /\ thread[p].pc = "place"
  /\ \/ RejectedByVenue(c) /\ Answer(p, c, "rejected")
     \/ ~RejectedByVenue(c) /\ Crosses(c, m) /\ Answer(p, c, "filled")
     \/ /\ ~RejectedByVenue(c) /\ ~Crosses(c, m)
        /\ thread' = [thread EXCEPT ![p] = At("rest", c)]
        /\ UNCHANGED <<venue, lock>>
  /\ UNCHANGED <<storeVars, rateVars, resting, mid, feed, historyVars>>

\* It does not cross the mid that was read: into _resting it goes.
Rest(p) ==
  LET c == thread[p].cloid IN
  /\ thread[p].pc = "rest"
  /\ resting' = resting \cup {c}
  /\ Answer(p, c, "resting")
  /\ UNCHANGED <<storeVars, rateVars, mid, feed, historyVars>>

\* apply, and the return of submit or cancel.  An update that has nothing to
\* advance never reaches the database, so a closed store does not stop it.
Apply(p) ==
  LET c == thread[p].cloid
      s == thread[p].state IN
  /\ thread[p].pc = "apply"
  /\ status = "up" \/ ~Ledger!Advances(c, s)
  /\ ledger' = Applied(c, s)
  /\ Tell(c, s)
  /\ thread' = [thread EXCEPT ![p] = ThreadIdle]
  /\ UNCHANGED <<status, resting, mid, lock, rateVars, feed, issued, venue, lost>>

\* Mutant of Cancel: the order is looked up in _resting but not popped.
CancelWithoutPop(p, c) ==
  /\ status # "down"
  /\ thread[p] = ThreadIdle /\ Intent[c].plugin = p
  /\ c \in resting
  /\ venue' = [venue EXCEPT ![c] = "cancelled"]
  /\ thread' = [thread EXCEPT ![p] = WithResult(c, "cancelled")]
  /\ UNCHANGED <<storeVars, resting, rateVars, mid, lock, feed, historyVars>>

\* Mutant of Cancel: the result of the manager's cancel is ignored.
CancelUnchecked(p, c) ==
  /\ status # "down"
  /\ thread[p] = ThreadIdle /\ Intent[c].plugin = p
  /\ c \in issued
  /\ resting' = resting \ {c}
  /\ venue' = IF c \in resting THEN [venue EXCEPT ![c] = "cancelled"] ELSE venue
  /\ thread' = [thread EXCEPT ![p] = WithResult(c, "cancelled")]
  /\ UNCHANGED <<storeVars, rateVars, mid, lock, feed, historyVars>>

\* OrderRouter.cancel: the manager drops the order, then the store is told.
Cancel(p, c) ==
  /\ status # "down"
  /\ thread[p] = ThreadIdle /\ Intent[c].plugin = p
  /\ c \in resting
  /\ resting' = resting \ {c}
  /\ venue' = [venue EXCEPT ![c] = "cancelled"]
  /\ thread' = [thread EXCEPT ![p] = WithResult(c, "cancelled")]
  /\ UNCHANGED <<storeVars, rateVars, mid, lock, feed, historyVars>>

-----------------------------------------------------------------------------
(* The feed thread: a new mid, the fills it causes, and their delivery.    *)

\* A tick that was in hand when the store closed is still worked off.
NewMid(coin, m) ==
  /\ (status = "up" /\ feed = FeedIdle) \/ feed = TickOf(coin)
  /\ mid' = [mid EXCEPT ![coin] = m]
  /\ feed' = [FeedIdle EXCEPT !.pc = "poll", !.coin = coin]
  /\ UNCHANGED <<storeVars, resting, lock, rateVars, thread, historyVars, venue>>

FilledBy(coin, m) == {c \in resting : Intent[c].coin = coin /\ Crosses(c, m)}

\* poll_fills, under the manager's lock.
Poll ==
  LET filled == FilledBy(feed.coin, mid[feed.coin]) IN
  /\ feed.pc = "poll"
  /\ resting' = resting \ filled
  /\ venue' = [c \in Cloids |-> IF c \in filled THEN "filled" ELSE venue[c]]
  /\ feed' = Emitting(filled)
  /\ UNCHANGED <<storeVars, mid, lock, rateVars, thread, historyVars>>

\* _on_order_event, first half: persist the fill.
Emit(c) ==
  /\ feed.pc = "emit" /\ c \in feed.out /\ status = "up"
  /\ ledger' = Applied(c, "filled")
  /\ feed' = [feed EXCEPT !.pc = "notify", !.cur = c]
  /\ UNCHANGED <<status, resting, mid, lock, rateVars, thread, historyVars, venue>>

\* Mutant of Notify: the owner is looked up among the open orders.
NotifyIfOpen ==
  /\ feed.pc = "notify" /\ status = "up"
  /\ \/ feed.cur \in Open /\ Tell(feed.cur, "filled")
     \/ feed.cur \notin Open /\ UNCHANGED told
  /\ feed' = Emitting(feed.out \ {feed.cur})
  /\ UNCHANGED <<storeVars, resting, mid, lock, rateVars, thread, issued, venue, lost>>

\* Mutant of Notify: only the first fill of a mid is delivered.
NotifyFirstOnly ==
  /\ feed.pc = "notify" /\ status = "up"
  /\ Tell(feed.cur, "filled")
  /\ feed' = FeedIdle
  /\ UNCHANGED <<storeVars, resting, mid, lock, rateVars, thread, issued, venue, lost>>

\* _on_order_event, second half: find the owner by the row and enqueue.
Notify ==
  /\ feed.pc = "notify" /\ status = "up"
  /\ \/ ledger[feed.cur] # Absent /\ Tell(feed.cur, "filled")
     \/ ledger[feed.cur] = Absent /\ UNCHANGED told
  /\ feed' = Emitting(feed.out \ {feed.cur})
  /\ UNCHANGED <<storeVars, resting, mid, lock, rateVars, thread, issued, venue, lost>>

TickClock ==
  /\ clock < MaxTime
  /\ clock' = clock + 1
  /\ UNCHANGED <<storeVars, resting, mid, lock, recent, thread, feed, log,
                 historyVars, venue>>

-----------------------------------------------------------------------------
(* What can go wrong: a statement on the database raises (always once the  *)
(* store is closed), and the process can end at any time.                  *)

\* The exception leaves submit with the order not placed; the note stays.
ReserveRaises(p) ==
  /\ thread[p].pc = "reserve"
  /\ NoteSubmission
  /\ thread' = [thread EXCEPT ![p] = ThreadIdle]
  /\ lock' = Free
  /\ UNCHANGED <<storeVars, resting, mid, feed, historyVars, venue>>

\* The exception leaves submit or cancel with the manager's work done.
ApplyRaises(p) ==
  LET c == thread[p].cloid IN
  /\ thread[p].pc = "apply"
  /\ Ledger!Advances(c, thread[p].state)
  /\ thread' = [thread EXCEPT ![p] = ThreadIdle]
  /\ lost' = lost \cup {c}
  /\ UNCHANGED <<storeVars, resting, mid, lock, rateVars, feed, issued, venue, told>>

\* The exception leaves poll_fills, and with it the fills not yet emitted.
EmitRaises ==
  /\ feed.pc \in {"emit", "notify"}
  /\ feed' = FeedIdle
  /\ lost' = lost \cup feed.out
  /\ UNCHANGED <<storeVars, resting, mid, lock, rateVars, thread, issued, venue, told>>

\* Platform.stop closes the store whatever the threads are doing, with the feed
\* thread perhaps about to call _update for a tick that it took before.
Close ==
  /\ status = "up"
  /\ status' = "closed"
  /\ \/ UNCHANGED feed
     \/ feed = FeedIdle /\ \E coin \in Coins : feed' = TickOf(coin)
  /\ UNCHANGED <<ledger, resting, mid, lock, rateVars, thread, historyVars, venue>>

InFlight == {thread[p].cloid : p \in Plugins} \cap Cloids

Crash ==
  /\ status # "down"
  /\ status' = "down"
  /\ resting' = {}
  /\ mid' = [coin \in Coins |-> NoMid]
  /\ lock' = Free
  /\ recent' = <<>> /\ log' = <<>>
  /\ thread' = [p \in Plugins |-> ThreadIdle]
  /\ feed' = FeedIdle
  /\ lost' = lost \cup Open \cup InFlight \cup feed.out
  /\ UNCHANGED <<ledger, clock, issued, venue, told>>

Restart ==
  /\ status = "down"
  /\ status' = "up"
  /\ UNCHANGED <<ledger, resting, mid, lock, rateVars, thread, feed, historyVars, venue>>

-----------------------------------------------------------------------------
ThreadStep(p) ==
  \/ CheckOpen(p) \/ CheckNotional(p) \/ Reserve(p)
  \/ Place(p) \/ Rest(p) \/ Apply(p)

FeedStep == Poll \/ Notify \/ \E c \in Cloids : Emit(c)

\* What plugins and the market bring in; nothing obliges them to.
Input ==
  \/ \E p \in Plugins, c \in Cloids : Submit(p, c) \/ Cancel(p, c)
  \/ \E coin \in Coins, m \in Mids : NewMid(coin, m)
  \/ TickClock

Fault ==
  \/ \E p \in Plugins : ReserveRaises(p) \/ ApplyRaises(p)
  \/ EmitRaises \/ Close \/ Crash \/ Restart

Normal == Input \/ FeedStep \/ \E p \in Plugins : ThreadStep(p)

Next == Normal \/ Fault

Spec == Init /\ [][Next]_vars

\* Threads that are inside the platform's code are scheduled.
Fairness == WF_vars(FeedStep) /\ \A p \in Plugins : WF_vars(ThreadStep(p))

FairSpec == Init /\ [][Normal]_vars /\ Fairness

-----------------------------------------------------------------------------
ThreadStates ==
  [pc : Critical \cup {"idle", "apply"}, cloid : Cloids \cup {None},
   state : OrderState \cup {Absent}]

FeedStates ==
  [pc : {"idle", "tick", "poll", "emit", "notify"}, coin : Coins \cup {None},
   out : SUBSET Cloids, cur : Cloids \cup {None}]

TypeOK ==
  /\ status \in {"up", "closed", "down"}
  /\ ledger \in [Cloids -> OrderState \cup {Absent}]
  /\ resting \subseteq Cloids
  /\ mid \in [Coins -> Mids \cup {NoMid}]
  /\ lock \in Plugins \cup {Free}
  /\ clock \in 0 .. MaxTime
  /\ recent \in Seq(Nat) /\ log \in Seq(Nat)
  /\ thread \in [Plugins -> ThreadStates]
  /\ feed \in FeedStates
  /\ issued \subseteq Cloids /\ lost \subseteq Cloids
  /\ venue \in [Cloids -> OrderState \cup {Absent}]
  /\ told \in [Cloids -> SUBSET OrderState]

\* An actor still holds news of the order that the store or the owner lacks.
InHand(c) == c \in InFlight \/ c \in feed.out

\* No order works at the manager that the limits do not count, whatever fills,
\* cancels, late results, failed writes and crashes come in between
\* (order_router.py:37-43, order_store.py:14-16).
ExposureCounted == resting \subseteq Open

\* What the store records as final is what the manager did: a fill delivered
\* before the placement's own result, or a cancel racing a fill, never leaves
\* the wrong final state (order_store.py:19-21, order_router.py:43-49,
\* order_manager.py:85-104).
LedgerTruthful ==
  \A c \in Cloids : ledger[c] \in TerminalStates => ledger[c] = venue[c]

\* A slot of the limits is never leaked: an order recorded as open is in some
\* thread's hands, or working at the manager, or it was taken by an exception
\* or a crash (order_router.py:38-43, core.py:193).
Accounted ==
  \A c \in Open : InHand(c) \/ c \in resting \/ c \in lost

\* The owner never hears of a fill or a cancel that is not durable, and once
\* nothing is in hand it has heard of every final state its order reached
\* (core.py:191-198, order_router.py:43-50).
OwnerInformed ==
  \A c \in Cloids :
    /\ \A s \in told[c] \cap {"filled", "cancelled"} : ledger[c] = s
    /\ ledger[c] \in TerminalStates =>
         ledger[c] \in told[c] \/ InHand(c) \/ c \in lost

\* The path, with its lock, its threads and its crashes, records an order only
\* when the global limits allow it at that very instant, although the two
\* numbers were read earlier and apart (order_router.py:31-38).
ImplementsLimitedLedger == Ledger!LimitedSpec

\* The global limits hold of the open orders at every moment.
LimitsHold == Ledger!LimitsHold

\* Across all plugins no second sees more submissions than the limit, with the
\* clock running between the check and the note (risk_guard.py:45-70).
RateBound == Rate!RateBound

\* The path drives the rate window the way RateWindow has it driven: one check
\* at a time, and a note only after a successful check.
ImplementsRateWindow == Rate!Spec

\* The router's lock is always given back (order_router.py:31-41).
LockReleased == []<>(lock = Free)

\* Whatever the manager decides reaches the store and then the owner: results
\* applied outside the lock and fills delivered by the feed thread are not
\* forgotten (order_router.py:43, order_manager.py:102-104, core.py:191-198).
OutcomeRecorded ==
  \A c \in Cloids : \A s \in TerminalStates :
    venue[c] = s ~> ledger[c] = s /\ s \in told[c]

\* order_manager.py:48-49 says of the orders that rest that they are "filled
\* later by poll_fills when the mid crosses their price": when the feed is
\* done with a mid, that mid crosses no resting order.
NoRestingCrossed ==
  feed = FeedIdle /\ status = "up" =>
    \A c \in resting : mid[Intent[c].coin] # NoMid => ~Crosses(c, mid[Intent[c].coin])
=============================================================================
