----------------------------- MODULE LiveOrders -----------------------------
(***************************************************************************)
(* Live execution: LiveOrderManager between the plugin threads and the     *)
(* venue.  The venue is an actor of its own; its answers travel back on    *)
(* the request that asked, its fills on the account's event stream, and    *)
(* either can be lost.  Every way the platform can lose track of an order  *)
(* is an action here and leaves its name in hit, so that the properties    *)
(* can say which of them matters to what.                                  *)
(*                                                                         *)
(* Which orders the guard admits is OrderPath's subject: here any order    *)
(* may be.  The store is used through its abstraction, as in OrderPath.    *)
(***************************************************************************)
EXTENDS Orders

VARIABLES
  up,         \* the process runs
  ledger,     \* the order store: cloid -> recorded state, or Absent
  thread,     \* plugin -> where its thread is in submit or cancel, and with what
  coins,      \* the keys of LiveOrderManager._coin_by_cloid
  listening,  \* the userFills subscription delivers
  news,       \* orders with a fill on its way down the event stream
  venue,      \* cloid -> what the venue has done with the order, or Absent
  hit         \* history: cloid -> the disturbances that befell the order

liveVars == <<up, ledger, thread, coins, listening, news, venue, hit>>

Disturbance == {
  "answer",   \* place's request raised although the venue has the order
  "garbled",  \* the venue's answer to place could not be read
  "partial",  \* the venue filled a part of it
  "confirm",  \* cancel's request raised although the venue cancelled
  "venue",    \* the venue cancelled it of its own accord
  "unheard",  \* it filled with nobody listening, or the news was lost
  "restart"}  \* the process ended while the order was open

Response == {"refused", "error", "resting", "filled"}

ThreadIdle == [pc |-> "idle", cloid |-> "none", state |-> Absent]
At(pc, c) == [pc |-> pc, cloid |-> c, state |-> Absent]
Holding(pc, c, s) == [pc |-> pc, cloid |-> c, state |-> s]

\* place runs under OrderRouter._lock, so one thread at a time is in it.
Placing == \E p \in Plugins : thread[p].pc \in {"send", "answer"}

Store == INSTANCE OrderLedger

LiveInit ==
  /\ up = TRUE
  /\ ledger = [c \in Cloids |-> Absent]
  /\ thread = [p \in Plugins |-> ThreadIdle]
  /\ coins = {}
  /\ listening = TRUE
  /\ news = {}
  /\ venue = [c \in Cloids |-> Absent]
  /\ hit = [c \in Cloids |-> {}]

Goto(p, there) == thread' = [thread EXCEPT ![p] = there]
VenueDoes(c, s) == venue' = [venue EXCEPT ![c] = s]
Strike(S, d) == hit' = [c \in Cloids |-> hit[c] \cup (IF c \in S THEN {d} ELSE {})]

\* OrderStore.apply: an update that does not advance the order is ignored.
Applied(c, s) ==
  IF Store!Advances(c, s) THEN [ledger EXCEPT ![c] = s] ELSE ledger

\* A fill is announced on the event stream, and missed if nobody listens.
Announce(c) ==
  \/ listening /\ news' = news \cup {c} /\ UNCHANGED hit
  \/ ~listening /\ Strike({c}, "unheard") /\ UNCHANGED news

-----------------------------------------------------------------------------
(* submit: the reservation, the request, its answer, the result.           *)

Submit(p, c) ==
  /\ up /\ thread[p] = ThreadIdle /\ ~Placing
  /\ Intent[c].plugin = p
  /\ Store!Record(c)
  /\ Goto(p, At("send", c))
  /\ UNCHANGED <<up, coins, listening, news, venue, hit>>

\* The venue takes the order: it refuses the request, answers that the order
\* is in error, lets it rest, or fills it.
VenueTakes(p) ==
  LET c == thread[p].cloid IN
  /\ thread[p].pc = "send"
  /\ \E resp \in Response :
       /\ Goto(p, Holding("answer", c, resp))
       /\ \/ resp \in {"refused", "error"} /\ VenueDoes(c, "rejected") /\ UNCHANGED <<news, hit>>
          \/ resp = "resting" /\ VenueDoes(c, "resting") /\ UNCHANGED <<news, hit>>
          \/ resp = "filled" /\ VenueDoes(c, "filled") /\ Announce(c)
  /\ UNCHANGED <<up, ledger, coins, listening>>

\* _parse_order_response: whatever is neither resting nor filled is a rejection.
Parsed(resp) == IF resp \in {"resting", "filled"} THEN resp ELSE "rejected"

\* The answer is parsed; an order that rests is remembered for its cancel.
Answered(p) ==
  LET c == thread[p].cloid
      s == Parsed(thread[p].state) IN
  /\ thread[p].pc = "answer"
  /\ coins' = IF s = "resting" THEN coins \cup {c} ELSE coins
  /\ Goto(p, Holding("apply", c, s))
  /\ UNCHANGED <<up, ledger, listening, news, venue, hit>>

\* An exception before the venue has the order or after: either way place
\* reports a rejection.
PlaceRaises(p) ==
  LET c == thread[p].cloid IN
  /\ thread[p].pc \in {"send", "answer"}
  /\ Goto(p, Holding("apply", c, "rejected"))
  /\ \/ venue[c] \in {Absent, "rejected"} /\ UNCHANGED hit
     \/ venue[c] \notin {Absent, "rejected"} /\ Strike({c}, "answer")
  /\ UNCHANGED <<up, ledger, coins, listening, news, venue>>

\* An answer of another shape raises while it is parsed, outside the try: out of
\* place and submit into the hook, with the order left pending.
AnswerGarbled(p) ==
  /\ thread[p].pc = "answer"
  /\ Goto(p, ThreadIdle)
  /\ Strike({thread[p].cloid}, "garbled")
  /\ UNCHANGED <<up, ledger, coins, listening, news, venue>>

\* apply, outside the lock, and the return of submit or cancel.
Apply(p) ==
  LET c == thread[p].cloid IN
  /\ thread[p].pc = "apply"
  /\ ledger' = Applied(c, thread[p].state)
  /\ Goto(p, ThreadIdle)
  /\ UNCHANGED <<up, coins, listening, news, venue, hit>>

-----------------------------------------------------------------------------
(* cancel: the coin is looked up, the venue asked, the entry removed.      *)

\* Mutant of Cancel: the entry is popped when it is looked up.
CancelPopping(p, c) ==
  /\ up /\ thread[p] = ThreadIdle
  /\ Intent[c].plugin = p
  /\ c \in coins
  /\ coins' = coins \ {c}
  /\ Goto(p, At("ask", c))
  /\ UNCHANGED <<up, ledger, listening, news, venue, hit>>

Cancel(p, c) ==
  /\ up /\ thread[p] = ThreadIdle
  /\ Intent[c].plugin = p
  /\ c \in coins
  /\ Goto(p, At("ask", c))
  /\ UNCHANGED <<up, ledger, coins, listening, news, venue, hit>>

\* The venue cancels an order that still rests and answers success; of any
\* other it answers an error.
VenueCancels(p) ==
  LET c == thread[p].cloid IN
  /\ thread[p].pc = "ask"
  /\ \/ /\ venue[c] = "resting"
        /\ VenueDoes(c, "cancelled")
        /\ Goto(p, Holding("confirm", c, "cancelled"))
     \/ /\ venue[c] # "resting"
        /\ Goto(p, At("confirm", c))
        /\ UNCHANGED venue
  /\ UNCHANGED <<up, ledger, coins, listening, news, hit>>

\* Mutant of Confirmed: whatever the venue answers counts as success.
ConfirmedUnchecked(p) ==
  LET c == thread[p].cloid IN
  /\ thread[p].pc = "confirm"
  /\ coins' = coins \ {c}
  /\ Goto(p, Holding("apply", c, "cancelled"))
  /\ UNCHANGED <<up, ledger, listening, news, venue, hit>>

Confirmed(p) ==
  LET c == thread[p].cloid IN
  /\ thread[p].pc = "confirm"
  /\ \/ /\ thread[p].state = "cancelled"
        /\ coins' = coins \ {c}
        /\ Goto(p, Holding("apply", c, "cancelled"))
     \/ /\ thread[p].state # "cancelled"
        /\ Goto(p, ThreadIdle)
        /\ UNCHANGED coins
  /\ UNCHANGED <<up, ledger, listening, news, venue, hit>>

\* Mutant of CancelRaises: the exception is taken for a success.
CancelRaisesTrue(p) ==
  LET c == thread[p].cloid IN
  /\ thread[p].pc \in {"ask", "confirm"}
  /\ Goto(p, Holding("apply", c, "cancelled"))
  /\ \/ thread[p].state = "cancelled" /\ Strike({c}, "confirm")
     \/ thread[p].state # "cancelled" /\ UNCHANGED hit
  /\ UNCHANGED <<up, ledger, coins, listening, news, venue>>

\* An exception on the way there or back: cancel returns False.  One over an answer
\* that cannot be read leaves cancel instead, in the same state.
CancelRaises(p) ==
  LET c == thread[p].cloid IN
  /\ thread[p].pc \in {"ask", "confirm"}
  /\ Goto(p, ThreadIdle)
  /\ \/ thread[p].state = "cancelled" /\ Strike({c}, "confirm")
     \/ thread[p].state # "cancelled" /\ UNCHANGED hit
  /\ UNCHANGED <<up, ledger, coins, listening, news, venue>>

-----------------------------------------------------------------------------
(* The event stream.                                                       *)

\* Mutant of OnUserFill: a fill of an order not known to rest is ignored.
OnUserFillOfResting(c) ==
  /\ up /\ c \in news
  /\ news' = news \ {c}
  /\ ledger' = IF c \in coins THEN Applied(c, "filled") ELSE ledger
  /\ UNCHANGED <<up, thread, coins, listening, venue, hit>>

\* _on_user_fills: any fill of one of our orders is reported as FILLED.
OnUserFill(c) ==
  /\ up /\ c \in news
  /\ news' = news \ {c}
  /\ ledger' = Applied(c, "filled")
  /\ UNCHANGED <<up, thread, coins, listening, venue, hit>>

\* The websocket dies; nothing in the platform notices or reconnects it.
StreamDrops ==
  /\ listening
  /\ listening' = FALSE
  /\ news' = {}
  /\ Strike(news, "unheard")
  /\ UNCHANGED <<up, ledger, thread, coins, venue>>

-----------------------------------------------------------------------------
(* The market and the venue, on their own account.                         *)

VenueFills(c) ==
  /\ venue[c] = "resting"
  /\ VenueDoes(c, "filled")
  /\ Announce(c)
  /\ UNCHANGED <<up, ledger, thread, coins, listening>>

\* A part is filled and announced; the rest goes on working.
VenueFillsPart(c) ==
  /\ venue[c] = "resting" /\ listening
  /\ news' = news \cup {c}
  /\ Strike({c}, "partial")
  /\ UNCHANGED <<up, ledger, thread, coins, listening, venue>>

\* A liquidation, a margin call, a cancel from elsewhere: not announced here.
VenueDrops(c) ==
  /\ venue[c] = "resting"
  /\ VenueDoes(c, "cancelled")
  /\ Strike({c}, "venue")
  /\ UNCHANGED <<up, ledger, thread, coins, listening, news>>

-----------------------------------------------------------------------------
(* The process ends, and another one starts from the database alone.       *)

\* Mutant of ProcessEnds: the next process finds the map of the last one.
ProcessEndsKeepingCoins ==
  /\ up
  /\ up' = FALSE
  /\ thread' = [p \in Plugins |-> ThreadIdle]
  /\ listening' = FALSE
  /\ news' = {}
  /\ Strike(OpenIn(ledger), "restart")
  /\ UNCHANGED <<ledger, coins, venue>>

ProcessEnds ==
  /\ up
  /\ up' = FALSE
  /\ thread' = [p \in Plugins |-> ThreadIdle]
  /\ coins' = {}
  /\ listening' = FALSE
  /\ news' = {}
  /\ Strike(OpenIn(ledger), "restart")
  /\ UNCHANGED <<ledger, venue>>

\* start_event_stream skips the snapshot of earlier fills.
ProcessStarts ==
  /\ ~up
  /\ up' = TRUE /\ listening' = TRUE
  /\ UNCHANGED <<ledger, thread, coins, news, venue, hit>>

-----------------------------------------------------------------------------
ThreadStep(p) ==
  \/ VenueTakes(p) \/ Answered(p) \/ PlaceRaises(p) \/ AnswerGarbled(p) \/ Apply(p)
  \/ VenueCancels(p) \/ Confirmed(p) \/ CancelRaises(p)

LiveNext ==
  \/ \E p \in Plugins : ThreadStep(p)
  \/ \E p \in Plugins, c \in Cloids : Submit(p, c) \/ Cancel(p, c)
  \/ \E c \in Cloids : OnUserFill(c) \/ VenueFills(c) \/ VenueFillsPart(c) \/ VenueDrops(c)
  \/ StreamDrops \/ ProcessEnds \/ ProcessStarts

LiveSpec == LiveInit /\ [][LiveNext]_liveVars

-----------------------------------------------------------------------------
ThreadState ==
  {ThreadIdle}
    \cup {At(pc, c) : pc \in {"send", "ask", "confirm"}, c \in Cloids}
    \cup {Holding("answer", c, resp) : c \in Cloids, resp \in Response}
    \cup {Holding("confirm", c, "cancelled") : c \in Cloids}
    \cup {Holding("apply", c, s) : c \in Cloids, s \in OrderState \ {"pending"}}

\* Every variable stays in its set, and only a running process has threads,
\* remembers coins or hears of fills.
LiveTypeOK ==
  /\ up \in BOOLEAN /\ listening \in BOOLEAN
  /\ Store!TypeOK
  /\ thread \in [Plugins -> ThreadState]
  /\ coins \subseteq Cloids /\ news \subseteq Cloids
  /\ venue \in [Cloids -> OrderState \cup {Absent}]
  /\ hit \in [Cloids -> SUBSET Disturbance]
  /\ ~up => coins = {} /\ ~listening /\ \A p \in Plugins : thread[p] = ThreadIdle
  /\ ~listening => news = {}

InHand(c) == \E p \in Plugins : thread[p].pc # "idle" /\ thread[p].cloid = c

\* An order that works at the venue is counted as open by the limits, whatever
\* is lost, delayed or restarted: only an answer that did not come back (it is
\* taken for a rejection) and a partial fill (it is taken for the whole) close
\* an order that still works.
ExposureCounted ==
  \A c \in Cloids : venue[c] = "resting" =>
    ledger[c] \in OpenStates \/ hit[c] \cap {"answer", "partial"} # {}

\* A final state in the store is the order's final state at the venue (an order
\* it never had counts as rejected), however cancels, fills and answers race;
\* the same two disturbances are the only exceptions.
LedgerTruthful ==
  \A c \in Cloids : ledger[c] \in TerminalStates =>
    \/ ledger[c] = venue[c]
    \/ ledger[c] = "rejected" /\ venue[c] = Absent
    \/ hit[c] \cap {"answer", "partial"} # {}

\* An open order works at the venue, or a thread or the event stream is about
\* to say what became of it, unless one of the five disturbances took the
\* messenger away: then its slot of the limits stays taken, as nothing in the
\* platform ever asks the venue.
FateComing ==
  \A c \in Cloids : ledger[c] \in OpenStates =>
    \/ venue[c] = "resting"
    \/ InHand(c)
    \/ c \in news
    \/ hit[c] \cap {"garbled", "confirm", "venue", "unheard", "restart"} # {}

\* A plugin that was told its order rests can cancel it for as long as it does,
\* through failed cancels and lost answers, unless the process was restarted.
Cancellable ==
  \A c \in Cloids : ledger[c] = "resting" /\ venue[c] = "resting" =>
    c \in coins \/ "restart" \in hit[c]
=============================================================================
