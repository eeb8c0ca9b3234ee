---------------------------- MODULE PluginRunner ----------------------------
(***************************************************************************)
(* One plugin's bounded inbound queue (core.py, PluginRunner): the threads *)
(* that deliver events into it, the plugin's own thread that drains it and *)
(* calls one hook at a time, and the main thread that stops it.            *)
(*                                                                         *)
(* queue.Queue makes each put_nowait and get atomic, but _enqueue is up to *)
(* three of them when the queue is full, and other threads get in between. *)
(* A hook that raises is caught by _safe and goes on as if it returned.    *)
(***************************************************************************)
EXTENDS Integers, FiniteSets, Sequences, SequencesExt

CONSTANTS
  Feeds,      \* the threads that deliver events: in mock mode the market data
              \* websocket alone, in live mode also that of the user's fills
  QueueMax,   \* _QUEUE_MAX
  MaxEvents   \* bound: events each feed delivers

Main == "main"
NoEvent == [src |-> Main, n |-> 0]
Stop == [src |-> Main, n |-> 1]     \* the sentinel _STOP

ASSUME RunnerAssumption ==
  /\ QueueMax \in Nat \ {0} /\ MaxEvents \in Nat
  /\ Main \notin Feeds

VARIABLES
  queue,     \* the events waiting, oldest first
  stopping,  \* the Event _stop
  runner,    \* where the plugin's thread is, and the event in its hands
  enqueuer,  \* thread -> where it is in _enqueue, and with what event
  dropped,   \* the counter shown on the status page
  sent,      \* history: feed -> how many events it has delivered
  handled    \* history: the events whose hook was called, in order

vars == <<queue, stopping, runner, enqueuer, dropped, sent, handled>>

Threads == Feeds \cup {Main}
EnqueuerIdle == [pc |-> "idle", event |-> NoEvent]
RunnerAt(pc) == [pc |-> pc, event |-> NoEvent]

Init ==
  /\ queue = <<>>
  /\ stopping = FALSE
  /\ runner = RunnerAt("on_start")
  /\ enqueuer = [t \in Threads |-> EnqueuerIdle]
  /\ dropped = 0
  /\ sent = [f \in Feeds |-> 0]
  /\ handled = <<>>

-----------------------------------------------------------------------------
(* _enqueue                                                                *)

HasRoom == Len(queue) < QueueMax

\* Mutant of Enqueued: the event goes to the end that is served first.
EnqueuedFirst(e) == <<e>> \o queue

Enqueued(e) == Append(queue, e)

\* The first put_nowait.
Put(t, e) ==
  \/ /\ HasRoom
     /\ queue' = Enqueued(e)
     /\ enqueuer' = [enqueuer EXCEPT ![t] = EnqueuerIdle]
  \/ /\ ~HasRoom
     /\ enqueuer' = [enqueuer EXCEPT ![t] = [pc |-> "evict", event |-> e]]
     /\ UNCHANGED queue

\* A feed's thread delivers its next event.
Deliver(f) ==
  /\ enqueuer[f].pc = "idle" /\ sent[f] < MaxEvents
  /\ sent' = [sent EXCEPT ![f] = @ + 1]
  /\ Put(f, [src |-> f, n |-> sent'[f]])
  /\ UNCHANGED <<stopping, runner, dropped, handled>>

\* get_nowait: the oldest event goes, unless the plugin has emptied the queue.
Evict(t) ==
  /\ enqueuer[t].pc = "evict"
  /\ queue' = IF queue = <<>> THEN <<>> ELSE Tail(queue)
  /\ enqueuer' = [enqueuer EXCEPT ![t].pc = "retry"]
  /\ UNCHANGED <<stopping, runner, dropped, sent, handled>>

\* Mutant of Retry: only an event that finds no room is counted.
RetryCountingFull(t) ==
  /\ enqueuer[t].pc = "retry"
  /\ \/ HasRoom /\ queue' = Enqueued(enqueuer[t].event) /\ UNCHANGED dropped
     \/ ~HasRoom /\ UNCHANGED queue /\ dropped' = dropped + 1
  /\ enqueuer' = [enqueuer EXCEPT ![t] = EnqueuerIdle]
  /\ UNCHANGED <<stopping, runner, sent, handled>>

\* The second put_nowait: if another thread took the room, this event is lost
\* too.  Nothing depends on the count before the next one, so it is one step
\* with the put.
Retry(t) ==
  /\ enqueuer[t].pc = "retry"
  /\ \/ HasRoom /\ queue' = Enqueued(enqueuer[t].event)
     \/ ~HasRoom /\ UNCHANGED queue
  /\ dropped' = dropped + 1
  /\ enqueuer' = [enqueuer EXCEPT ![t] = EnqueuerIdle]
  /\ UNCHANGED <<stopping, runner, sent, handled>>

\* PluginRunner.stop: the flag, then the sentinel.
SetStop ==
  /\ ~stopping
  /\ stopping' = TRUE
  /\ enqueuer' = [enqueuer EXCEPT ![Main] = [pc |-> "put", event |-> Stop]]
  /\ UNCHANGED <<queue, runner, dropped, sent, handled>>

PutStop ==
  /\ enqueuer[Main].pc = "put"
  /\ Put(Main, Stop)
  /\ UNCHANGED <<stopping, runner, dropped, sent, handled>>

-----------------------------------------------------------------------------
(* _run: the plugin's thread                                               *)

\* on_start returns (or raises).
Started ==
  /\ runner.pc = "on_start"
  /\ runner' = RunnerAt("loop")
  /\ UNCHANGED <<queue, stopping, enqueuer, dropped, sent, handled>>

\* Mutant of Loop: the loop relies on the sentinel alone.
LoopForever ==
  /\ runner.pc = "loop"
  /\ runner' = RunnerAt("get")
  /\ UNCHANGED <<queue, stopping, enqueuer, dropped, sent, handled>>

Loop ==
  /\ runner.pc = "loop"
  /\ runner' = RunnerAt(IF stopping THEN "on_stop" ELSE "get")
  /\ UNCHANGED <<queue, stopping, enqueuer, dropped, sent, handled>>

\* get returns an event; one that is not the sentinel goes to its hook.
Get ==
  /\ runner.pc = "get" /\ queue # <<>>
  /\ queue' = Tail(queue)
  /\ \/ /\ Head(queue) = Stop
        /\ runner' = RunnerAt("on_stop")
        /\ UNCHANGED handled
     \/ /\ Head(queue) # Stop
        /\ runner' = [pc |-> "hook", event |-> Head(queue)]
        /\ handled' = Append(handled, Head(queue))
  /\ UNCHANGED <<stopping, enqueuer, dropped, sent>>

\* Mutant of Timeout: an idle plugin is taken for a finished one.
TimeoutEnds ==
  /\ runner.pc = "get" /\ queue = <<>>
  /\ runner' = RunnerAt("on_stop")
  /\ UNCHANGED <<queue, stopping, enqueuer, dropped, sent, handled>>

\* get finds nothing for 0.2 s.
Timeout ==
  /\ runner.pc = "get" /\ queue = <<>>
  /\ runner' = RunnerAt("loop")
  /\ UNCHANGED <<queue, stopping, enqueuer, dropped, sent, handled>>

HookReturns ==
  /\ runner.pc \in {"hook", "on_stop"}
  /\ runner' = RunnerAt(IF runner.pc = "hook" THEN "loop" ELSE "dead")
  /\ UNCHANGED <<queue, stopping, enqueuer, dropped, sent, handled>>

-----------------------------------------------------------------------------
RunnerStep == Started \/ Loop \/ Get \/ Timeout \/ HookReturns

EnqueueStep(t) == Evict(t) \/ Retry(t)

Next ==
  \/ RunnerStep \/ SetStop \/ PutStop
  \/ \E t \in Threads : EnqueueStep(t)
  \/ \E f \in Feeds : Deliver(f)

\* The plugin's thread is scheduled and its hooks return: a hook that loops is
\* the plugin's own failure, and the platform only joins it with a timeout.
Spec == Init /\ [][Next]_vars /\ WF_vars(RunnerStep)

-----------------------------------------------------------------------------
Events == [src : Feeds, n : 1 .. MaxEvents] \cup {Stop}

Sent == {e \in Events : e # Stop /\ e.n <= sent[e.src]}

InHand == {enqueuer[t].event : t \in Threads}

\* The events that were delivered to the runner and are gone for good.
Missing == Sent \ (ToSet(queue) \cup ToSet(handled) \cup InHand)

\* The queue holds events, and no more of them than its bound.
TypeOK ==
  /\ queue \in Seq(Events) /\ Len(queue) <= QueueMax
  /\ stopping \in BOOLEAN /\ dropped \in Nat
  /\ runner \in [pc : {"on_start", "loop", "get", "hook", "on_stop", "dead"},
                 event : Events \cup {NoEvent}]
  /\ enqueuer \in [Threads -> [pc : {"idle", "put", "evict", "retry"},
                               event : Events \cup {NoEvent}]]
  /\ sent \in [Feeds -> 0 .. MaxEvents]
  /\ handled \in Seq(Events)

\* What the plugin sees of a feed is in the order in which the feed delivered
\* it, and nothing twice, whatever is evicted in between (core.py:107-135).
InOrder ==
  \A i, j \in DOMAIN handled :
    i < j /\ handled[i].src = handled[j].src => handled[i].n < handled[j].n

\* The counter on the status page owns up to losses: each full queue it counts
\* cost at most two events, the oldest one and the new one (core.py:107-119).
LossesCounted ==
  Cardinality(Missing)
    <= 2 * dropped + Cardinality({t \in Threads : enqueuer[t].pc = "retry"})

\* "Slow plugin: drop the oldest event, keep the freshest" (core.py:110), "the
\* oldest tick is dropped, not the newest" (DESIGN_DOCUMENT.md:59-60): no event of
\* a feed is lost while an older one of the same feed waits.  With two feeds it is
\* not so: the room one of them makes may be taken by the other (core.py:107-119).
FreshestKept ==
  \A lost \in Missing, kept \in ToSet(queue) :
    kept.src = lost.src => kept.n > lost.n

\* A plugin whose hooks return is stopped, even when the sentinel itself is
\* evicted by the events that come after it (core.py:96-98, 121-135).
Stops == stopping ~> runner.pc = "dead"

\* What is in the queue reaches the plugin unless it is dropped or the plugin is
\* stopped: an idle thread never misses the event that arrives as it times out
\* (core.py:121-135).
Served ==
  \A e \in Events \ {Stop} :
    e \in ToSet(queue) ~> e \in ToSet(handled) \cup Missing \/ stopping
=============================================================================
