------------------------- MODULE PluginRunnerProofs -------------------------
(***************************************************************************)
(* Proofs about PluginRunner, for any set of feeds, any bound of the queue *)
(* and any number of events: what a plugin sees of a feed is in order, the *)
(* event in a thread's hands is given up only to another thread's, so that *)
(* a single feed keeps the freshest, and the counter of drops accounts for *)
(* what is lost.                                                           *)
(*                                                                         *)
(* InOrder speaks of the events whose hook was called.  They come out of   *)
(* the queue, which is fed by threads that hold their event over up to     *)
(* three steps, so the invariant orders all three places: what was handled *)
(* comes before what waits, and that before what is in its feed's hands or *)
(* will be next.                                                           *)
(***************************************************************************)
EXTENDS PluginRunner, FiniteSetTheorems, TLAPS

\* The number of the event that feed f has in its hands, or delivers next.
Upcoming(f) == IF enqueuer[f].pc = "idle" THEN sent[f] + 1 ELSE sent[f]

\* What a thread has in its hands is what it delivered last, or the sentinel.
HandsFull ==
  \A t \in Threads :
    enqueuer[t].event =
      IF enqueuer[t].pc = "idle" THEN NoEvent
      ELSE IF t = Main THEN Stop ELSE [src |-> t, n |-> sent[t]]

\* The events of each feed in s are in the order of their numbers.
Sorted(s) ==
  \A i, j \in DOMAIN s :
    i < j /\ s[i].src \in Feeds /\ s[i].src = s[j].src => s[i].n < s[j].n

\* The events of each feed in s come before those in r.
Before(s, r) ==
  \A i \in DOMAIN s, j \in DOMAIN r :
    s[i].src \in Feeds /\ s[i].src = r[j].src => s[i].n < r[j].n

\* The events of each feed in s come before the one in its hands.
Behind(s) == \A i \in DOMAIN s : s[i].src \in Feeds => s[i].n < Upcoming(s[i].src)

\* The sentinel ends the loop and is handed to no hook.
HooksGetEvents == \A i \in DOMAIN handled : handled[i].src \in Feeds

\* A thread that made room finds it, or the last event in the queue is another's.
RoomOrRival ==
  \A f \in Feeds : enqueuer[f].pc = "retry" => HasRoom \/ Last(queue).src # f

OrderInv ==
  /\ TypeOK
  /\ HandsFull
  /\ Sorted(handled) /\ Sorted(queue) /\ Before(handled, queue)
  /\ Behind(handled) /\ Behind(queue)
  /\ HooksGetEvents
  /\ RoomOrRival

-----------------------------------------------------------------------------
(* Sequences and events                                                    *)

\* The events of the feeds, the sentinel and no event are different things.
LEMMA EventKinds ==
  /\ \A e \in Events : e.src \in Threads /\ e.n \in Nat
  /\ \A e \in Events : e.src \in Feeds <=> e # Stop
  /\ Stop \in Events /\ NoEvent \notin Events
BY RunnerAssumption DEF Events, Stop, NoEvent, Threads

\* What Append and Tail return, element by element.
LEMMA Appended ==
  ASSUME NEW s \in Seq(Events), NEW e \in Events
  PROVE  /\ Append(s, e) \in Seq(Events)
         /\ Len(Append(s, e)) = Len(s) + 1
         /\ DOMAIN Append(s, e) = 1 .. Len(s) + 1 /\ DOMAIN s = 1 .. Len(s)
         /\ \A i \in 1 .. Len(s) : Append(s, e)[i] = s[i]
         /\ Append(s, e)[Len(s) + 1] = e
         /\ Last(Append(s, e)) = e
BY DEF Last

LEMMA Tailed ==
  ASSUME NEW s \in Seq(Events), s # <<>>
  PROVE  /\ Tail(s) \in Seq(Events) /\ Len(s) \in Nat \ {0}
         /\ Len(Tail(s)) = Len(s) - 1
         /\ DOMAIN Tail(s) = 1 .. Len(s) - 1 /\ DOMAIN s = 1 .. Len(s)
         /\ \A i \in 1 .. Len(s) - 1 : Tail(s)[i] = s[i + 1]
         /\ Head(s) = s[1] /\ Head(s) \in Events
OBVIOUS

LEMMA AppendedSet ==
  ASSUME NEW s \in Seq(Events), NEW e \in Events
  PROVE  ToSet(Append(s, e)) = ToSet(s) \cup {e}
<1>1. \A x : x \in ToSet(Append(s, e)) <=> \E i \in 1 .. Len(s) + 1 : x = Append(s, e)[i]
  BY Appended DEF ToSet
<1>2. \A x : x \in ToSet(s) <=> \E i \in 1 .. Len(s) : x = s[i]
  BY DEF ToSet
<1>3. Len(s) \in Nat
  OBVIOUS
<1>4. \A i \in 1 .. Len(s) + 1 : i \in 1 .. Len(s) \/ i = Len(s) + 1
  BY <1>3
<1>5. 1 .. Len(s) \subseteq 1 .. Len(s) + 1 /\ Len(s) + 1 \in 1 .. Len(s) + 1
  BY <1>3
<1> QED BY <1>1, <1>2, <1>4, <1>5, Appended

LEMMA TailedSet ==
  ASSUME NEW s \in Seq(Events), s # <<>>
  PROVE  ToSet(s) = ToSet(Tail(s)) \cup {Head(s)}
<1>1. \A x : x \in ToSet(s) <=> \E i \in 1 .. Len(s) : x = s[i]
  BY DEF ToSet
<1>2. \A x : x \in ToSet(Tail(s)) <=> \E i \in 1 .. Len(s) - 1 : x = Tail(s)[i]
  BY Tailed DEF ToSet
<1>3. /\ \A i \in 1 .. Len(s) : i = 1 \/ (i - 1 \in 1 .. Len(s) - 1 /\ (i - 1) + 1 = i)
      /\ \A i \in 1 .. Len(s) - 1 : i + 1 \in 1 .. Len(s)
      /\ 1 \in 1 .. Len(s)
  BY Tailed
<1>4. \A x : x \in ToSet(s) => x \in ToSet(Tail(s)) \/ x = Head(s)
  <2> SUFFICES ASSUME NEW i \in 1 .. Len(s) PROVE s[i] \in ToSet(Tail(s)) \/ s[i] = Head(s)
    BY <1>1
  <2>1. CASE i = 1
    BY <2>1, Tailed
  <2>2. CASE i - 1 \in 1 .. Len(s) - 1 /\ (i - 1) + 1 = i
    <3>1. Tail(s)[i - 1] = s[i]
      BY <2>2, Tailed
    <3> QED BY <1>2, <2>2, <3>1
  <2> QED BY <1>3, <2>1, <2>2
<1>5. \A x : x \in ToSet(Tail(s)) \/ x = Head(s) => x \in ToSet(s)
  BY <1>1, <1>2, <1>3, Tailed
<1> QED BY <1>4, <1>5

\* An event that is behind no other of its feed keeps a sequence sorted.
LEMMA SortedAppend ==
  ASSUME NEW s \in Seq(Events), NEW e \in Events, Sorted(s),
         \A i \in DOMAIN s : s[i].src \in Feeds /\ s[i].src = e.src => s[i].n < e.n
  PROVE  Sorted(Append(s, e))
<1> SUFFICES ASSUME NEW i \in DOMAIN Append(s, e), NEW j \in DOMAIN Append(s, e), i < j,
                    Append(s, e)[i].src \in Feeds,
                    Append(s, e)[i].src = Append(s, e)[j].src
             PROVE  Append(s, e)[i].n < Append(s, e)[j].n
  BY DEF Sorted
<1>1. Len(s) \in Nat /\ i \in 1 .. Len(s) /\ Append(s, e)[i] = s[i] /\ i \in DOMAIN s
  BY Appended
<1>2. CASE j = Len(s) + 1
  BY <1>1, <1>2, Appended
<1>3. CASE j # Len(s) + 1
  <2>1. j \in DOMAIN s /\ Append(s, e)[j] = s[j]
    BY <1>1, <1>3, Appended
  <2> QED BY <1>1, <2>1 DEF Sorted
<1> QED BY <1>2, <1>3

LEMMA SortedTail ==
  ASSUME NEW s \in Seq(Events), s # <<>>, Sorted(s)
  PROVE  Sorted(Tail(s))
<1> SUFFICES ASSUME NEW i \in DOMAIN Tail(s), NEW j \in DOMAIN Tail(s), i < j,
                    Tail(s)[i].src \in Feeds, Tail(s)[i].src = Tail(s)[j].src
             PROVE  Tail(s)[i].n < Tail(s)[j].n
  BY DEF Sorted
<1>1. /\ i + 1 \in DOMAIN s /\ j + 1 \in DOMAIN s /\ i + 1 < j + 1
      /\ Tail(s)[i] = s[i + 1] /\ Tail(s)[j] = s[j + 1]
  BY Tailed
<1> QED BY <1>1 DEF Sorted

\* No element of a tail is new, and those of a sorted sequence come after its head.
LEMMA TailElements ==
  ASSUME NEW s \in Seq(Events), s # <<>>
  PROVE  \A i \in DOMAIN Tail(s) : i + 1 \in DOMAIN s /\ Tail(s)[i] = s[i + 1]
BY Tailed

-----------------------------------------------------------------------------
LEMMA OrderInit == Init => OrderInv
<1> SUFFICES ASSUME Init PROVE OrderInv
  OBVIOUS
<1>1. TypeOK
  <2>1. enqueuer \in [Threads -> [pc : {"idle", "put", "evict", "retry"},
                                 event : Events \cup {NoEvent}]]
    BY DEF Init, EnqueuerIdle
  <2>2. /\ runner \in [pc : {"on_start", "loop", "get", "hook", "on_stop", "dead"},
                       event : Events \cup {NoEvent}]
        /\ sent \in [Feeds -> 0 .. MaxEvents]
    BY RunnerAssumption DEF Init, RunnerAt
  <2>3. queue \in Seq(Events) /\ Len(queue) <= QueueMax /\ handled \in Seq(Events)
    BY RunnerAssumption DEF Init
  <2> QED BY <2>1, <2>2, <2>3 DEF Init, TypeOK
<1>2. HandsFull
  BY DEF Init, HandsFull, EnqueuerIdle
<1>3. RoomOrRival
  BY DEF Init, RoomOrRival, EnqueuerIdle, Threads
<1> QED
  BY <1>1, <1>2, <1>3
  DEF Init, OrderInv, Sorted, Before, Behind, HooksGetEvents

-----------------------------------------------------------------------------
(* The type invariant                                                      *)

\* A put leaves a queue within its bound, and its thread's hands as they can be.
LEMMA PutTyped ==
  ASSUME TypeOK, NEW t \in Threads, NEW e \in Events, Put(t, e)
  PROVE  /\ queue' \in Seq(Events) /\ Len(queue') <= QueueMax
         /\ enqueuer' \in [Threads -> [pc : {"idle", "put", "evict", "retry"},
                                       event : Events \cup {NoEvent}]]
<1>1. CASE HasRoom
  <2>1. queue' = Append(queue, e) /\ enqueuer' = [enqueuer EXCEPT ![t] = EnqueuerIdle]
    BY <1>1 DEF Put, Enqueued
  <2>2. Len(queue') <= QueueMax /\ queue' \in Seq(Events)
    BY <1>1, <2>1, RunnerAssumption DEF TypeOK, HasRoom
  <2> QED BY <2>1, <2>2 DEF TypeOK, EnqueuerIdle
<1>2. CASE ~HasRoom
  BY <1>2 DEF Put, TypeOK
<1> QED BY <1>1, <1>2

\* The event in a thread's hands is its own; without it TypeOK is not inductive,
\* for Retry puts what it finds there into the queue.
LEMMA InHands ==
  ASSUME TypeOK, HandsFull, NEW t \in Threads, enqueuer[t].pc # "idle"
  PROVE  enqueuer[t].event \in Events /\ enqueuer[t].event.src = t
<1>1. enqueuer[t].event \in Events \cup {NoEvent}
  BY DEF TypeOK
<1>2. enqueuer[t].event = IF t = Main THEN Stop ELSE [src |-> t, n |-> sent[t]]
  BY DEF HandsFull
<1> QED BY <1>1, <1>2, EventKinds DEF Threads, NoEvent, Stop

\* The event that a feed delivers is one, and the next of its numbers.
LEMMA DeliveredEvent ==
  ASSUME TypeOK, NEW g \in Feeds, Deliver(g)
  PROVE  \E e \in Events : e = [src |-> g, n |-> sent'[g]] /\ e.src = g /\ e.n = sent[g] + 1
<1>1. sent'[g] = sent[g] + 1 /\ sent'[g] \in 1 .. MaxEvents
  BY RunnerAssumption DEF Deliver, TypeOK
<1>2. [src |-> g, n |-> sent'[g]] \in Events
  BY <1>1 DEF Events
<1> QED BY <1>1, <1>2

LEMMA TypeStep == TypeOK /\ HandsFull /\ [Next]_vars => TypeOK'
<1> SUFFICES ASSUME TypeOK, HandsFull, [Next]_vars PROVE TypeOK'
  OBVIOUS
<1>1. CASE RunnerStep
  <2>1. CASE Started
    BY <2>1 DEF Started, TypeOK, RunnerAt
  <2>2. CASE Loop
    BY <2>2 DEF Loop, TypeOK, RunnerAt
  <2>3. CASE Get
    <3>1. /\ Head(queue) \in Events /\ Tail(queue) \in Seq(Events)
          /\ Len(Tail(queue)) <= QueueMax
      BY <2>3, Tailed, RunnerAssumption DEF Get, TypeOK
    <3>2. Append(handled, Head(queue)) \in Seq(Events)
      BY <3>1, Appended DEF TypeOK
    <3>3. /\ runner' \in [pc : {"on_start", "loop", "get", "hook", "on_stop", "dead"},
                           event : Events \cup {NoEvent}]
          /\ handled' \in Seq(Events)
      <4>1. CASE Head(queue) = Stop
        BY <2>3, <4>1 DEF Get, TypeOK, RunnerAt
      <4>2. CASE Head(queue) # Stop
        <5>1. /\ handled' = Append(handled, Head(queue))
              /\ runner' = [pc |-> "hook", event |-> Head(queue)]
          BY <2>3, <4>2 DEF Get
        <5>2. handled' \in Seq(Events)
          BY <5>1, <3>2
        <5>3. runner'.event \in Events \cup {NoEvent}
          BY <5>1, <3>1
        <5> QED BY <5>1, <5>2, <3>1
      <4> QED BY <4>1, <4>2
    <3> QED BY <2>3, <3>1, <3>3 DEF Get, TypeOK
  <2>4. CASE Timeout
    BY <2>4 DEF Timeout, TypeOK, RunnerAt
  <2>5. CASE HookReturns
    BY <2>5 DEF HookReturns, TypeOK, RunnerAt
  <2> QED BY <1>1, <2>1, <2>2, <2>3, <2>4, <2>5 DEF RunnerStep
<1>2. CASE SetStop
  BY <1>2, EventKinds DEF SetStop, TypeOK, Threads
<1>3. CASE PutStop
  <2>1. Main \in Threads /\ Stop \in Events /\ Put(Main, Stop)
    BY <1>3, EventKinds DEF PutStop, Threads
  <2> QED BY <1>3, <2>1, PutTyped DEF PutStop, TypeOK
<1>4. ASSUME NEW t \in Threads, Evict(t) PROVE TypeOK'
  <2>1. queue' \in Seq(Events) /\ Len(queue') <= QueueMax
    BY <1>4, Tailed, RunnerAssumption DEF Evict, TypeOK
  <2> QED BY <1>4, <2>1 DEF Evict, TypeOK
<1>5. ASSUME NEW t \in Threads, Retry(t) PROVE TypeOK'
  <2>1. enqueuer[t].event \in Events
    BY <1>5, InHands DEF Retry
  <2>2. queue' \in Seq(Events) /\ Len(queue') <= QueueMax
    <3>1. CASE HasRoom /\ queue' = Append(queue, enqueuer[t].event)
      BY <2>1, <3>1, RunnerAssumption DEF TypeOK, HasRoom
    <3>2. CASE queue' = queue
      BY <3>2 DEF TypeOK
    <3> QED BY <1>5, <3>1, <3>2 DEF Retry, Enqueued
  <2> QED BY <1>5, <2>2 DEF Retry, TypeOK, EnqueuerIdle
<1>6. ASSUME NEW f \in Feeds, Deliver(f) PROVE TypeOK'
  <2>1. sent' \in [Feeds -> 0 .. MaxEvents] /\ [src |-> f, n |-> sent'[f]] \in Events
    BY <1>6, RunnerAssumption DEF Deliver, TypeOK, Events
  <2>2. Put(f, [src |-> f, n |-> sent'[f]]) /\ f \in Threads
    BY <1>6 DEF Deliver, Threads
  <2> QED BY <1>6, <2>1, <2>2, PutTyped DEF Deliver, TypeOK
<1>7. CASE UNCHANGED vars
  BY <1>7 DEF vars, TypeOK
<1> QED BY <1>1, <1>2, <1>3, <1>4, <1>5, <1>6, <1>7 DEF Next, EnqueueStep

LEMMA HandsStep == TypeOK /\ HandsFull /\ [Next]_vars => HandsFull'
<1> SUFFICES ASSUME TypeOK, HandsFull, [Next]_vars, NEW u \in Threads
             PROVE  enqueuer'[u].event =
                      IF enqueuer'[u].pc = "idle" THEN NoEvent
                      ELSE IF u = Main THEN Stop ELSE [src |-> u, n |-> sent'[u]]
  BY DEF HandsFull
<1> DEFINE Hands == enqueuer'[u].event =
                      IF enqueuer'[u].pc = "idle" THEN NoEvent
                      ELSE IF u = Main THEN Stop ELSE [src |-> u, n |-> sent'[u]]
<1>1. CASE UNCHANGED <<enqueuer, sent>>
  BY <1>1 DEF HandsFull
<1>2. CASE SetStop
  BY <1>2 DEF SetStop, HandsFull, TypeOK
<1>3. CASE PutStop
  <2>1. Main \in Threads /\ sent' = sent
    BY <1>3 DEF PutStop, Threads
  <2>2. \/ enqueuer' = [enqueuer EXCEPT ![Main] = EnqueuerIdle]
        \/ enqueuer' = [enqueuer EXCEPT ![Main] = [pc |-> "evict", event |-> Stop]]
    BY <1>3 DEF PutStop, Put
  <2> QED BY <2>1, <2>2 DEF EnqueuerIdle, HandsFull, TypeOK
<1>4. ASSUME NEW t \in Threads, Evict(t) PROVE Hands
  BY <1>4 DEF Evict, HandsFull, TypeOK
<1>5. ASSUME NEW t \in Threads, Retry(t) PROVE Hands
  BY <1>5 DEF Retry, EnqueuerIdle, HandsFull, TypeOK
<1>6. ASSUME NEW f \in Feeds, Deliver(f) PROVE Hands
  <2>1. f \in Threads /\ f # Main
    BY RunnerAssumption DEF Threads
  <2>2. /\ sent' = [sent EXCEPT ![f] = sent[f] + 1]
        /\ \/ enqueuer' = [enqueuer EXCEPT ![f] = EnqueuerIdle]
           \/ enqueuer' = [enqueuer EXCEPT
                             ![f] = [pc |-> "evict", event |-> [src |-> f, n |-> sent'[f]]]]
    BY <1>6 DEF Deliver, Put
  <2>3. CASE u = f
    BY <2>1, <2>2, <2>3 DEF EnqueuerIdle, TypeOK
  <2>4. CASE u # f
    <3>1. enqueuer'[u] = enqueuer[u]
      BY <2>2, <2>4 DEF TypeOK
    <3>2. u # Main => sent'[u] = sent[u]
      BY <2>2, <2>4 DEF TypeOK, Threads
    <3> QED BY <3>1, <3>2 DEF HandsFull
  <2> QED BY <2>3, <2>4
<1>7. CASE RunnerStep
  BY <1>1, <1>7 DEF RunnerStep, Started, Loop, Get, Timeout, HookReturns
<1> QED
  BY <1>1, <1>2, <1>3, <1>4, <1>5, <1>6, <1>7 DEF Next, EnqueueStep, vars

\* The queue never exceeds its bound and holds nothing but events, and a put is
\* never of nothing (core.py:107-119).
THEOREM TypeInvariance == Spec => []TypeOK
<1>1. Init => TypeOK /\ HandsFull
  BY OrderInit DEF OrderInv
<1>2. TypeOK /\ HandsFull /\ [Next]_vars => (TypeOK /\ HandsFull)'
  BY TypeStep, HandsStep
<1> QED BY <1>1, <1>2, PTL DEF Spec

-----------------------------------------------------------------------------
(* The order of events                                                     *)

\* A step that takes nothing but the head of the queue keeps the order, if no
\* feed goes back in its numbers.
LEMMA NothingAdded ==
  ASSUME OrderInv, TypeOK', handled' = handled,
         queue' = queue \/ (queue # <<>> /\ queue' = Tail(queue)),
         \A f \in Feeds : Upcoming(f)' >= Upcoming(f)
  PROVE  /\ Sorted(queue)' /\ Before(handled, queue)'
         /\ Sorted(handled)' /\ Behind(handled)' /\ Behind(queue)' /\ HooksGetEvents'
<1>1. /\ queue \in Seq(Events) /\ handled \in Seq(Events)
      /\ \A f \in Feeds : Upcoming(f) \in Nat /\ Upcoming(f)' \in Nat
  BY DEF OrderInv, TypeOK, Upcoming
<1>2. \A i \in DOMAIN queue' : \E k \in DOMAIN queue : queue'[i] = queue[k]
  BY <1>1, TailElements
<1>3. /\ \A i \in DOMAIN queue : queue[i] \in Events
      /\ \A i \in DOMAIN handled : handled[i] \in Events
  BY <1>1
<1>4. Sorted(queue)'
  BY <1>1, SortedTail DEF OrderInv, Sorted
<1>5. Before(handled, queue)'
  BY <1>2 DEF OrderInv, Before
<1>6. Behind(handled)' /\ Behind(queue)'
  BY <1>1, <1>2, <1>3, EventKinds DEF OrderInv, Behind
<1>7. Sorted(handled)' /\ HooksGetEvents'
  BY DEF OrderInv, Sorted, HooksGetEvents
<1> QED BY <1>4, <1>5, <1>6, <1>7

\* So does a put of the event that is its feed's next.
LEMMA NextAdded ==
  ASSUME OrderInv, TypeOK', handled' = handled,
         NEW e \in Events, queue' = Append(queue, e),
         \A f \in Feeds : Upcoming(f)' >= Upcoming(f),
         e.src \in Feeds => e.n = Upcoming(e.src) /\ Upcoming(e.src)' > e.n
  PROVE  /\ Sorted(queue)' /\ Before(handled, queue)'
         /\ Sorted(handled)' /\ Behind(handled)' /\ Behind(queue)' /\ HooksGetEvents'
<1>1. /\ queue \in Seq(Events) /\ handled \in Seq(Events)
      /\ \A f \in Feeds : Upcoming(f) \in Nat /\ Upcoming(f)' \in Nat
  BY DEF OrderInv, TypeOK, Upcoming
<1>2. /\ \A i \in DOMAIN queue : queue[i] \in Events
      /\ \A i \in DOMAIN handled : handled[i] \in Events
  BY <1>1
<1>3. \A i \in DOMAIN queue' : (i \in DOMAIN queue /\ queue'[i] = queue[i]) \/ queue'[i] = e
  BY <1>1, Appended
<1>4. Sorted(queue)'
  <2>1. \A i \in DOMAIN queue : queue[i].src \in Feeds /\ queue[i].src = e.src => queue[i].n < e.n
    BY DEF OrderInv, Behind
  <2>2. Sorted(Append(queue, e))
    BY <1>1, <2>1, SortedAppend DEF OrderInv
  <2> QED BY <2>2 DEF Sorted
<1>5. Before(handled, queue)'
  BY <1>3 DEF OrderInv, Before, Behind
<1>6. Behind(handled)' /\ Behind(queue)'
  BY <1>1, <1>2, <1>3, EventKinds DEF OrderInv, Behind
<1>7. Sorted(handled)' /\ HooksGetEvents'
  BY DEF OrderInv, Sorted, HooksGetEvents
<1> QED BY <1>4, <1>5, <1>6, <1>7

\* And Get, which moves the head of the queue to the end of what was handled.
LEMMA HeadHandled ==
  ASSUME OrderInv, TypeOK', Get
  PROVE  /\ Sorted(queue)' /\ Before(handled, queue)'
         /\ Sorted(handled)' /\ Behind(handled)' /\ Behind(queue)' /\ HooksGetEvents'
<1>1. /\ queue \in Seq(Events) /\ handled \in Seq(Events)
      /\ queue # <<>> /\ queue' = Tail(queue) /\ Head(queue) = queue[1] /\ 1 \in DOMAIN queue
      /\ \A f \in Feeds : Upcoming(f) \in Nat /\ Upcoming(f)' = Upcoming(f)
  BY Tailed DEF OrderInv, TypeOK, Upcoming, Get
<1>2. CASE handled' = handled
  BY <1>1, <1>2, NothingAdded
<1>3. CASE handled' # handled
  <2>1. /\ Head(queue) # Stop /\ Head(queue) \in Events
        /\ handled' = Append(handled, Head(queue))
    BY <1>1, <1>3, Tailed DEF Get
  <2>2. Head(queue).src \in Feeds
    BY <2>1, EventKinds
  <2>3. /\ \A i \in DOMAIN handled' :
             (i \in DOMAIN handled /\ handled'[i] = handled[i]) \/ handled'[i] = Head(queue)
        /\ \A i \in DOMAIN queue' : i + 1 \in DOMAIN queue /\ 1 < i + 1 /\ queue'[i] = queue[i + 1]
    BY <1>1, <2>1, Appended, Tailed
  <2>4. Sorted(handled)'
    <3>1. \A i \in DOMAIN handled :
            handled[i].src \in Feeds /\ handled[i].src = Head(queue).src
              => handled[i].n < Head(queue).n
      BY <1>1 DEF OrderInv, Before
    <3>2. Sorted(Append(handled, Head(queue)))
      BY <1>1, <2>1, <3>1, SortedAppend DEF OrderInv
    <3> QED BY <2>1, <3>2 DEF Sorted
  <2>5. Sorted(queue)'
    BY <1>1, SortedTail DEF OrderInv, Sorted
  <2>6. Before(handled, queue)'
    <3> SUFFICES ASSUME NEW i \in DOMAIN handled', NEW j \in DOMAIN queue',
                        handled'[i].src \in Feeds, handled'[i].src = queue'[j].src
                 PROVE  handled'[i].n < queue'[j].n
      BY DEF Before
    <3>1. j + 1 \in DOMAIN queue /\ 1 < j + 1 /\ queue'[j] = queue[j + 1]
      BY <2>3
    <3>2. CASE i \in DOMAIN handled /\ handled'[i] = handled[i]
      BY <3>1, <3>2 DEF OrderInv, Before
    <3>3. CASE handled'[i] = Head(queue)
      BY <1>1, <3>1, <3>3 DEF OrderInv, Sorted
    <3> QED BY <2>3, <3>2, <3>3
  <2>7. Behind(handled)' /\ Behind(queue)'
    BY <1>1, <2>3 DEF OrderInv, Behind
  <2>8. HooksGetEvents'
    BY <2>2, <2>3 DEF OrderInv, HooksGetEvents
  <2> QED BY <2>4, <2>5, <2>6, <2>7, <2>8
<1> QED BY <1>2, <1>3

Ordered ==
  /\ Sorted(queue) /\ Before(handled, queue)
  /\ Sorted(handled) /\ Behind(handled) /\ Behind(queue) /\ HooksGetEvents

LEMMA OrderedStep == OrderInv /\ TypeOK' /\ [Next]_vars => Ordered'
<1> SUFFICES ASSUME OrderInv, TypeOK', [Next]_vars PROVE Ordered'
  OBVIOUS
<1> USE DEF Ordered
<1>0. /\ TypeOK /\ HandsFull
      /\ \A f \in Feeds : f \in Threads /\ f # Main /\ sent[f] \in Nat
  BY RunnerAssumption DEF OrderInv, TypeOK, Threads
<1>1. CASE UNCHANGED <<queue, enqueuer, sent, handled>>
  <2>1. \A f \in Feeds : Upcoming(f)' >= Upcoming(f)
    BY <1>0, <1>1 DEF Upcoming
  <2> QED BY <1>1, <2>1, NothingAdded
<1>2. CASE SetStop
  <2>1. \A f \in Feeds : Upcoming(f)' >= Upcoming(f)
    BY <1>0, <1>2 DEF Upcoming, SetStop, TypeOK
  <2>2. queue' = queue /\ handled' = handled
    BY <1>2 DEF SetStop
  <2> QED BY <2>1, <2>2, NothingAdded
<1>3. CASE PutStop
  <2>1. \A f \in Feeds : Upcoming(f)' >= Upcoming(f)
    BY <1>0, <1>3 DEF Upcoming, PutStop, Put, TypeOK
  <2>2. handled' = handled /\ (queue' = queue \/ queue' = Append(queue, Stop))
    BY <1>3 DEF PutStop, Put, Enqueued
  <2>3. Stop \in Events /\ Stop.src \notin Feeds
    BY EventKinds
  <2> QED BY <2>1, <2>2, <2>3, NothingAdded, NextAdded
<1>4. ASSUME NEW t \in Threads, Evict(t) PROVE Ordered'
  <2>1. \A f \in Feeds : Upcoming(f)' >= Upcoming(f)
    <3>1. \A f \in Feeds : enqueuer'[f].pc = "idle" <=> enqueuer[f].pc = "idle"
      BY <1>0, <1>4 DEF Evict, TypeOK
    <3> QED BY <1>0, <1>4, <3>1 DEF Upcoming, Evict
  <2>2. handled' = handled /\ (queue' = queue \/ (queue # <<>> /\ queue' = Tail(queue)))
    BY <1>4 DEF Evict
  <2> QED BY <2>1, <2>2, NothingAdded
<1>5. ASSUME NEW t \in Threads, Retry(t) PROVE Ordered'
  <2>1. PICK e \in Events : e = enqueuer[t].event /\ e.src = t /\ (t \in Feeds => e.n = sent[t])
    BY <1>0, <1>5, InHands DEF Retry, HandsFull
  <2>2. /\ enqueuer[t].pc = "retry" /\ sent' = sent /\ handled' = handled
        /\ enqueuer' = [enqueuer EXCEPT ![t] = EnqueuerIdle]
        /\ queue' = queue \/ queue' = Append(queue, e)
    BY <1>5, <2>1 DEF Retry, Enqueued
  <2>3. \A f \in Feeds \ {t} : Upcoming(f)' = Upcoming(f)
    BY <1>0, <2>2 DEF Upcoming, TypeOK
  <2>4. t \in Feeds => Upcoming(t) = sent[t] /\ Upcoming(t)' = sent[t] + 1
    BY <1>0, <2>2 DEF Upcoming, EnqueuerIdle, TypeOK
  <2>5. \A f \in Feeds : Upcoming(f)' >= Upcoming(f)
    BY <1>0, <2>3, <2>4 DEF Upcoming
  <2>6. CASE queue' = queue
    BY <2>2, <2>5, <2>6, NothingAdded
  <2>7. CASE queue' = Append(queue, e)
    <3>1. e.src \in Feeds => e.n = Upcoming(e.src) /\ Upcoming(e.src)' > e.n
      BY <1>0, <2>1, <2>4
    <3> QED BY <2>2, <2>5, <2>7, <3>1, NextAdded
  <2> QED BY <2>2, <2>6, <2>7
<1>6. ASSUME NEW g \in Feeds, Deliver(g) PROVE Ordered'
  <2>1. PICK e \in Events : e = [src |-> g, n |-> sent'[g]] /\ e.src = g /\ e.n = sent[g] + 1
    BY <1>0, <1>6, DeliveredEvent
  <2>2. /\ enqueuer[g].pc = "idle" /\ handled' = handled
        /\ sent' = [sent EXCEPT ![g] = sent[g] + 1]
        /\ \/ /\ queue' = Append(queue, e)
              /\ enqueuer' = [enqueuer EXCEPT ![g] = EnqueuerIdle]
           \/ /\ queue' = queue
              /\ enqueuer' = [enqueuer EXCEPT ![g] = [pc |-> "evict", event |-> e]]
    BY <1>6, <2>1 DEF Deliver, Put, Enqueued
  <2>3. \A f \in Feeds \ {g} : Upcoming(f)' = Upcoming(f)
    BY <1>0, <2>2 DEF Upcoming, TypeOK
  <2>4. /\ Upcoming(g)' >= Upcoming(g) /\ Upcoming(g) = e.n
        /\ queue' # queue => Upcoming(g)' > Upcoming(g)
    BY <1>0, <2>1, <2>2 DEF Upcoming, TypeOK, EnqueuerIdle
  <2>5. \A f \in Feeds : Upcoming(f)' >= Upcoming(f)
    BY <1>0, <2>3, <2>4 DEF Upcoming
  <2>6. CASE queue' = queue
    BY <2>2, <2>5, <2>6, NothingAdded
  <2>7. CASE queue' # queue
    <3>1. e.src \in Feeds => e.n = Upcoming(e.src) /\ Upcoming(e.src)' > e.n
      BY <2>1, <2>4, <2>7
    <3>2. queue' = Append(queue, e)
      BY <2>2, <2>7
    <3> QED BY <2>2, <2>5, <3>1, <3>2, NextAdded
  <2> QED BY <2>6, <2>7
<1>7. CASE Get
  BY <1>7, HeadHandled
<1>8. CASE Started \/ Loop \/ Timeout \/ HookReturns
  BY <1>1, <1>8 DEF Started, Loop, Timeout, HookReturns
<1> QED
  BY <1>1, <1>2, <1>3, <1>4, <1>5, <1>6, <1>7, <1>8
  DEF Next, EnqueueStep, RunnerStep, vars

\* Room that a thread made is taken only by another's event.
LEMMA RoomStep == OrderInv /\ TypeOK' /\ [Next]_vars => RoomOrRival'
<1> SUFFICES ASSUME OrderInv, TypeOK', [Next]_vars, NEW f \in Feeds,
                    enqueuer'[f].pc = "retry"
             PROVE  Len(queue') < QueueMax \/ Last(queue').src # f
  BY DEF RoomOrRival, HasRoom
<1> DEFINE Free == Len(queue') < QueueMax \/ Last(queue').src # f
<1>0. /\ TypeOK /\ HandsFull /\ f \in Threads /\ f # Main
      /\ queue \in Seq(Events) /\ Len(queue) \in Nat /\ Len(queue) <= QueueMax
      /\ QueueMax \in Nat \ {0}
  BY RunnerAssumption DEF OrderInv, TypeOK, Threads
<1>1. ASSUME queue' = queue, enqueuer[f].pc = "retry" PROVE Free
  BY <1>1 DEF OrderInv, RoomOrRival, HasRoom
<1>2. ASSUME queue # <<>>, queue' = Tail(queue) PROVE Free
  BY <1>0, <1>2, Tailed
<1>3. ASSUME NEW e \in Events, queue' = Append(queue, e), e.src # f PROVE Free
  BY <1>0, <1>3, Appended
<1>4. CASE SetStop
  BY <1>0, <1>1, <1>4 DEF SetStop, TypeOK
<1>5. CASE PutStop
  <2>1. /\ enqueuer[f].pc = "retry"
        /\ queue' = queue \/ queue' = Append(queue, Stop)
    BY <1>0, <1>5 DEF PutStop, Put, Enqueued, TypeOK
  <2>2. Stop \in Events /\ Stop.src # f
    BY <1>0, EventKinds DEF Stop
  <2> QED BY <1>1, <1>3, <2>1, <2>2
<1>6. ASSUME NEW t \in Threads, Evict(t) PROVE Free
  <2>1. CASE queue = <<>>
    BY <1>0, <1>6, <2>1 DEF Evict
  <2>2. CASE queue # <<>>
    BY <1>2, <1>6, <2>2 DEF Evict
  <2> QED BY <2>1, <2>2
<1>7. ASSUME NEW t \in Threads, Retry(t) PROVE Free
  <2>1. t # f /\ enqueuer[f].pc = "retry"
    BY <1>0, <1>7 DEF Retry, EnqueuerIdle, TypeOK
  <2>2. enqueuer[t].event \in Events /\ enqueuer[t].event.src = t
    BY <1>0, <1>7, InHands DEF Retry
  <2>3. queue' = queue \/ queue' = Append(queue, enqueuer[t].event)
    BY <1>7 DEF Retry, Enqueued
  <2> QED BY <1>1, <1>3, <2>1, <2>2, <2>3
<1>8. ASSUME NEW g \in Feeds, Deliver(g) PROVE Free
  <2> DEFINE e == [src |-> g, n |-> sent'[g]]
  <2>1. /\ g # f /\ enqueuer[f].pc = "retry"
        /\ queue' = queue \/ queue' = Append(queue, e)
    BY <1>0, <1>8 DEF Deliver, Put, EnqueuerIdle, Enqueued, TypeOK
  <2>2. e \in Events /\ e.src = g
    BY <1>0, <1>8, RunnerAssumption DEF Deliver, Events, TypeOK
  <2> QED BY <1>1, <1>3, <2>1, <2>2
<1>9. CASE Get
  BY <1>2, <1>9 DEF Get
<1>10. CASE Started \/ Loop \/ Timeout \/ HookReturns \/ UNCHANGED vars
  <2>1. queue' = queue /\ enqueuer' = enqueuer
    BY <1>10 DEF Started, Loop, Timeout, HookReturns, vars
  <2> QED BY <1>1, <2>1
<1> QED
  BY <1>4, <1>5, <1>6, <1>7, <1>8, <1>9, <1>10
  DEF Next, EnqueueStep, RunnerStep

LEMMA OrderStep == OrderInv /\ [Next]_vars => OrderInv'
<1> SUFFICES ASSUME OrderInv, [Next]_vars PROVE OrderInv'
  OBVIOUS
<1>1. TypeOK' /\ HandsFull'
  BY TypeStep, HandsStep DEF OrderInv
<1>2. Ordered' /\ RoomOrRival'
  BY <1>1, OrderedStep, RoomStep
<1> QED BY <1>1, <1>2 DEF OrderInv, Ordered

LEMMA OrderInvariance == Spec => []OrderInv
BY OrderInit, OrderStep, PTL DEF Spec

\* A plugin sees the events of each feed in the order in which they came, and
\* none twice, whatever is evicted in between (core.py:107-135).
THEOREM EventsInOrder == Spec => []InOrder
<1>1. OrderInv => InOrder
  BY DEF OrderInv, Sorted, HooksGetEvents, InOrder
<1> QED BY <1>1, OrderInvariance, PTL

\* An event in a thread's hands is lost only to the last event in the queue, and
\* that is another thread's.
LostToARival ==
  [][\A e \in Missing' \cap InHand :
       /\ queue # <<>>
       /\ Last(queue).src # e.src]_vars

\* The event a feed has in its hands is lost only when its second put fails, and
\* then the queue is full and its last event is another thread's: what is left of
\* "keep the freshest" with any number of feeds (core.py:107-119).
THEOREM OnlyARivalTakesTheRoom == Spec => LostToARival
<1>1. OrderInv /\ OrderInv' /\ [Next]_vars =>
        [\A e \in Missing' \cap InHand :
           /\ queue # <<>>
           /\ Last(queue).src # e.src]_vars
  <2> SUFFICES ASSUME OrderInv, OrderInv', Next, NEW e \in Missing' \cap InHand
               PROVE  queue # <<>> /\ Last(queue).src # e.src
    OBVIOUS
  <2>1. PICK f \in Threads : e = enqueuer[f].event
    BY DEF InHand
  <2>2. e \in Events /\ e # Stop /\ e # NoEvent
    BY EventKinds DEF Missing, Sent
  <2>3. /\ TypeOK /\ HandsFull /\ TypeOK'
        /\ enqueuer[f].pc # "idle" /\ f \in Feeds /\ f # Main /\ e.src = f
    BY <2>1, <2>2, RunnerAssumption, InHands DEF OrderInv, HandsFull, Threads
  <2>4. enqueuer'[f].event # e
    BY DEF Missing, InHand
  <2>5. Retry(f)
    <3>1. ASSUME enqueuer'[f].event = enqueuer[f].event PROVE FALSE
      BY <2>1, <2>4, <3>1
    <3>2. ASSUME NEW t \in Threads, t # f,
                 NEW x, enqueuer' = [enqueuer EXCEPT ![t] = x] PROVE FALSE
      BY <2>3, <3>1, <3>2 DEF TypeOK
    <3>3. ~SetStop /\ ~PutStop
      BY <2>3, <3>2 DEF SetStop, PutStop, Put, Threads
    <3>4. ASSUME NEW t \in Threads, Evict(t) PROVE FALSE
      BY <2>3, <3>1, <3>4 DEF Evict, TypeOK, Threads
    <3>5. ASSUME NEW t \in Threads, Retry(t), t # f PROVE FALSE
      BY <3>2, <3>5 DEF Retry
    <3>6. ASSUME NEW g \in Feeds, Deliver(g) PROVE FALSE
      BY <2>3, <3>2, <3>6 DEF Deliver, Put, Threads
    <3>7. ~RunnerStep
      BY <3>1 DEF RunnerStep, Started, Loop, Get, Timeout, HookReturns
    <3> QED BY <3>3, <3>4, <3>5, <3>6, <3>7 DEF Next, EnqueueStep
  <2>6. ~HasRoom
    <3> SUFFICES ASSUME HasRoom PROVE FALSE
      OBVIOUS
    <3>1. queue' = Append(queue, e)
      BY <2>1, <2>5 DEF Retry, Enqueued
    <3>2. e \in ToSet(queue')
      BY <2>2, <2>3, <3>1, AppendedSet DEF TypeOK
    <3> QED BY <3>2 DEF Missing
  <2>7. Last(queue).src # e.src
    BY <2>3, <2>5, <2>6 DEF OrderInv, RoomOrRival, Retry
  <2>8. queue # <<>>
    BY <2>6, RunnerAssumption DEF HasRoom
  <2> QED BY <2>7, <2>8
<1> QED BY <1>1, OrderInvariance, PTL DEF Spec, LostToARival

-----------------------------------------------------------------------------
(* The counter of drops                                                    *)

Retrying == {t \in Threads : enqueuer[t].pc = "retry"}

\* Where an event of a feed can be that is not missing.
Placed == ToSet(queue) \cup ToSet(handled) \cup InHand

\* What can be said of events before any is lost: Missing and Retrying grow by
\* one element at a time, hence they are finite whatever Feeds is.
LossInv ==
  /\ IsFiniteSet(Missing) /\ IsFiniteSet(Retrying)
  /\ Cardinality(Missing) <= 2 * dropped + Cardinality(Retrying)
  /\ stopping \/ enqueuer[Main].pc = "idle"

LEMMA LossInit == Init => LossInv
<1> SUFFICES ASSUME Init PROVE LossInv
  OBVIOUS
<1>1. Missing = {}
  <2>1. \A e \in Events : e.src \in Feeds => e.n # 0 /\ e.n \in Nat
    BY RunnerAssumption DEF Events, Stop
  <2>2. Sent = {}
    BY <2>1, EventKinds DEF Init, Sent
  <2> QED BY <2>2 DEF Missing
<1>2. Retrying = {}
  BY DEF Init, EnqueuerIdle, Retrying
<1>3. 0 <= 2 * 0 + 0
  OBVIOUS
<1>4. enqueuer[Main].pc = "idle"
  BY DEF Init, EnqueuerIdle, Threads
<1> QED BY <1>1, <1>2, <1>3, <1>4, FS_EmptySet DEF LossInv, Init

\* A step misses only what it takes from its place and puts in no other.
LEMMA MissingGrows ==
  ASSUME NEW X, Sent' \subseteq Sent \cup Placed',
         Placed \subseteq Placed' \cup X \cup {Stop, NoEvent}
  PROVE  Missing' \subseteq Missing \cup X
BY EventKinds DEF Missing, Sent, Placed

\* One event more or less in one thread's hands.
LEMMA HandsChange ==
  ASSUME TypeOK, NEW t \in Threads, NEW x, enqueuer' = [enqueuer EXCEPT ![t] = x]
  PROVE  InHand \subseteq InHand' \cup {enqueuer[t].event} /\ x.event \in InHand'
<1>1. \A u \in Threads : u # t => enqueuer'[u] = enqueuer[u]
  BY DEF TypeOK
<1>2. enqueuer'[t] = x
  BY DEF TypeOK
<1> QED BY <1>1, <1>2 DEF InHand

\* Nothing lost and nobody about to count.
LEMMA NoLoss ==
  ASSUME TypeOK, LossInv, Missing' \subseteq Missing, Retrying' = Retrying, dropped' = dropped,
         stopping' \/ enqueuer'[Main].pc = "idle"
  PROVE  LossInv'
<1>1. /\ IsFiniteSet(Missing') /\ Cardinality(Missing') <= Cardinality(Missing)
      /\ Cardinality(Missing) \in Nat /\ Cardinality(Missing') \in Nat
      /\ Cardinality(Retrying) \in Nat
  BY FS_Subset, FS_CardinalityType DEF LossInv
<1> QED BY <1>1 DEF LossInv, TypeOK

\* One event lost.
LEMMA OneLost ==
  ASSUME LossInv, NEW x, Missing' \subseteq Missing \cup {x}
  PROVE  /\ IsFiniteSet(Missing') /\ Cardinality(Missing') \in Nat
         /\ Cardinality(Missing) \in Nat /\ Cardinality(Missing') <= Cardinality(Missing) + 1
<1> DEFINE M == Missing
<1>0. IsFiniteSet(M) /\ Cardinality(M) \in Nat
  BY FS_CardinalityType DEF LossInv
<1>1. /\ IsFiniteSet(Missing \cup {x}) /\ Cardinality(Missing) \in Nat
      /\ Cardinality(Missing \cup {x}) <= Cardinality(Missing) + 1
  <2> HIDE DEF M
  <2>1. /\ IsFiniteSet(M \cup {x})
        /\ Cardinality(M \cup {x}) = IF x \in M THEN Cardinality(M) ELSE Cardinality(M) + 1
    BY <1>0, FS_AddElement
  <2>2. IsFiniteSet(M \cup {x}) /\ Cardinality(M \cup {x}) <= Cardinality(M) + 1
    BY <1>0, <2>1
  <2> QED BY <1>0, <2>2 DEF M
<1>2. /\ IsFiniteSet(Missing') /\ Cardinality(Missing') <= Cardinality(Missing \cup {x})
  BY <1>1, FS_Subset
<1>3. Cardinality(Missing') \in Nat /\ Cardinality(Missing \cup {x}) \in Nat
  BY <1>1, <1>2, FS_CardinalityType
<1> QED BY <1>1, <1>2, <1>3

LEMMA RetryingSame ==
  ASSUME TypeOK, NEW t \in Threads, NEW x, enqueuer' = [enqueuer EXCEPT ![t] = x],
         enqueuer[t].pc # "retry", x.pc # "retry"
  PROVE  Retrying' = Retrying
BY DEF Retrying, TypeOK

LEMMA LossStep == OrderInv /\ LossInv /\ [Next]_vars => LossInv'
<1> SUFFICES ASSUME OrderInv, LossInv, [Next]_vars PROVE LossInv'
  OBVIOUS
<1>0. /\ TypeOK /\ HandsFull /\ queue \in Seq(Events) /\ handled \in Seq(Events)
      /\ \A t \in Threads : enqueuer[t].pc = "idle" => enqueuer[t].event = NoEvent
      /\ enqueuer[Main].event \in {NoEvent, Stop}
      /\ Main \in Threads /\ Feeds \subseteq Threads
  BY DEF OrderInv, HandsFull, Threads, TypeOK
<1>a. UNCHANGED stopping /\ UNCHANGED enqueuer => stopping' \/ enqueuer'[Main].pc = "idle"
  BY DEF LossInv
<1>1. CASE SetStop
  <2> DEFINE x == [pc |-> "put", event |-> Stop]
  <2>1. /\ enqueuer' = [enqueuer EXCEPT ![Main] = x] /\ ~stopping
        /\ UNCHANGED <<queue, sent, handled, dropped>> /\ stopping' = TRUE
    BY <1>1 DEF SetStop
  <2>2. Retrying' = Retrying
    <3>1. x.pc # "retry" /\ enqueuer[Main].pc # "retry"
      BY <2>1 DEF LossInv
    <3> QED BY <1>0, <2>1, <3>1, RetryingSame
  <2>3. Placed \subseteq Placed' \cup {} \cup {Stop, NoEvent}
    BY <1>0, <2>1, HandsChange DEF Placed
  <2>4. Missing' \subseteq Missing \cup {}
    BY <2>1, <2>3, MissingGrows DEF Sent
  <2> QED BY <1>0, <2>1, <2>2, <2>4, NoLoss
<1>2. CASE PutStop
  <2>1. PICK x : /\ enqueuer' = [enqueuer EXCEPT ![Main] = x] /\ x.pc # "retry"
                 /\ queue' = queue \/ queue' = Append(queue, Stop)
                 /\ UNCHANGED <<sent, handled, dropped, stopping>>
    BY <1>2 DEF PutStop, Put, EnqueuerIdle, Enqueued
  <2>2. Retrying' = Retrying /\ stopping
    BY <1>0, <1>2, <2>1, RetryingSame DEF PutStop, LossInv
  <2>3. ToSet(queue) \subseteq ToSet(queue')
    BY <1>0, <2>1, AppendedSet, EventKinds
  <2>4. Placed \subseteq Placed' \cup {} \cup {Stop, NoEvent}
    BY <1>0, <2>1, <2>3, HandsChange DEF Placed
  <2>5. Missing' \subseteq Missing \cup {}
    BY <2>1, <2>4, MissingGrows DEF Sent
  <2> QED BY <1>0, <2>1, <2>2, <2>5, NoLoss
<1>3. ASSUME NEW t \in Threads, Evict(t) PROVE LossInv'
  <2>1. /\ enqueuer[t].pc = "evict" /\ UNCHANGED <<sent, handled, dropped, stopping>>
        /\ queue' = IF queue = <<>> THEN <<>> ELSE Tail(queue)
        /\ enqueuer' = [enqueuer EXCEPT ![t].pc = "retry"]
    BY <1>3 DEF Evict
  <2>2. InHand' = InHand
    BY <1>0, <2>1 DEF InHand, TypeOK
  <2>3. PICK x : ToSet(queue) \subseteq ToSet(queue') \cup {x}
    BY <1>0, <2>1, TailedSet
  <2>4. Placed \subseteq Placed' \cup {x} \cup {Stop, NoEvent}
    BY <2>1, <2>2, <2>3 DEF Placed
  <2>5. Missing' \subseteq Missing \cup {x}
    BY <2>1, <2>4, MissingGrows DEF Sent
  <2>6. Retrying' = Retrying \cup {t} /\ t \notin Retrying
    BY <1>0, <2>1 DEF Retrying, TypeOK
  <2>7. IsFiniteSet(Retrying') /\ Cardinality(Retrying') = Cardinality(Retrying) + 1
    <3> DEFINE R == Retrying
    <3> HIDE DEF R
    <3>1. IsFiniteSet(R) /\ Retrying' = R \cup {t} /\ t \notin R
      BY <2>6 DEF LossInv, R
    <3>2. IsFiniteSet(Retrying') /\ Cardinality(Retrying') = Cardinality(R) + 1
      BY <3>1, FS_AddElement
    <3> QED BY <3>2 DEF R
  <2>8. Cardinality(Retrying) \in Nat /\ dropped \in Nat
    BY <1>0, FS_CardinalityType DEF LossInv, TypeOK
  <2>9. stopping' \/ enqueuer'[Main].pc = "idle"
    BY <1>0, <2>1 DEF LossInv, TypeOK
  <2>10. IsFiniteSet(Missing') /\ Cardinality(Missing') <= 2 * dropped' + Cardinality(Retrying')
    <3>1. /\ IsFiniteSet(Missing') /\ Cardinality(Missing') \in Nat
          /\ Cardinality(Missing) \in Nat /\ Cardinality(Missing') <= Cardinality(Missing) + 1
      BY <2>5, OneLost
    <3>2. Cardinality(Missing) <= 2 * dropped + Cardinality(Retrying)
      BY DEF LossInv
    <3> QED BY <2>1, <2>7, <2>8, <3>1, <3>2
  <2> QED BY <2>7, <2>9, <2>10 DEF LossInv
<1>4. ASSUME NEW t \in Threads, Retry(t) PROVE LossInv'
  <2>1. PICK e \in Events : e = enqueuer[t].event
    BY <1>0, <1>4, InHands DEF Retry
  <2>2. /\ enqueuer[t].pc = "retry" /\ UNCHANGED <<sent, handled, stopping>>
        /\ queue' = queue \/ queue' = Append(queue, e)
        /\ dropped' = dropped + 1
        /\ enqueuer' = [enqueuer EXCEPT ![t] = EnqueuerIdle]
    BY <1>4, <2>1 DEF Retry, Enqueued
  <2>3. ToSet(queue) \subseteq ToSet(queue')
    BY <1>0, <2>2, AppendedSet
  <2>4. InHand \subseteq InHand' \cup {e}
    BY <1>0, <2>1, <2>2, HandsChange
  <2>5. Placed \subseteq Placed' \cup {e} \cup {Stop, NoEvent}
    BY <2>2, <2>3, <2>4 DEF Placed
  <2>6. Missing' \subseteq Missing \cup {e}
    BY <2>2, <2>5, MissingGrows DEF Sent
  <2>7. Retrying' = Retrying \ {t} /\ t \in Retrying
    BY <1>0, <2>2 DEF Retrying, TypeOK, EnqueuerIdle
  <2>8. IsFiniteSet(Retrying') /\ Cardinality(Retrying') = Cardinality(Retrying) - 1
    <3> DEFINE R == Retrying
    <3> HIDE DEF R
    <3>1. IsFiniteSet(R) /\ Retrying' = R \ {t} /\ t \in R
      BY <2>7 DEF LossInv, R
    <3>2. IsFiniteSet(Retrying') /\ Cardinality(Retrying') = Cardinality(R) - 1
      BY <3>1, FS_RemoveElement
    <3> QED BY <3>2 DEF R
  <2>9. Cardinality(Retrying) \in Nat /\ dropped \in Nat
    BY <1>0, FS_CardinalityType DEF LossInv, TypeOK
  <2>10. stopping' \/ enqueuer'[Main].pc = "idle"
    BY <1>0, <2>2 DEF LossInv, TypeOK, EnqueuerIdle
  <2>11. IsFiniteSet(Missing') /\ Cardinality(Missing') <= 2 * dropped' + Cardinality(Retrying')
    <3>1. /\ IsFiniteSet(Missing') /\ Cardinality(Missing') \in Nat
          /\ Cardinality(Missing) \in Nat /\ Cardinality(Missing') <= Cardinality(Missing) + 1
      BY <2>6, OneLost
    <3>2. Cardinality(Missing) <= 2 * dropped + Cardinality(Retrying)
      BY DEF LossInv
    <3> QED BY <2>2, <2>8, <2>9, <3>1, <3>2
  <2> QED BY <2>8, <2>10, <2>11 DEF LossInv
<1>5. ASSUME NEW g \in Feeds, Deliver(g) PROVE LossInv'
  <2>1. PICK e \in Events : e = [src |-> g, n |-> sent'[g]]
    BY <1>0, <1>5, DeliveredEvent
  <2>2. PICK x : /\ enqueuer' = [enqueuer EXCEPT ![g] = x] /\ x.pc # "retry"
                 /\ \/ queue' = queue /\ x.event = e
                    \/ queue' = Append(queue, e)
                 /\ UNCHANGED <<handled, dropped, stopping>>
                 /\ sent' = [sent EXCEPT ![g] = sent[g] + 1]
    BY <1>5, <2>1 DEF Deliver, Put, EnqueuerIdle, Enqueued
  <2>3. enqueuer[g].pc = "idle" /\ enqueuer[g].event = NoEvent /\ g # Main
    BY <1>0, <1>5, RunnerAssumption DEF Deliver
  <2>4. Retrying' = Retrying
    BY <1>0, <2>2, <2>3, RetryingSame
  <2>5. InHand \subseteq InHand' \cup {NoEvent} /\ x.event \in InHand'
    BY <1>0, <2>2, <2>3, HandsChange
  <2>6. ToSet(queue) \subseteq ToSet(queue') /\ e \in ToSet(queue') \cup InHand'
    <3>1. CASE queue' = queue /\ x.event = e
      BY <2>5, <3>1
    <3>2. CASE queue' = Append(queue, e)
      BY <1>0, <3>2, AppendedSet
    <3> QED BY <2>2, <3>1, <3>2
  <2>7. Placed \subseteq Placed' \cup {} \cup {Stop, NoEvent}
    BY <2>2, <2>5, <2>6 DEF Placed
  <2>8. Sent' \subseteq Sent \cup Placed'
    <3> SUFFICES ASSUME NEW d \in Sent', d \notin Sent PROVE d = e
      BY <2>6 DEF Placed
    <3>1. d \in Events /\ d # Stop /\ d.n <= sent'[d.src] /\ ~(d.n <= sent[d.src])
      BY DEF Sent
    <3>2. d.src \in Feeds /\ d.n \in Nat /\ d = [src |-> d.src, n |-> d.n]
      BY <3>1, RunnerAssumption, EventKinds DEF Events
    <3>3. d.src = g /\ sent'[g] = sent[g] + 1 /\ sent[g] \in Nat
      BY <1>0, <2>2, <3>1, <3>2 DEF TypeOK
    <3>4. d.n = sent'[g]
      BY <3>1, <3>2, <3>3
    <3> QED BY <2>1, <3>2, <3>3, <3>4
  <2>9. Missing' \subseteq Missing \cup {}
    BY <2>7, <2>8, MissingGrows
  <2>10. stopping' \/ enqueuer'[Main].pc = "idle"
    BY <1>0, <2>2, <2>3 DEF LossInv, TypeOK
  <2> QED BY <1>0, <2>2, <2>4, <2>9, <2>10, NoLoss
<1>6. CASE Get
  <2>1. /\ UNCHANGED <<sent, enqueuer, dropped, stopping>>
        /\ queue # <<>> /\ queue' = Tail(queue) /\ Head(queue) \in Events
        /\ \/ handled' = handled /\ Head(queue) = Stop
           \/ handled' = Append(handled, Head(queue))
    BY <1>0, <1>6, Tailed DEF Get
  <2>2. ToSet(queue) = ToSet(queue') \cup {Head(queue)}
    BY <1>0, <2>1, TailedSet
  <2>3. ToSet(handled) \subseteq ToSet(handled') /\ Head(queue) \in ToSet(handled') \cup {Stop}
    <3>1. CASE handled' = handled /\ Head(queue) = Stop
      BY <3>1
    <3>2. CASE handled' = Append(handled, Head(queue))
      BY <1>0, <2>1, <3>2, AppendedSet
    <3> QED BY <2>1, <3>1, <3>2
  <2>4. InHand' = InHand /\ Sent' = Sent /\ Retrying' = Retrying
    BY <2>1 DEF InHand, Sent, Retrying
  <2>5. Placed \subseteq Placed' \cup {} \cup {Stop, NoEvent}
    BY <2>2, <2>3, <2>4 DEF Placed
  <2>6. Missing' \subseteq Missing \cup {}
    BY <2>4, <2>5, MissingGrows
  <2> QED BY <1>0, <1>a, <2>1, <2>4, <2>6, NoLoss
<1>7. CASE Started \/ Loop \/ Timeout \/ HookReturns \/ UNCHANGED vars
  <2>1. UNCHANGED <<queue, stopping, enqueuer, dropped, sent, handled>>
    BY <1>7 DEF Started, Loop, Timeout, HookReturns, vars
  <2>2. Missing' = Missing /\ Retrying' = Retrying
    BY <2>1 DEF Missing, Sent, InHand, Retrying
  <2> QED BY <1>0, <1>a, <2>1, <2>2, NoLoss
<1> QED
  BY <1>1, <1>2, <1>3, <1>4, <1>5, <1>6, <1>7 DEF Next, EnqueueStep, RunnerStep

\* The counter of drops accounts for every event that is lost: at most two each
\* time the queue was found full (core.py:107-119).
THEOREM LossesAreCounted == Spec => []LossesCounted
<1>1. LossInv => LossesCounted
  BY DEF LossInv, LossesCounted, Retrying
<1> QED BY <1>1, OrderInit, OrderStep, LossInit, LossStep, PTL DEF Spec

-----------------------------------------------------------------------------
(* A single feed keeps the freshest                                        *)

\* Before stop is called, nobody rivals the feed and FreshestKept holds.
OneFeedInv == ~stopping => Stop \notin ToSet(queue) /\ FreshestKept

\* What holds goes on to hold if nothing is lost and nothing queued.
LEMMA FreshestSame ==
  ASSUME FreshestKept, Missing' \subseteq Missing, ToSet(queue') \subseteq ToSet(queue)
  PROVE  FreshestKept'
BY DEF FreshestKept

\* And if an event is queued that comes after those that are lost.
LEMMA FreshestAdded ==
  ASSUME FreshestKept, Missing' \subseteq Missing,
         NEW e, ToSet(queue') = ToSet(queue) \cup {e},
         \A lost \in Missing : lost.src = e.src => e.n > lost.n
  PROVE  FreshestKept'
BY DEF FreshestKept

LEMMA OneFeedInit == Init => OneFeedInv
<1> SUFFICES ASSUME Init PROVE OneFeedInv
  OBVIOUS
<1>1. ToSet(queue) = {}
  BY DEF Init, ToSet
<1> QED BY <1>1 DEF OneFeedInv, FreshestKept

LEMMA OneFeedStep ==
  ASSUME NEW f, Feeds = {f}, OrderInv, LossInv, OneFeedInv, [Next]_vars
  PROVE  OneFeedInv'
<1> SUFFICES ASSUME ~stopping' PROVE Stop \notin ToSet(queue') /\ FreshestKept'
  BY DEF OneFeedInv
<1>0. /\ TypeOK /\ HandsFull /\ queue \in Seq(Events) /\ handled \in Seq(Events)
      /\ QueueMax \in Nat \ {0} /\ Threads = {f, Main} /\ f # Main /\ f \in Threads
      /\ sent[f] \in Nat
  BY RunnerAssumption DEF OrderInv, Threads, TypeOK
<1>1. /\ ~stopping /\ ~SetStop /\ Stop \notin ToSet(queue) /\ FreshestKept
      /\ enqueuer[Main].pc = "idle"
  <2>1. ~SetStop
    BY DEF SetStop
  <2>2. stopping' = stopping
    BY <2>1 DEF Next, RunnerStep, EnqueueStep, Started, Loop, Get, Timeout, HookReturns,
                PutStop, Evict, Retry, Deliver, vars
  <2> QED BY <2>1, <2>2 DEF OneFeedInv, LossInv
<1>2. ~PutStop
  BY <1>1 DEF PutStop
<1>3. \A e \in Missing : e \in Events /\ e # Stop /\ e.src = f /\ e.n \in Nat /\ e.n <= sent[f]
                        /\ e = [src |-> f, n |-> e.n] /\ e \notin InHand
  BY EventKinds DEF Missing, Sent, Events
<1>4. ASSUME NEW t \in Threads, Evict(t) PROVE Stop \notin ToSet(queue') /\ FreshestKept'
  <2>1. /\ UNCHANGED <<sent, handled>>
        /\ queue' = IF queue = <<>> THEN <<>> ELSE Tail(queue)
        /\ enqueuer' = [enqueuer EXCEPT ![t].pc = "retry"]
    BY <1>4 DEF Evict
  <2>2. InHand' = InHand
    BY <1>0, <2>1 DEF InHand, TypeOK
  <2>3. CASE queue = <<>>
    <3>1. ToSet(queue') = {}
      BY <2>1, <2>3 DEF ToSet
    <3> QED BY <3>1 DEF FreshestKept
  <2>4. CASE queue # <<>>
    <3>1. queue' = Tail(queue) /\ ToSet(queue) = ToSet(queue') \cup {Head(queue)}
      BY <1>0, <2>1, <2>4, TailedSet
    <3>2. Placed \subseteq Placed' \cup {Head(queue)} \cup {Stop, NoEvent}
      BY <2>1, <2>2, <3>1 DEF Placed
    <3>3. Missing' \subseteq Missing \cup {Head(queue)}
      BY <2>1, <3>2, MissingGrows DEF Sent
    <3>4. \A kept \in ToSet(queue') : kept.src = Head(queue).src => kept.n > Head(queue).n
      <4> SUFFICES ASSUME NEW i \in DOMAIN queue', queue'[i].src = Head(queue).src
                   PROVE  queue'[i].n > Head(queue).n
        BY DEF ToSet
      <4>1. /\ i + 1 \in DOMAIN queue /\ 1 < i + 1 /\ queue'[i] = queue[i + 1]
            /\ 1 \in DOMAIN queue /\ Head(queue) = queue[1]
        BY <1>0, <2>4, <3>1, Tailed
      <4>2. /\ queue[1] \in Events /\ queue[1] # Stop /\ queue[i + 1] \in Events
            /\ queue[i + 1] # Stop
        BY <1>0, <1>1, <4>1 DEF ToSet
      <4>3. queue[1].src \in Feeds /\ queue[1].n \in Nat /\ queue[i + 1].n \in Nat
        BY <4>2, EventKinds
      <4>4. queue[1].n < queue[i + 1].n
        BY <4>1, <4>3 DEF OrderInv, Sorted
      <4> QED BY <4>1, <4>3, <4>4
    <3>5. FreshestKept'
      BY <1>1, <3>1, <3>3, <3>4 DEF FreshestKept
    <3> QED BY <1>1, <3>1, <3>5
  <2> QED BY <2>3, <2>4
<1>5. ASSUME NEW t \in Threads, Retry(t) PROVE Stop \notin ToSet(queue') /\ FreshestKept'
  <2>1. t = f
    BY <1>0, <1>1, <1>5 DEF Retry
  <2>2. PICK e \in Events : /\ e = enqueuer[f].event /\ e.src = f /\ e.n = sent[f]
                            /\ e = [src |-> f, n |-> sent[f]]
    BY <1>0, <1>5, <2>1, InHands DEF Retry, HandsFull
  <2>3. HasRoom
    <3> SUFFICES ASSUME ~HasRoom PROVE FALSE
      OBVIOUS
    <3>1. Len(queue) \in DOMAIN queue /\ Last(queue) = queue[Len(queue)]
      BY <1>0 DEF HasRoom, Last
    <3>2. Last(queue) \in Events /\ Last(queue) # Stop
      BY <1>0, <1>1, <3>1 DEF ToSet
    <3>3. Last(queue).src = f
      BY <3>2, EventKinds
    <3> QED BY <1>5, <2>1, <3>3 DEF Retry, OrderInv, RoomOrRival
  <2>4. /\ queue' = Append(queue, e) /\ UNCHANGED <<sent, handled>>
        /\ enqueuer' = [enqueuer EXCEPT ![f] = EnqueuerIdle]
    BY <1>5, <2>1, <2>2, <2>3 DEF Retry, Enqueued
  <2>5. ToSet(queue') = ToSet(queue) \cup {e}
    BY <1>0, <2>4, AppendedSet
  <2>6. InHand \subseteq InHand' \cup {e}
    BY <1>0, <2>2, <2>4, HandsChange
  <2>7. Placed \subseteq Placed' \cup {} \cup {Stop, NoEvent}
    BY <2>4, <2>5, <2>6 DEF Placed
  <2>8. Missing' \subseteq Missing
    BY <2>4, <2>7, MissingGrows DEF Sent
  <2>9. e \in InHand
    BY <1>0, <2>2 DEF InHand
  <2>10. ASSUME NEW lost \in Missing PROVE e.n > lost.n
    <3>1. lost # e /\ lost = [src |-> f, n |-> lost.n] /\ lost.n \in Nat /\ lost.n <= sent[f]
      BY <1>3, <2>9
    <3>2. lost.n # sent[f]
      BY <2>2, <3>1
    <3> QED BY <1>0, <2>2, <3>1, <3>2
  <2>11. FreshestKept'
    BY <1>1, <2>5, <2>8, <2>10, FreshestAdded
  <2>12. e # Stop
    BY <1>0, <2>2 DEF Stop
  <2> QED BY <1>1, <2>5, <2>11, <2>12
<1>6. ASSUME NEW g \in Feeds, Deliver(g) PROVE Stop \notin ToSet(queue') /\ FreshestKept'
  <2>1. PICK e \in Events : e = [src |-> f, n |-> sent'[f]] /\ e.src = f /\ e.n = sent[f] + 1
    BY <1>0, <1>6, DeliveredEvent
  <2>2. PICK x : /\ enqueuer' = [enqueuer EXCEPT ![f] = x]
                 /\ \/ queue' = queue /\ x.event = e
                    \/ queue' = Append(queue, e)
                 /\ UNCHANGED handled
                 /\ sent' = [sent EXCEPT ![f] = sent[f] + 1]
    BY <1>6, <2>1 DEF Deliver, Put, EnqueuerIdle, Enqueued
  <2>3. enqueuer[f].event = NoEvent
    BY <1>0, <1>6 DEF Deliver, HandsFull
  <2>4. InHand \subseteq InHand' \cup {NoEvent} /\ x.event \in InHand'
    BY <1>0, <2>2, <2>3, HandsChange
  <2>5. \/ ToSet(queue') = ToSet(queue) /\ e \in InHand'
        \/ ToSet(queue') = ToSet(queue) \cup {e}
    BY <1>0, <2>2, <2>4, AppendedSet
  <2>6. Placed \subseteq Placed' \cup {} \cup {Stop, NoEvent} /\ e \in Placed'
    BY <2>2, <2>4, <2>5 DEF Placed
  <2>7. Sent' \subseteq Sent \cup Placed'
    <3> SUFFICES ASSUME NEW d \in Sent', d \notin Sent PROVE d = e
      BY <2>6
    <3>1. d \in Events /\ d # Stop /\ d.n <= sent'[d.src] /\ ~(d.n <= sent[d.src])
      BY DEF Sent
    <3>2. d.src = f /\ d.n \in Nat /\ d = [src |-> f, n |-> d.n]
      BY <3>1, EventKinds DEF Events
    <3>3. d.n = sent[f] + 1
      BY <1>0, <2>2, <3>1, <3>2 DEF TypeOK
    <3> QED BY <1>0, <2>1, <2>2, <3>2, <3>3 DEF TypeOK
  <2>8. Missing' \subseteq Missing
    BY <2>6, <2>7, MissingGrows
  <2>9. \A lost \in Missing : e.n > lost.n
    BY <1>0, <1>3, <2>1
  <2>10. FreshestKept'
    BY <1>1, <2>5, <2>8, <2>9, FreshestSame, FreshestAdded
  <2>11. e # Stop
    BY <1>0, <2>1 DEF Stop
  <2> QED BY <1>1, <2>5, <2>10, <2>11
<1>7. CASE Get
  <2>1. /\ UNCHANGED <<sent, enqueuer>>
        /\ queue # <<>> /\ queue' = Tail(queue) /\ Head(queue) \in Events
        /\ (handled' = handled /\ Head(queue) = Stop) \/ handled' = Append(handled, Head(queue))
    BY <1>0, <1>7, Tailed DEF Get
  <2>2. ToSet(queue) = ToSet(queue') \cup {Head(queue)}
    BY <1>0, <2>1, TailedSet
  <2>3. ToSet(handled) \subseteq ToSet(handled') /\ Head(queue) \in ToSet(handled') \cup {Stop}
    <3>1. CASE handled' = handled /\ Head(queue) = Stop
      BY <3>1
    <3>2. CASE handled' = Append(handled, Head(queue))
      BY <1>0, <2>1, <3>2, AppendedSet
    <3> QED BY <2>1, <3>1, <3>2
  <2>4. Placed \subseteq Placed' \cup {} \cup {Stop, NoEvent}
    BY <2>1, <2>2, <2>3 DEF Placed, InHand
  <2>5. Missing' \subseteq Missing
    BY <2>1, <2>4, MissingGrows DEF Sent
  <2>6. FreshestKept'
    BY <1>1, <2>2, <2>5, FreshestSame
  <2> QED BY <1>1, <2>2, <2>6
<1>8. CASE Started \/ Loop \/ Timeout \/ HookReturns \/ UNCHANGED vars
  <2>1. UNCHANGED <<queue, enqueuer, sent, handled>>
    BY <1>8 DEF Started, Loop, Timeout, HookReturns, vars
  <2>2. Missing' = Missing
    BY <2>1 DEF Missing, Sent, InHand
  <2>3. ToSet(queue') = ToSet(queue)
    BY <2>1
  <2>4. FreshestKept'
    BY <1>1, <2>2, <2>3, FreshestSame
  <2> QED BY <1>1, <2>3, <2>4
<1> QED
  BY <1>1, <1>2, <1>4, <1>5, <1>6, <1>7, <1>8 DEF Next, EnqueueStep, RunnerStep

\* "Keep the freshest" is so with a single feed, as in mock mode, for any bound of
\* the queue, until stop is called and the sentinel rivals its events
\* (core.py:107-119).
THEOREM OneFeedKeepsTheFreshest ==
  ASSUME NEW f, Feeds = {f}
  PROVE  Spec => [](stopping \/ FreshestKept)
<1>1. OneFeedInv => stopping \/ FreshestKept
  BY DEF OneFeedInv
<1>2. OrderInv /\ LossInv /\ OneFeedInv /\ [Next]_vars => OneFeedInv'
  BY OneFeedStep
<1> QED
  BY <1>1, <1>2, OrderInit, OrderStep, LossInit, LossStep, OneFeedInit, PTL DEF Spec
=============================================================================
