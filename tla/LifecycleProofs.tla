-------------------------- MODULE LifecycleProofs --------------------------
(***************************************************************************)
(* Proofs about Lifecycle, for any plugins, coins, bounds and hooks: what  *)
(* a plugin can rely on while it runs, and what is left when stop is over. *)
(*                                                                         *)
(* Both are about a main thread that may raise half way, beside plugin     *)
(* threads that subscribe when they like and a fan-out that works on a     *)
(* snapshot.  The invariant says, for each point that main can have        *)
(* reached, which threads can still run, where each subscription's token   *)
(* is (in its owner's list and not yet walked over, or in the hands of the *)
(* thread that is about to append it), and that the tracker's subscription *)
(* is older than those of the plugins that subscribe to its coin.          *)
(***************************************************************************)
EXTENDS Lifecycle, TLAPS

Boot == {"stream", "track"}
BeforeRelease == Boot \cup {"spawn", "running", "flag", "join"}
Releasing == {"release", "clear"}
AfterRelease == {"stop_stream", "prices", "close", "stopped"}

-----------------------------------------------------------------------------
(* What a running plugin relies on.                                        *)

\* No plugin runs before the services are there.
Unborn ==
  /\ main.pc \in Boot => Started = {}
  /\ main.pc = "spawn" => \A i \in DOMAIN Specs : i >= main.k => Specs[i] \notin Started

\* The coins that main has been through are subscribed to by the tracker.
CoinsTracked ==
  /\ main.pc \in Boot \cup {"spawn"} => \A c \in tracking : Tracked(c)
  /\ main.pc = "track" => \A i \in DOMAIN Specs : i < main.k => Passes(CoinOf[Specs[i]])
  /\ main.pc = "spawn" => \A p \in Plugins : Passes(CoinOf[p])

StreamUp == main.pc \in {"track", "spawn"} => stream # "down"

\* The plugins that main has joined are dead or left behind.
Joined ==
  /\ main.pc = "join" => \A i \in DOMAIN Specs : i < main.k => Specs[i] \notin Alive \ quarantined
  /\ main.pc \in Releasing \cup AfterRelease => Alive \subseteq quarantined
  /\ main.pc = "raised" /\ flagged # {} => Alive \subseteq quarantined
  /\ main.pc \in Boot \cup {"spawn", "running"} => flagged = {}

\* ctx.subscribe is only called from hooks; a thread ends with its farewell.
InHooks ==
  \A p \in Plugins :
    /\ thread[p].sub # "none" => thread[p].pc \in Hooks
    /\ thread[p].pc \in {"on_stop", "dead"} => p \in farewell

RunInv ==
  TypeOK /\ Unborn /\ CoinsTracked /\ StreamUp /\ Joined /\ InHooks /\ ReadyBeforeTrading

-----------------------------------------------------------------------------
(* What is left when stop is over.                                         *)

\* The token of subscription t is in the list of its owner at a place that
\* unsubscribe_all has yet to reach, or in the hands of the owner's thread.
Kept(i, t) ==
  \/ thread[Specs[i]].sub = "appending" /\ t.id = thread[Specs[i]].token
  \/ /\ main.pc \in BeforeRelease \/ (main.pc \in Releasing /\ main.k <= i)
     /\ main.pc # "clear" \/ main.k # i
     /\ \E m \in DOMAIN tokens[Specs[i]] :
          /\ tokens[Specs[i]][m] = t.id
          /\ main.pc = "release" /\ main.k = i => main.j <= m

\* That holds of every plugin until it is left behind.
PluginTokens ==
  main.pc # "raised" =>
    \A i \in DOMAIN Specs :
      main.pc \in BeforeRelease \/ Specs[i] \notin quarantined =>
        \A t \in registry : t.owner = Specs[i] => Kept(i, t)

\* And of the tracker until main has been through its list.
PricesTokens ==
  main.pc # "raised" =>
    \A t \in registry : t.owner = Prices =>
      /\ main.pc \notin {"close", "stopped"}
      /\ \E m \in DOMAIN tokens[Prices] :
           tokens[Prices][m] = t.id /\ (main.pc = "prices" => main.j <= m)

Closing ==
  /\ store = "closed" <=> main.pc = "stopped"
  /\ main.pc \in {"prices", "close", "stopped"} => stream # "up"

StopInv == PluginTokens /\ PricesTokens /\ Closing

-----------------------------------------------------------------------------
(* Who hears of a tick first.                                              *)

\* The tokens of live subscriptions, and of callbacks still to be made.
Known == registry \cup feed.todo

TokensKnown ==
  /\ \A t \in registry : t.id <= issued
  /\ main.pc \in Boot => \A t \in Known : t.owner = Prices
  /\ main.pc \in Boot => \A p \in Plugins, c \in Coins : seen[p][c] = 0

\* The tracker's subscription to a coin is older than any plugin's.
PricesOldest ==
  \A r, t \in registry :
    r.owner = Prices /\ t.owner # Prices /\ r.coin = t.coin => r.id < t.id

\* A plugin's callback comes after the tracker's, when it is subscribed at all.
PricesCalled ==
  \A t \in feed.todo :
    t.owner # Prices /\ Tracked(t.coin) =>
      \/ mark[t.coin] >= feed.tick
      \/ \E r \in feed.todo : r.owner = Prices /\ r.coin = t.coin /\ r.id < t.id

Ticks ==
  /\ feed.todo # {} => feed.tick = ticks
  /\ \A p \in Plugins, c \in Coins : seen[p][c] <= ticks
  /\ \A c \in Coins : mark[c] <= ticks

MidsInv == TokensKnown /\ PricesOldest /\ PricesCalled /\ Ticks /\ MidsFirst

IInv == RunInv /\ StopInv /\ MidsInv

-----------------------------------------------------------------------------
(* The type invariant                                                      *)

LEMMA SpecsFacts ==
  /\ Len(Specs) \in Nat \ {0} /\ DOMAIN Specs = 1 .. Len(Specs)
  /\ \A i \in DOMAIN Specs : Specs[i] \in Plugins
  /\ \A p \in Plugins : \E i \in DOMAIN Specs : Specs[i] = p
  /\ \A i, j \in DOMAIN Specs : Specs[i] = Specs[j] => i = j
  /\ {Prices, Stream, Free} \cap Plugins = {} /\ NoCoin \notin Coins
<1>1. Len(Specs) \in Nat \ {0} /\ DOMAIN Specs = 1 .. Len(Specs)
  BY LifecycleAssumption
<1>2. Plugins = {Specs[i] : i \in DOMAIN Specs}
  BY DEF Plugins, ToSet
<1>3. \A i, j \in DOMAIN Specs : Specs[i] = Specs[j] => i = j
  BY LifecycleAssumption DEF IsInjective
<1>4. {Prices, Stream, Free} \cap Plugins = {} /\ NoCoin \notin Coins
  BY LifecycleAssumption
<1> QED BY <1>1, <1>2, <1>3, <1>4

LEMMA TypeInit == Init => TypeOK
<1> SUFFICES ASSUME Init PROVE TypeOK
  OBVIOUS
<1>1. main \in [pc : {"stream", "track", "spawn", "running", "flag", "join", "release",
                     "clear", "stop_stream", "prices", "close", "stopped", "raised"},
               k : 1 .. Len(Specs), j : Nat]
  BY SpecsFacts DEF Init, At
<1>2. thread \in [Plugins -> [pc : Hooks \cup {"unborn", "loop", "get", "dead"},
                             sub : {"none", "subscribing", "appending"}, n : Nat, token : Nat]]
  BY DEF Init, Thread
<1>3. /\ tokens \in [Plugins \cup {Prices} -> Seq(Nat)]
      /\ feed \in [todo : SUBSET Tokens, tick : 0 .. MaxTicks]
  BY LifecycleAssumption DEF Init, NoTick
<1>4. /\ inbox \in [Plugins -> 0 .. QueueMax] /\ ticks \in 0 .. MaxTicks
      /\ mark \in [Coins -> 0 .. MaxTicks] /\ fills \in {"idle", "apply", "notify"}
      /\ seen \in [Plugins -> [Coins -> 0 .. MaxTicks]]
  BY LifecycleAssumption DEF Init
<1> QED BY <1>1, <1>2, <1>3, <1>4 DEF Init, TypeOK

Points == {"stream", "track", "spawn", "running", "flag", "join", "release", "clear",
           "stop_stream", "prices", "close", "stopped", "raised"}

\* The types, in the parts that steps change together.
MainType == main \in [pc : Points, k : 1 .. Len(Specs), j : Nat]
ThreadType ==
  thread \in [Plugins -> [pc : Hooks \cup {"unborn", "loop", "get", "dead"},
                          sub : {"none", "subscribing", "appending"}, n : Nat, token : Nat]]
SetType ==
  /\ stream \in {"none", "down", "up"} /\ store \in {"open", "closed"}
  /\ tracking \subseteq Coins
  /\ flagged \subseteq Plugins /\ quarantined \subseteq Plugins /\ farewell \subseteq Plugins
  /\ lock \in Plugins \cup {Free}
TokenType ==
  /\ tokens \in [Plugins \cup {Prices} -> Seq(Nat)] /\ issued \in Nat
  /\ registry \subseteq Tokens
FeedType ==
  /\ feed \in [todo : SUBSET Tokens, tick : 0 .. MaxTicks]
  /\ inbox \in [Plugins -> 0 .. QueueMax] /\ ticks \in 0 .. MaxTicks
  /\ fills \in {"idle", "apply", "notify"}
  /\ mark \in [Coins -> 0 .. MaxTicks] /\ seen \in [Plugins -> [Coins -> 0 .. MaxTicks]]

LEMMA TypeParts == TypeOK <=> MainType /\ ThreadType /\ SetType /\ TokenType /\ FeedType
<1>1. {flagged, quarantined, farewell} \subseteq SUBSET Plugins
        <=> flagged \subseteq Plugins /\ quarantined \subseteq Plugins /\ farewell \subseteq Plugins
  OBVIOUS
<1> QED BY <1>1 DEF TypeOK, MainType, ThreadType, SetType, TokenType, FeedType, Points

-----------------------------------------------------------------------------
(* How main and a plugin's thread move, field by field.                    *)

LEMMA OnwardMoves ==
  ASSUME MainType, NEW next, Onward(next)
  PROVE  \/ main.k = Len(Specs) /\ main' = [pc |-> next, k |-> 1, j |-> 1]
         \/ /\ main.k < Len(Specs)
            /\ main' = [pc |-> main.pc, k |-> main.k + 1, j |-> main.j]
<1>1. main.k \in 1 .. Len(Specs) /\ Len(Specs) \in Nat \ {0}
  BY SpecsFacts DEF MainType
<1>2. CASE main.k = Len(Specs)
  BY <1>1, <1>2 DEF Onward, At
<1>3. CASE main.k # Len(Specs)
  <2>1. main' = [main EXCEPT !.k = @ + 1]
    BY <1>3 DEF Onward
  <2> QED BY <1>1, <1>3, <2>1 DEF MainType
<1> QED BY <1>2, <1>3

LEMMA MainMoves ==
  ASSUME MainType
  PROVE  /\ [main EXCEPT !.j = @ + 1] = [pc |-> main.pc, k |-> main.k, j |-> main.j + 1]
         /\ [main EXCEPT !.pc = "clear"] = [pc |-> "clear", k |-> main.k, j |-> main.j]
         /\ main.k \in 1 .. Len(Specs) /\ Len(Specs) \in Nat \ {0} /\ main.j \in Nat
BY SpecsFacts DEF MainType

\* The thread of p becomes r and the others stay.
Becomes(p, r) == thread' = [thread EXCEPT ![p] = r]

ThreadRecord(pc, sub, n, token) == [pc |-> pc, sub |-> sub, n |-> n, token |-> token]

LEMMA ThreadFields ==
  ASSUME ThreadType, NEW p \in Plugins
  PROVE  /\ thread[p] = ThreadRecord(thread[p].pc, thread[p].sub, thread[p].n, thread[p].token)
         /\ DOMAIN thread = Plugins
BY DEF ThreadType, ThreadRecord

LEMMA SubscribeMoves ==
  ASSUME ThreadType, NEW p \in Plugins, Subscribe(p)
  PROVE  Becomes(p, ThreadRecord(thread[p].pc, "subscribing", thread[p].n + 1, thread[p].token))
<1>1. thread[p] = ThreadRecord(thread[p].pc, thread[p].sub, thread[p].n, thread[p].token)
  BY ThreadFields
<1>2. DOMAIN thread' = Plugins /\ DOMAIN thread = Plugins
      /\ \A q \in Plugins : q # p => thread'[q] = thread[q]
  BY DEF ThreadType, Subscribe
<1>3. thread'[p] = [[thread[p] EXCEPT !.sub = "subscribing"] EXCEPT !.n = @ + 1]
  BY DEF ThreadType, Subscribe
<1>4. thread'[p] = ThreadRecord(thread[p].pc, "subscribing", thread[p].n + 1, thread[p].token)
  BY <1>1, <1>3 DEF ThreadRecord
<1> QED BY <1>2, <1>4 DEF Becomes, Subscribe

\* It holds a token now, or the subscription has raised.
LEMMA SubscribedMoves ==
  ASSUME ThreadType, NEW p \in Plugins, Subscribed(p)
  PROVE  \/ /\ Becomes(p, ThreadRecord(thread[p].pc, "appending", thread[p].n, issued'))
            /\ \E c \in Coins : Register(p, c)
         \/ /\ Becomes(p, ThreadRecord(thread[p].pc, "none", thread[p].n, thread[p].token))
            /\ UNCHANGED <<registry, issued>>
<1>1. /\ thread[p] = ThreadRecord(thread[p].pc, thread[p].sub, thread[p].n, thread[p].token)
      /\ DOMAIN thread = Plugins
  BY ThreadFields
<1>2. CASE /\ \E c \in Coins : Register(p, c)
           /\ thread' = [thread EXCEPT ![p].sub = "appending", ![p].token = issued']
  <2>1. DOMAIN thread' = Plugins /\ \A q \in Plugins : q # p => thread'[q] = thread[q]
    BY <1>1, <1>2
  <2>2. thread'[p] = [[thread[p] EXCEPT !.sub = "appending"] EXCEPT !.token = issued']
    BY <1>1, <1>2
  <2>3. thread'[p] = ThreadRecord(thread[p].pc, "appending", thread[p].n, issued')
    BY <1>1, <2>2 DEF ThreadRecord
  <2> QED BY <1>1, <1>2, <2>1, <2>3 DEF Becomes
<1>3. CASE /\ thread' = [thread EXCEPT ![p].sub = "none"]
           /\ UNCHANGED <<registry, issued>>
  <2>1. DOMAIN thread' = Plugins /\ \A q \in Plugins : q # p => thread'[q] = thread[q]
    BY <1>1, <1>3
  <2>2. thread'[p] = [thread[p] EXCEPT !.sub = "none"]
    BY <1>1, <1>3
  <2>3. thread'[p] = ThreadRecord(thread[p].pc, "none", thread[p].n, thread[p].token)
    BY <1>1, <2>2 DEF ThreadRecord
  <2> QED BY <1>1, <1>3, <2>1, <2>3 DEF Becomes
<1>4. \/ /\ \E c \in Coins : Register(p, c)
         /\ thread' = [thread EXCEPT ![p].sub = "appending", ![p].token = issued']
      \/ /\ thread' = [thread EXCEPT ![p].sub = "none"]
         /\ UNCHANGED <<registry, issued>>
  BY DEF Subscribed
<1> QED BY <1>2, <1>3, <1>4, Zenon

LEMMA AppendTokenMoves ==
  ASSUME ThreadType, NEW p \in Plugins, AppendToken(p)
  PROVE  Becomes(p, ThreadRecord(thread[p].pc, "none", thread[p].n, 0))
<1>1. /\ thread[p] = ThreadRecord(thread[p].pc, thread[p].sub, thread[p].n, thread[p].token)
      /\ DOMAIN thread = Plugins
  BY ThreadFields
<1>2. DOMAIN thread' = Plugins /\ \A q \in Plugins : q # p => thread'[q] = thread[q]
  BY <1>1 DEF AppendToken
<1>3. thread'[p] = [[thread[p] EXCEPT !.sub = "none"] EXCEPT !.token = 0]
  BY <1>1 DEF AppendToken
<1>4. thread'[p] = ThreadRecord(thread[p].pc, "none", thread[p].n, 0)
  BY <1>1, <1>3 DEF ThreadRecord
<1> QED BY <1>1, <1>2, <1>4 DEF Becomes, AppendToken

\* Only its point changes.
LEMMA PointMoves ==
  ASSUME ThreadType, NEW p \in Plugins, NEW pc, thread' = [thread EXCEPT ![p].pc = pc]
  PROVE  Becomes(p, ThreadRecord(pc, thread[p].sub, thread[p].n, thread[p].token))
<1>1. /\ thread[p] = ThreadRecord(thread[p].pc, thread[p].sub, thread[p].n, thread[p].token)
      /\ DOMAIN thread = Plugins
  BY ThreadFields
<1>2. DOMAIN thread' = Plugins /\ \A q \in Plugins : q # p => thread'[q] = thread[q]
  BY <1>1
<1>3. thread'[p] = [thread[p] EXCEPT !.pc = pc]
  BY <1>1
<1>4. thread'[p] = ThreadRecord(pc, thread[p].sub, thread[p].n, thread[p].token)
  BY <1>1, <1>3 DEF ThreadRecord
<1> QED BY <1>1, <1>2, <1>4 DEF Becomes

\* The step of a plugin's thread that is none of ctx.subscribe.
PointStep(p) == HookEnds(p) \/ Loop(p) \/ Get(p)

LEMMA PointStepMoves ==
  ASSUME ThreadType, NEW p \in Plugins, PointStep(p)
  PROVE  \E pc \in Hooks \cup {"loop", "get", "dead"} :
           /\ Becomes(p, ThreadRecord(pc, thread[p].sub, thread[p].n, thread[p].token))
           /\ thread[p].pc \notin {"unborn", "dead"}
           /\ thread[p].sub = "none" \/ thread[p].pc \notin Hooks
           /\ farewell' = IF pc = "on_stop" THEN farewell \cup {p} ELSE farewell
           /\ pc = "dead" => thread[p].pc = "on_stop"
           /\ UNCHANGED <<main, wiring, flagged, services, feed, fills, ticks, mark, seen,
                         quarantined>>
<1>1. CASE HookEnds(p)
  <2> DEFINE pc == IF thread[p].pc = "on_stop" THEN "dead" ELSE "loop"
  <2>1. thread' = [thread EXCEPT ![p].pc = pc]
    BY <1>1 DEF HookEnds
  <2>2. Becomes(p, ThreadRecord(pc, thread[p].sub, thread[p].n, thread[p].token))
    BY <2>1, PointMoves
  <2>3. /\ thread[p].pc \notin {"unborn", "dead"} /\ thread[p].sub = "none"
        /\ farewell' = farewell
        /\ UNCHANGED <<main, wiring, flagged, services, feed, fills, ticks, mark, seen,
                         quarantined>>
    BY <1>1 DEF HookEnds, InHook, Hooks, feedVars
  <2>4. CASE thread[p].pc = "on_stop"
    BY <2>2, <2>3, <2>4
  <2>5. CASE thread[p].pc # "on_stop"
    BY <2>2, <2>3, <2>5
  <2> QED BY <2>4, <2>5
<1>2. ASSUME NEW pc \in {"on_stop", "get", "hook", "loop"}, Goes(p, pc),
             thread[p].pc \in {"loop", "get"}
      PROVE  /\ Becomes(p, ThreadRecord(pc, thread[p].sub, thread[p].n, thread[p].token))
             /\ farewell' = IF pc = "on_stop" THEN farewell \cup {p} ELSE farewell
             /\ UNCHANGED <<main, wiring, flagged, services, feed, fills, ticks, mark, seen,
                         quarantined>>
  BY <1>2, PointMoves DEF Goes
<1>3. CASE Loop(p) \/ Get(p)
  <2>1. PICK pc \in {"on_stop", "get", "hook", "loop"} :
          Goes(p, pc) /\ thread[p].pc \in {"loop", "get"}
    BY <1>3 DEF Loop, Get
  <2>2. thread[p].pc \notin Hooks \cup {"unborn", "dead"} /\ pc # "dead"
    BY <2>1 DEF Hooks
  <2> QED BY <1>2, <2>1, <2>2 DEF Hooks
<1> QED BY <1>1, <1>3 DEF PointStep

\* A step of the event stream's thread touches its own place and an inbox.
LEMMA StreamFrame ==
  ASSUME StreamStep
  PROVE  UNCHANGED <<main, stream, store, tracking, flagged, thread, tokens, issued, lock, registry,
                     feed, ticks, mark, seen, quarantined, farewell>>
BY DEF StreamStep, UserFills, Persist, Notify, FillLost, FillStep, wiring, services

LEMMA RegisterTyped ==
  ASSUME TokenType, NEW owner \in Plugins \cup {Prices}, NEW coin \in Coins, Register(owner, coin)
  PROVE  issued' \in Nat /\ registry' \subseteq Tokens
BY DEF TokenType, Register, Tokens

LEMMA ThreadTyped ==
  ASSUME ThreadType, NEW p \in Plugins,
         NEW pc \in Hooks \cup {"unborn", "loop", "get", "dead"},
         NEW sub \in {"none", "subscribing", "appending"}, NEW n \in Nat, NEW token \in Nat,
         Becomes(p, ThreadRecord(pc, sub, n, token))
  PROVE  ThreadType'
BY DEF ThreadType, Becomes, ThreadRecord

\* The main thread's own state, in any of its steps.
LEMMA MainTypeStep == MainType /\ ThreadType /\ [Next]_vars => MainType'
<1> SUFFICES ASSUME MainType, ThreadType, [Next]_vars PROVE MainType'
  OBVIOUS
<1>0. main.k \in 1 .. Len(Specs) /\ Len(Specs) \in Nat \ {0} /\ main.j \in Nat
  BY MainMoves
<1>1. ASSUME NEW pc \in Points, main' = At(pc) PROVE MainType'
  BY <1>0, <1>1 DEF At, MainType
<1>2. ASSUME NEW pc \in Points, Onward(pc) PROVE MainType'
  BY <1>0, <1>2, OnwardMoves DEF MainType
<1>3. CASE UNCHANGED main
  BY <1>3 DEF MainType
<1>4. CASE StartStream \/ Interrupt \/ StopStream \/ Close
  BY <1>1, <1>4 DEF StartStream, Interrupt, StopStream, Close, Raised, Points
<1>5. CASE Track \/ Spawn \/ Flag \/ Join
  BY <1>1, <1>2, <1>5 DEF Track, Spawn, Flag, Join, Raised, Points
<1>6. CASE Release
  <2>1. CASE main' = [main EXCEPT !.j = @ + 1]
    BY <1>0, <2>1, MainMoves DEF MainType
  <2>2. CASE main' = [main EXCEPT !.pc = "clear"]
    BY <1>0, <2>2, MainMoves DEF MainType, Points
  <2>3. CASE Raised
    BY <1>1, <2>3 DEF Raised, Points
  <2> QED BY <1>6, <2>1, <2>2, <2>3 DEF Release
<1>7. CASE Clear
  <2>1. CASE main.k = Len(Specs)
    BY <1>1, <1>7, <2>1 DEF Clear, Points
  <2>2. CASE main.k # Len(Specs)
    BY <1>0, <1>7, <2>2 DEF Clear, MainType, Points
  <2> QED BY <2>1, <2>2
<1>8. CASE StopPrices
  <2>1. CASE main' = [main EXCEPT !.j = @ + 1]
    BY <1>0, <2>1, MainMoves DEF MainType
  <2> QED BY <1>1, <1>8, <2>1 DEF StopPrices, Raised, Points
<1>9. ASSUME NEW p \in Plugins, Subscribe(p) \/ PlatformStep(p) \/ HookEnds(p) PROVE MainType'
  BY <1>3, <1>9 DEF Subscribe, PlatformStep, HookEnds, Subscribed, AppendToken, Loop, Get, Goes
<1>10. CASE Callback \/ StreamStep \/ \E c \in Coins : OnEvent(c)
  BY <1>3, <1>10, StreamFrame DEF Callback, OnEvent
<1> QED
  BY <1>3, <1>4, <1>5, <1>6, <1>7, <1>8, <1>9, <1>10 DEF Next, Start, StopStep, vars

LEMMA TypeStep == TypeOK /\ [Next]_vars => TypeOK'
<1> SUFFICES ASSUME TypeOK, [Next]_vars PROVE TypeOK'
  OBVIOUS
<1>0. MainType /\ ThreadType /\ SetType /\ TokenType /\ FeedType
  BY TypeParts
<1>1. MainType'
  BY <1>0, MainTypeStep
<1>2. /\ main.k \in DOMAIN Specs /\ Plugin \in Plugins
      /\ CoinOf[Plugin] \in Coins \cup {NoCoin}
  BY <1>0, SpecsFacts, LifecycleAssumption DEF MainType, Plugin
<1> SUFFICES ThreadType' /\ SetType' /\ TokenType' /\ FeedType'
  BY <1>1, TypeParts, PTL
<1> DEFINE Rest == ThreadType' /\ SetType' /\ TokenType' /\ FeedType'
<1>3. CASE UNCHANGED <<thread, wiring, flagged, services, feedVars, quarantined, farewell>>
  BY <1>0, <1>3 DEF ThreadType, SetType, TokenType, FeedType, wiring, services, feedVars
<1>4. CASE StartStream \/ Interrupt \/ Flag \/ Join \/ StopStream \/ Close
  <2>1. ThreadType' /\ TokenType' /\ FeedType'
    BY <1>0, <1>4
    DEF StartStream, Interrupt, Flag, Join, StopStream, Close, ThreadType, TokenType,
        FeedType, wiring, services, feedVars
  <2>2. SetType'
    BY <1>0, <1>2, <1>4
    DEF StartStream, Interrupt, Flag, Join, StopStream, Close, SetType, wiring, services
  <2> QED BY <2>1, <2>2
<1>5. CASE Track
  <2>1. ThreadType' /\ SetType' /\ FeedType'
    BY <1>0, <1>2, <1>5 DEF Track, Passes, ThreadType, SetType, FeedType, feedVars
  <2>2. TokenType'
    <3>1. CASE UNCHANGED <<registry, issued, tokens>>
      BY <1>0, <3>1 DEF TokenType
    <3>2. CASE /\ ~Passes(CoinOf[Plugin]) /\ Register(Prices, CoinOf[Plugin])
               /\ tokens' = [tokens EXCEPT ![Prices] = Append(@, issued')]
      <4>1. issued' \in Nat /\ registry' \subseteq Tokens
        BY <1>0, <1>2, <3>2, RegisterTyped DEF Passes
      <4> QED BY <1>0, <3>2, <4>1 DEF TokenType
    <3> QED BY <1>5, <3>1, <3>2 DEF Track
  <2> QED BY <2>1, <2>2
<1>6. CASE Spawn
  <2>1. SetType' /\ TokenType' /\ FeedType'
    BY <1>0, <1>6 DEF Spawn, SetType, TokenType, FeedType, wiring, services, feedVars
  <2>2. ThreadType'
    BY <1>0, <1>2, <1>6 DEF Spawn, ThreadType, Thread, Hooks
  <2> QED BY <2>1, <2>2
<1>7. CASE Release \/ Clear \/ StopPrices
  <2>1. ThreadType' /\ SetType' /\ FeedType'
    BY <1>0, <1>7
    DEF Release, Clear, StopPrices, ThreadType, SetType, FeedType, wiring, feedVars
  <2>2. TokenType'
    <3>1. ASSUME NEW id, Unregister(id) PROVE registry' \subseteq Tokens
      BY <1>0, <3>1 DEF TokenType, Unregister
    <3>2. issued' \in Nat /\ registry' \subseteq Tokens
      BY <1>0, <1>7, <3>1 DEF Release, Clear, StopPrices, TokenType
    <3>3. tokens' \in [Plugins \cup {Prices} -> Seq(Nat)]
      <4>1. \/ tokens' = tokens
            \/ tokens' = [tokens EXCEPT ![Plugin] = <<>>]
            \/ tokens' = [tokens EXCEPT ![Prices] = <<>>]
        BY <1>7 DEF Release, Clear, StopPrices
      <4>2. <<>> \in Seq(Nat)
        OBVIOUS
      <4> QED BY <1>0, <4>1, <4>2 DEF TokenType
    <3> QED BY <3>2, <3>3 DEF TokenType
  <2> QED BY <2>1, <2>2
<1>8. ASSUME NEW p \in Plugins, Subscribe(p) PROVE Rest
  <2>1. thread[p].pc \in Hooks \cup {"unborn", "loop", "get", "dead"}
        /\ thread[p].n + 1 \in Nat /\ thread[p].token \in Nat
    BY <1>0 DEF ThreadType
  <2>2. ThreadType'
    BY <1>0, <1>8, <2>1, SubscribeMoves, ThreadTyped
  <2>3. SetType' /\ TokenType' /\ FeedType'
    BY <1>0, <1>8 DEF Subscribe, SetType, TokenType, FeedType, wiring, feedVars
  <2> QED BY <2>2, <2>3
<1>9. ASSUME NEW p \in Plugins, Subscribed(p) PROVE Rest
  <2>1. /\ thread[p].pc \in Hooks \cup {"unborn", "loop", "get", "dead"}
        /\ thread[p].n \in Nat /\ thread[p].token \in Nat
    BY <1>0 DEF ThreadType
  <2>2. issued' \in Nat /\ registry' \subseteq Tokens
    BY <1>0, <1>9, <2>1, SubscribedMoves, RegisterTyped DEF TokenType
  <2>3. ThreadType'
    BY <1>0, <1>9, <2>1, <2>2, SubscribedMoves, ThreadTyped
  <2>4. SetType' /\ FeedType' /\ TokenType'
    BY <1>0, <1>9, <2>2 DEF Subscribed, SetType, TokenType, FeedType, wiring, feedVars
  <2> QED BY <2>3, <2>4
<1>10. ASSUME NEW p \in Plugins, AppendToken(p) PROVE Rest
  <2>1. /\ thread[p].pc \in Hooks \cup {"unborn", "loop", "get", "dead"}
        /\ thread[p].n \in Nat /\ thread[p].token \in Nat
    BY <1>0 DEF ThreadType
  <2>2. ThreadType'
    BY <1>0, <1>10, <2>1, AppendTokenMoves, ThreadTyped
  <2>3. TokenType'
    BY <1>0, <1>10, <2>1 DEF AppendToken, TokenType
  <2>4. SetType' /\ FeedType'
    BY <1>0, <1>10 DEF AppendToken, SetType, FeedType, wiring, feedVars
  <2> QED BY <2>2, <2>3, <2>4
<1>11. ASSUME NEW p \in Plugins, PointStep(p) PROVE Rest
  <2>1. /\ thread[p].sub \in {"none", "subscribing", "appending"}
        /\ thread[p].n \in Nat /\ thread[p].token \in Nat
    BY <1>0 DEF ThreadType
  <2>2. PICK pc \in Hooks \cup {"loop", "get", "dead"} :
          /\ Becomes(p, ThreadRecord(pc, thread[p].sub, thread[p].n, thread[p].token))
          /\ farewell' = IF pc = "on_stop" THEN farewell \cup {p} ELSE farewell
          /\ UNCHANGED <<main, wiring, flagged, services, feed, fills, ticks, mark, seen,
                         quarantined>>
    BY <1>0, <1>11, PointStepMoves
  <2>3. ThreadType'
    BY <1>0, <2>1, <2>2, ThreadTyped
  <2>4. SetType' /\ TokenType'
    BY <1>0, <2>2 DEF SetType, TokenType, wiring, services
  <2>5. inbox' \in [Plugins -> 0 .. QueueMax]
    <3>1. inbox' = inbox \/ (inbox[p] > 0 /\ inbox' = [inbox EXCEPT ![p] = @ - 1])
      BY <1>11 DEF PointStep, HookEnds, Loop, Get, feedVars
    <3>2. inbox \in [Plugins -> 0 .. QueueMax] /\ inbox[p] \in 0 .. QueueMax
      BY <1>0 DEF FeedType
    <3>3. inbox[p] > 0 => inbox[p] - 1 \in 0 .. QueueMax
      BY <3>2, LifecycleAssumption
    <3> QED BY <3>1, <3>2, <3>3
  <2>6. FeedType'
    BY <1>0, <2>2, <2>5 DEF FeedType
  <2> QED BY <2>3, <2>4, <2>6
<1>12. CASE Callback
  <2>1. ThreadType' /\ SetType' /\ TokenType'
    BY <1>0, <1>12 DEF Callback, ThreadType, SetType, TokenType, wiring, services
  <2>2. FeedType'
    <3>1. PICK t \in feed.todo :
            /\ feed' = [feed EXCEPT !.todo = @ \ {t}]
            /\ \/ /\ t.owner = Prices
                  /\ mark' = [mark EXCEPT ![t.coin] = feed.tick]
                  /\ UNCHANGED <<inbox, seen>>
               \/ /\ t.owner # Prices
                  /\ inbox' = [inbox EXCEPT ![t.owner] = Enqueued(@)]
                  /\ seen' = [seen EXCEPT ![t.owner][t.coin] = feed.tick]
                  /\ UNCHANGED mark
            /\ UNCHANGED <<ticks, fills>>
      BY <1>12 DEF Callback
    <3>2. /\ feed.todo \subseteq Tokens /\ feed.tick \in 0 .. MaxTicks
          /\ t \in Tokens /\ t.owner \in Plugins \cup {Prices} /\ t.coin \in Coins
      BY <1>0, <3>1 DEF FeedType, Tokens
    <3>3. feed' = [todo |-> feed.todo \ {t}, tick |-> feed.tick]
      BY <1>0, <3>1 DEF FeedType
    <3>4. feed' \in [todo : SUBSET Tokens, tick : 0 .. MaxTicks]
      BY <3>2, <3>3
    <3>5. mark' \in [Coins -> 0 .. MaxTicks] /\ seen' \in [Plugins -> [Coins -> 0 .. MaxTicks]]
      <4>1. mark' \in [Coins -> 0 .. MaxTicks]
        BY <1>0, <3>1, <3>2 DEF FeedType
      <4>2. CASE t.owner # Prices /\ seen' = [seen EXCEPT ![t.owner][t.coin] = feed.tick]
        <5>1. /\ seen \in [Plugins -> [Coins -> 0 .. MaxTicks]] /\ t.owner \in Plugins
              /\ seen[t.owner] \in [Coins -> 0 .. MaxTicks]
          BY <1>0, <3>2, <4>2 DEF FeedType
        <5>2. [seen[t.owner] EXCEPT ![t.coin] = feed.tick] \in [Coins -> 0 .. MaxTicks]
          BY <3>2, <5>1
        <5> QED BY <4>1, <4>2, <5>1, <5>2
      <4>3. CASE seen' = seen
        BY <1>0, <4>1, <4>3 DEF FeedType
      <4> QED BY <3>1, <4>1, <4>2, <4>3
    <3>6. inbox' \in [Plugins -> 0 .. QueueMax]
      <4>1. \A n \in 0 .. QueueMax : Enqueued(n) \in 0 .. QueueMax
        BY LifecycleAssumption DEF Enqueued
      <4> HIDE DEF Enqueued
      <4>2. CASE inbox' = inbox
        BY <1>0, <4>2 DEF FeedType
      <4>3. CASE t.owner # Prices /\ inbox' = [inbox EXCEPT ![t.owner] = Enqueued(@)]
        <5>1. inbox[t.owner] \in 0 .. QueueMax
          BY <1>0, <3>2, <4>3 DEF FeedType
        <5> QED BY <1>0, <4>1, <4>3, <5>1 DEF FeedType
      <4> QED BY <3>1, <4>2, <4>3
    <3> QED BY <1>0, <3>1, <3>4, <3>5, <3>6 DEF FeedType
  <2> QED BY <2>1, <2>2
<1>13. ASSUME NEW c \in Coins, OnEvent(c) PROVE Rest
  <2>1. ThreadType' /\ SetType' /\ TokenType'
    BY <1>0, <1>13 DEF OnEvent, ThreadType, SetType, TokenType, wiring, services
  <2>2. FeedType'
    <3>1. /\ ticks \in 0 .. MaxTicks /\ ticks < MaxTicks /\ ticks' = ticks + 1
          /\ feed' = [todo |-> Snapshot(c), tick |-> ticks']
          /\ inbox' = inbox /\ mark' = mark /\ seen' = seen /\ fills' = fills
      BY <1>0, <1>13 DEF OnEvent, FeedType
    <3>2. ticks' \in 0 .. MaxTicks
      BY <3>1, LifecycleAssumption
    <3>3. Snapshot(c) \subseteq Tokens
      BY <1>0 DEF Snapshot, TokenType
    <3>4. feed' \in [todo : SUBSET Tokens, tick : 0 .. MaxTicks]
      BY <3>1, <3>2, <3>3
    <3> QED BY <1>0, <3>1, <3>2, <3>4 DEF FeedType
  <2> QED BY <2>1, <2>2
<1>14. CASE StreamStep
  <2>1. ThreadType' /\ SetType' /\ TokenType'
    BY <1>0, <1>14, StreamFrame DEF ThreadType, SetType, TokenType
  <2>2. fills' \in {"idle", "apply", "notify"}
    BY <1>14 DEF StreamStep, UserFills, Persist, Notify, FillLost, FillStep
  <2>3. inbox' \in [Plugins -> 0 .. QueueMax]
    <3>1. \A n \in 0 .. QueueMax : Enqueued(n) \in 0 .. QueueMax
      BY LifecycleAssumption DEF Enqueued
    <3> HIDE DEF Enqueued
    <3>2. inbox' = inbox \/ \E p \in Plugins : inbox' = [inbox EXCEPT ![p] = Enqueued(@)]
      BY <1>14 DEF StreamStep, UserFills, Persist, Notify, FillLost
    <3> QED BY <1>0, <3>1, <3>2 DEF FeedType
  <2>4. FeedType'
    BY <1>0, <1>14, <2>2, <2>3, StreamFrame DEF FeedType
  <2> QED BY <2>1, <2>4
<1>15. CASE UNCHANGED vars
  BY <1>3, <1>15 DEF vars, wiring, services, feedVars
<1> QED
  BY <1>4, <1>5, <1>6, <1>7, <1>8, <1>9, <1>10, <1>11, <1>12, <1>13, <1>14, <1>15
  DEF Next, Start, StopStep, PlatformStep, PointStep

-----------------------------------------------------------------------------
(* What each part of the state is changed by.                              *)

\* The steps of plugins' threads and of the fan-out leave main's part alone.
OtherStep ==
  \/ Callback \/ StreamStep
  \/ \E p \in Plugins : Subscribe(p) \/ PlatformStep(p) \/ HookEnds(p)
  \/ \E c \in Coins : OnEvent(c)

LEMMA OtherStepFrame ==
  ASSUME OtherStep \/ UNCHANGED vars
  PROVE  UNCHANGED <<main, stream, store, tracking, flagged, quarantined>>
BY StreamFrame
DEF OtherStep, Callback, Subscribe, PlatformStep, Subscribed, AppendToken, Loop, Get, Goes,
    HookEnds, OnEvent, wiring, vars

LEMMA MainStepFrame ==
  ASSUME Start \/ Interrupt \/ StopStep
  PROVE  UNCHANGED <<feed, fills, inbox, ticks, mark, seen, farewell, lock>>
BY DEF Start, Interrupt, StopStep, StartStream, Track, Spawn, Flag, Join, Release, Clear,
       StopStream, StopPrices, Close, feedVars, services

LEMMA NextSteps == Next => Start \/ Interrupt \/ StopStep \/ OtherStep
BY DEF Next, OtherStep

\* Only Spawn starts threads, and nothing brings one back.
LEMMA OldThreads ==
  ASSUME TypeOK, [Next]_vars, ~Spawn
  PROVE  Started' = Started /\ Alive' \subseteq Alive
<1>0. ThreadType
  BY TypeParts
<1>1. CASE thread' = thread
  BY <1>1 DEF Started, Alive
<1>2. ASSUME NEW p \in Plugins, NEW pc, NEW sub, NEW n, NEW token,
             Becomes(p, ThreadRecord(pc, sub, n, token)), pc # "unborn",
             thread[p].pc \notin {"unborn", "dead"} \/ pc = thread[p].pc
      PROVE  Started' = Started /\ Alive' \subseteq Alive
  <2>1. /\ thread'[p].pc = pc /\ \A q \in Plugins : q # p => thread'[q] = thread[q]
    BY <1>0, <1>2 DEF Becomes, ThreadRecord, ThreadType
  <2> QED BY <1>2, <2>1 DEF Started, Alive
<1>3. ASSUME NEW p \in Plugins, Subscribe(p) \/ Subscribed(p) \/ AppendToken(p)
      PROVE  Started' = Started /\ Alive' \subseteq Alive
  <2>1. \E sub, n, token : Becomes(p, ThreadRecord(thread[p].pc, sub, n, token))
    BY <1>0, <1>3, SubscribeMoves, SubscribedMoves, AppendTokenMoves
  <2>2. thread'[p].pc = thread[p].pc /\ \A q \in Plugins : q # p => thread'[q] = thread[q]
    BY <1>0, <2>1 DEF Becomes, ThreadRecord, ThreadType
  <2> QED BY <2>2 DEF Started, Alive
<1>4. ASSUME NEW p \in Plugins, PointStep(p)
      PROVE  Started' = Started /\ Alive' \subseteq Alive
  <2>1. PICK pc \in Hooks \cup {"loop", "get", "dead"} :
          /\ Becomes(p, ThreadRecord(pc, thread[p].sub, thread[p].n, thread[p].token))
          /\ thread[p].pc \notin {"unborn", "dead"}
    BY <1>0, <1>4, PointStepMoves
  <2>2. pc # "unborn"
    BY DEF Hooks
  <2> QED BY <1>2, <2>1, <2>2
<1>5. CASE Start \/ Interrupt \/ StopStep
  BY <1>1, <1>5
  DEF Start, Interrupt, StopStep, StartStream, Track, Flag, Join, Release, Clear, StopStream,
      StopPrices, Close
<1>6. CASE Callback \/ StreamStep \/ (\E c \in Coins : OnEvent(c)) \/ UNCHANGED vars
  BY <1>1, <1>6, StreamFrame DEF Callback, OnEvent, vars
<1> QED
  BY <1>3, <1>4, <1>5, <1>6, NextSteps DEF OtherStep, PlatformStep, PointStep

LEMMA SpawnedThread ==
  ASSUME TypeOK, Spawn
  PROVE  /\ Plugin \in Plugins
         /\ \/ thread' = thread /\ main' = At("raised")
            \/ /\ Onward("running")
               /\ Becomes(Plugin, ThreadRecord("on_start", "none", 0, 0))
               /\ Started' = Started \cup {Plugin} /\ Alive' = Alive \cup {Plugin}
<1>0. ThreadType /\ MainType
  BY TypeParts
<1>1. Plugin \in Plugins
  BY <1>0, SpecsFacts DEF MainType, Plugin
<1>2. CASE thread' = [thread EXCEPT ![Plugin] = Thread("on_start")] /\ Onward("running")
  <2>1. Becomes(Plugin, ThreadRecord("on_start", "none", 0, 0))
    BY <1>2 DEF Becomes, Thread, ThreadRecord
  <2>2. /\ thread'[Plugin].pc = "on_start"
        /\ \A q \in Plugins : q # Plugin => thread'[q] = thread[q]
    BY <1>0, <1>1, <2>1 DEF Becomes, ThreadRecord, ThreadType
  <2>3. Started' = Started \cup {Plugin} /\ Alive' = Alive \cup {Plugin}
    BY <1>1, <2>2 DEF Started, Alive
  <2> QED BY <1>1, <1>2, <2>1, <2>3
<1>3. CASE Raised /\ thread' = thread
  BY <1>1, <1>3 DEF Raised
<1> QED BY <1>2, <1>3 DEF Spawn

\* A step that main has no part in.
Aside == main' = main /\ (OtherStep \/ UNCHANGED vars)

\* One step through the plugins, in terms of main's fields.
Along(next) ==
  \/ main.k = Len(Specs) /\ main'.pc = next /\ main'.k = 1 /\ main'.j = 1
  \/ main.k < Len(Specs) /\ main'.pc = main.pc /\ main'.k = main.k + 1

Arrives(pc) == main'.pc = pc /\ main'.k = 1 /\ main'.j = 1

WalksOn == main'.pc = main.pc /\ main'.k = main.k /\ main'.j = main.j + 1

\* What main may do at each point.
LEMMA Departures ==
  ASSUME MainType, [Next]_vars
  PROVE  \/ Aside
         \/ StartStream /\ main.pc = "stream" /\ main'.k = 1 /\ main'.pc \in {"track", "raised"}
         \/ Track /\ main.pc = "track" /\ (Along("spawn") \/ main'.pc = "raised")
         \/ Spawn /\ main.pc = "spawn" /\ (Along("running") \/ main'.pc = "raised")
         \/ Interrupt /\ main.pc = "running" /\ Arrives("flag")
         \/ Flag /\ main.pc = "flag" /\ Along("join")
         \/ Join /\ main.pc = "join" /\ Along("release")
         \/ /\ Release /\ main.pc = "release"
            /\ \/ main'.pc = "clear" /\ main'.k = main.k
               \/ WalksOn \/ main'.pc = "raised"
         \/ /\ Clear /\ main.pc = "clear"
            /\ \/ main.k = Len(Specs) /\ Arrives("stop_stream")
               \/ /\ main.k < Len(Specs)
                  /\ main'.pc = "release" /\ main'.k = main.k + 1 /\ main'.j = 1
         \/ StopStream /\ main.pc = "stop_stream" /\ Arrives("prices")
         \/ /\ StopPrices /\ main.pc = "prices"
            /\ WalksOn \/ Arrives("close") \/ main'.pc = "raised"
         \/ Close /\ main.pc = "close" /\ Arrives("stopped")
<1>1. CASE OtherStep \/ UNCHANGED vars
  BY <1>1, OtherStepFrame DEF Aside
<1>2. ASSUME NEW next, Onward(next) PROVE Along(next)
  BY <1>2, OnwardMoves DEF Along
<1>3. CASE StartStream \/ Interrupt \/ StopStream \/ Close
  BY <1>3 DEF StartStream, Interrupt, StopStream, Close, At, Raised, Arrives
<1>4. CASE Track \/ Spawn \/ Flag \/ Join
  BY <1>2, <1>4 DEF Track, Spawn, Flag, Join, At, Raised
<1>5. CASE Release
  <2>1. main.pc = "release"
    BY <1>5 DEF Release
  <2>2. CASE main' = [main EXCEPT !.j = @ + 1] \/ Raised
    BY <1>5, <2>1, <2>2, MainMoves DEF WalksOn, Raised, At
  <2>3. CASE main' = [main EXCEPT !.pc = "clear"]
    BY <1>5, <2>1, <2>3, MainMoves
  <2> QED BY <1>5, <2>2, <2>3 DEF Release
<1>6. CASE Clear
  BY <1>6, MainMoves DEF Clear, At, Arrives
<1>7. CASE StopPrices
  <2>1. main.pc = "prices"
    BY <1>7 DEF StopPrices
  <2>2. CASE main' = [main EXCEPT !.j = @ + 1] \/ Raised
    BY <1>7, <2>1, <2>2, MainMoves DEF WalksOn, Raised, At
  <2>3. CASE main' = At("close")
    BY <1>7, <2>1, <2>3 DEF At, Arrives
  <2> QED BY <1>7, <2>2, <2>3 DEF StopPrices
<1> QED
  BY <1>1, <1>3, <1>4, <1>5, <1>6, <1>7, NextSteps DEF Start, StopStep

\* Only stop takes subscriptions away.
LEMMA RegistryGrows ==
  ASSUME TypeOK, [Next]_vars, ~Release, ~StopPrices
  PROVE  registry \subseteq registry' /\ \A c \in Coins : Tracked(c) => Tracked(c)'
<1>1. registry \subseteq registry'
  <2>1. CASE OtherStep \/ UNCHANGED vars
    BY <2>1, StreamFrame
    DEF OtherStep, Callback, Subscribe, PlatformStep, Subscribed, AppendToken, Loop, Get, Goes,
        HookEnds, OnEvent, Register, services, vars
  <2>2. CASE Start \/ Interrupt \/ StopStep
    BY <2>2
    DEF Start, Interrupt, StopStep, StartStream, Track, Spawn, Flag, Join, Clear, StopStream,
        Close, Register, services
  <2> QED BY <2>1, <2>2, NextSteps
<1> QED BY <1>1 DEF Tracked

-----------------------------------------------------------------------------
(* A plugin runs on what start has put there.                              *)

LEMMA UnbornStep == TypeOK /\ Unborn /\ [Next]_vars => Unborn'
<1> SUFFICES ASSUME TypeOK, Unborn, [Next]_vars PROVE Unborn'
  OBVIOUS
<1>0. MainType /\ main.k \in DOMAIN Specs /\ main.k \in 1 .. Len(Specs)
  BY TypeParts, SpecsFacts DEF MainType
<1>1. CASE ~Spawn
  <2>1. Started' = Started
    BY <1>1, OldThreads
  <2>2. main'.pc \in Boot => main.pc \in Boot
    BY <1>0, Departures DEF Boot, Aside, Along, Arrives, WalksOn
  <2>3. main'.pc = "spawn" => Aside \/ main.pc \in Boot
    BY <1>0, <1>1, Departures DEF Boot, Aside, Along, Arrives, WalksOn
  <2> QED BY <1>0, <2>1, <2>2, <2>3, SpecsFacts DEF Unborn, Aside
<1>2. CASE Spawn
  <2>1. main.pc = "spawn"
    BY <1>2 DEF Spawn
  <2>2. CASE main' = At("raised")
    BY <2>2 DEF Unborn, At, Boot
  <2>3. CASE Onward("running") /\ Started' = Started \cup {Plugin}
    <3>1. main'.pc \notin Boot
      BY <1>0, <2>1, <2>3, OnwardMoves DEF Boot
    <3>2. main'.pc = "spawn" => main'.k = main.k + 1
      BY <1>0, <2>1, <2>3, OnwardMoves
    <3>3. \A i \in DOMAIN Specs : i >= main.k + 1 => Specs[i] \notin Started' /\ i # main.k
      BY <1>0, <2>1, <2>3, SpecsFacts DEF Unborn, Plugin
    <3> QED BY <3>1, <3>2, <3>3 DEF Unborn
  <2> QED BY <1>2, <2>2, <2>3, SpawnedThread
<1> QED BY <1>1, <1>2

LEMMA StreamUpStep == TypeOK /\ StreamUp /\ [Next]_vars => StreamUp'
<1> SUFFICES ASSUME TypeOK, StreamUp, [Next]_vars, main'.pc \in {"track", "spawn"}
             PROVE  stream' # "down"
  BY DEF StreamUp
<1>0. MainType
  BY TypeParts
<1>1. CASE StartStream
  BY <1>1 DEF StartStream, Raised, At
<1>2. CASE Aside \/ Track \/ Spawn
  <2>1. main.pc \in {"track", "spawn"}
    BY <1>0, <1>2 DEF Aside, Track, Spawn
  <2>2. stream' = stream
    BY <1>2, OtherStepFrame DEF Aside, Track, Spawn, wiring
  <2> QED BY <2>1, <2>2 DEF StreamUp
<1> QED
  BY <1>0, <1>1, <1>2, Departures DEF Along, Arrives, WalksOn

LEMMA TrackMoves ==
  ASSUME MainType, Track
  PROVE  \/ Raised /\ ~Passes(CoinOf[Plugin]) /\ tracking' = tracking \cup {CoinOf[Plugin]}
         \/ /\ main.pc = "track" /\ Along("spawn")
            /\ \/ Passes(CoinOf[Plugin]) /\ UNCHANGED <<tracking, registry, issued, tokens>>
               \/ /\ ~Passes(CoinOf[Plugin])
                  /\ tracking' = tracking \cup {CoinOf[Plugin]}
                  /\ Register(Prices, CoinOf[Plugin])
                  /\ tokens' = [tokens EXCEPT ![Prices] = Append(@, issued')]
<1>1. Onward("spawn") => Along("spawn")
  BY OnwardMoves DEF Along
<1> QED BY <1>1 DEF Track

LEMMA CoinsTrackedStep == TypeOK /\ CoinsTracked /\ [Next]_vars => CoinsTracked'
<1> SUFFICES ASSUME TypeOK, CoinsTracked, [Next]_vars PROVE CoinsTracked'
  OBVIOUS
<1>0. /\ MainType /\ main.k \in DOMAIN Specs /\ main.k \in 1 .. Len(Specs)
      /\ tracking \subseteq Coins /\ CoinOf[Plugin] \in Coins \cup {NoCoin}
  BY TypeParts, SpecsFacts, LifecycleAssumption DEF MainType, SetType, Plugin
<1> SUFFICES ASSUME main'.pc \in Boot \cup {"spawn"} PROVE CoinsTracked'
  BY DEF CoinsTracked, Boot
<1>1. CASE Track
  <2>1. /\ main.pc = "track" /\ Along("spawn")
        /\ \/ Passes(CoinOf[Plugin]) /\ tracking' = tracking
           \/ /\ CoinOf[Plugin] \in Coins /\ tracking' = tracking \cup {CoinOf[Plugin]}
              /\ Register(Prices, CoinOf[Plugin])
    BY <1>0, <1>1, TrackMoves DEF Raised, At, Boot, Passes
  <2>2. \A c \in Coins : Tracked(c) => Tracked(c)'
    BY <2>1, RegistryGrows DEF Release, StopPrices
  <2>3. ASSUME NEW coin \in Coins, Register(Prices, coin) PROVE Tracked(coin)'
    <3> DEFINE t == [id |-> issued', owner |-> Prices, coin |-> coin]
    <3>1. t \in registry' /\ t.owner = Prices /\ t.coin = coin
      BY <2>3 DEF Register
    <3> QED BY <3>1 DEF Tracked
  <2>4. \A c \in tracking' : Tracked(c)'
    BY <1>0, <2>1, <2>2, <2>3 DEF CoinsTracked, Boot
  <2>5. \A i \in DOMAIN Specs : i <= main.k => Passes(CoinOf[Specs[i]])'
    BY <1>0, <2>1, SpecsFacts DEF CoinsTracked, Plugin, Passes
  <2>6. main'.pc = "track" => \A i \in DOMAIN Specs : i < main'.k => Passes(CoinOf[Specs[i]])'
    BY <1>0, <2>1, <2>5, SpecsFacts DEF Along
  <2>7. main'.pc = "spawn" => \A p \in Plugins : Passes(CoinOf[p])'
    BY <1>0, <2>1, <2>5, SpecsFacts DEF Along
  <2> QED BY <2>4, <2>6, <2>7 DEF CoinsTracked
<1>2. CASE ~Track
  <2>1. main.pc \in Boot \cup {"spawn"}
    BY <1>0, <1>2, Departures DEF Boot, Aside, Along, Arrives, WalksOn
  <2>2. ~Release /\ ~StopPrices
    BY <2>1 DEF Release, StopPrices, Boot
  <2>3. \A c \in Coins : Tracked(c) => Tracked(c)'
    BY <2>2, RegistryGrows
  <2>4. tracking' = tracking
    BY <1>0, <1>2, <2>1, Departures, OtherStepFrame
    DEF Boot, Aside, StartStream, Spawn, wiring, Interrupt, Flag, Join, Clear, StopStream, Close
  <2>5. \A c \in tracking' : Tracked(c)'
    BY <1>0, <2>1, <2>3, <2>4 DEF CoinsTracked
  <2>6. main'.pc = "track" => Aside \/ main'.k = 1
    BY <1>0, <1>2, Departures DEF Boot, Aside, Along, Arrives, WalksOn
  <2>7. main'.pc = "spawn" => main.pc = "spawn"
    BY <1>0, <1>2, Departures DEF Boot, Aside, Along, Arrives, WalksOn
  <2> QED BY <1>0, <2>4, <2>5, <2>6, <2>7, SpecsFacts DEF CoinsTracked, Aside, Passes
<1> QED BY <1>1, <1>2

LEMMA JoinedStep == TypeOK /\ Joined /\ [Next]_vars => Joined'
<1> SUFFICES ASSUME TypeOK, Joined, [Next]_vars PROVE Joined'
  OBVIOUS
<1>0. MainType /\ main.k \in DOMAIN Specs /\ main.k \in 1 .. Len(Specs)
  BY TypeParts, SpecsFacts DEF MainType
<1>1. CASE Spawn
  <2>1. main'.pc \in {"spawn", "running", "raised"}
    BY <1>0, <1>1, SpawnedThread, OnwardMoves DEF Spawn, At
  <2>2. main.pc = "spawn" /\ flagged' = flagged
    BY <1>1 DEF Spawn
  <2> QED BY <2>1, <2>2 DEF Joined, Releasing, AfterRelease, Boot
<1>2. CASE Join
  <2>1. Along("release") /\ main.pc = "join"
    BY <1>0, <1>2, OnwardMoves DEF Join, Along
  <2>2. Alive' = Alive /\ Plugin \notin Alive \ quarantined' /\ quarantined \subseteq quarantined'
    BY <1>2 DEF Join, Alive, Started, Hooks
  <2>3. \A i \in DOMAIN Specs : i < main.k + 1 => Specs[i] \notin Alive' \ quarantined'
    BY <1>0, <2>1, <2>2, SpecsFacts DEF Joined, Plugin
  <2>4. main.k = Len(Specs) => Alive' \subseteq quarantined'
    <3>1. Alive' \subseteq Plugins
      BY <2>2 DEF Alive, Started
    <3> QED BY <1>0, <2>3, <3>1, SpecsFacts
  <2>5. main'.pc = "join" => main'.k = main.k + 1
    BY <2>1 DEF Along
  <2>6. main'.pc \in Releasing \cup AfterRelease => main.k = Len(Specs)
    BY <2>1 DEF Along, Releasing, AfterRelease
  <2>7. main'.pc \in {"join", "release"}
    BY <2>1 DEF Along
  <2> QED BY <2>3, <2>4, <2>5, <2>6, <2>7 DEF Joined, Boot
<1>3. CASE ~Spawn /\ ~Join
  <2>1. Alive' \subseteq Alive
    BY <1>3, OldThreads
  <2>2. quarantined' = quarantined
    BY <1>3, NextSteps, OtherStepFrame
    DEF Start, Interrupt, StopStep, StartStream, Track, Flag, Release, Clear, StopStream,
        StopPrices, Close, vars
  <2>3. main'.pc = "join" => Aside \/ main'.k = 1
    BY <1>0, <1>3, Departures DEF Aside, Along, Arrives, WalksOn
  <2>4. main'.pc \in Releasing \cup AfterRelease => main.pc \in Releasing \cup AfterRelease
    BY <1>0, <1>3, Departures DEF Aside, Along, Arrives, WalksOn, Releasing, AfterRelease
  <2>5. main'.pc \in Boot \cup {"spawn", "running", "raised"} =>
          \/ main'.pc = "raised" /\ main.pc \in Releasing \cup AfterRelease
          \/ /\ main.pc \in Boot \cup {"spawn", "running"} \/ main'.pc = main.pc
             /\ flagged' = flagged
    BY <1>0, <1>3, Departures, OtherStepFrame
    DEF Aside, Along, Arrives, WalksOn, Boot, Releasing, AfterRelease, StartStream, Track,
        Interrupt, Flag, Release, Clear, StopStream, StopPrices, Close, vars
  <2>6. main'.pc = "raised" /\ flagged' # {} => Alive' \subseteq quarantined'
    BY <2>1, <2>2, <2>5 DEF Joined
  <2>7. main'.pc \in Boot \cup {"spawn", "running"} => flagged' = {}
    BY <2>5 DEF Joined, Boot
  <2> QED BY <1>0, <2>1, <2>2, <2>3, <2>4, <2>6, <2>7, SpecsFacts DEF Joined, Aside
<1> QED BY <1>1, <1>2, <1>3

LEMMA InHooksStep == TypeOK /\ InHooks /\ [Next]_vars => InHooks'
<1> SUFFICES ASSUME TypeOK, InHooks, [Next]_vars PROVE InHooks'
  OBVIOUS
<1>0. ThreadType
  BY TypeParts
<1>1. ASSUME NEW p \in Plugins, NEW pc, NEW sub, NEW n, NEW token,
             Becomes(p, ThreadRecord(pc, sub, n, token)),
             sub # "none" => pc \in Hooks,
             pc \in {"on_stop", "dead"} => p \in farewell',
             farewell \subseteq farewell'
      PROVE  InHooks'
  <2>1. /\ thread'[p].pc = pc /\ thread'[p].sub = sub
        /\ \A q \in Plugins : q # p => thread'[q] = thread[q]
    BY <1>0, <1>1 DEF Becomes, ThreadRecord, ThreadType
  <2> QED BY <1>1, <2>1 DEF InHooks
<1>2. CASE thread' = thread /\ farewell' = farewell
  BY <1>2 DEF InHooks
<1>3. CASE Start \/ Interrupt \/ StopStep
  <2>1. farewell' = farewell
    BY <1>3, MainStepFrame
  <2>2. CASE Spawn
    BY <1>1, <1>2, <2>1, <2>2, SpawnedThread DEF Hooks
  <2>3. CASE ~Spawn
    <3>1. thread' = thread
      BY <1>3, <2>3
      DEF Start, Interrupt, StopStep, StartStream, Track, Flag, Join, Release, Clear,
          StopStream, StopPrices, Close
    <3> QED BY <1>2, <2>1, <3>1
  <2> QED BY <2>2, <2>3
<1>4. CASE Callback \/ StreamStep \/ (\E c \in Coins : OnEvent(c)) \/ UNCHANGED vars
  BY <1>2, <1>4, StreamFrame DEF Callback, OnEvent, vars
<1>5. ASSUME NEW p \in Plugins, Subscribe(p) \/ Subscribed(p) \/ AppendToken(p) PROVE InHooks'
  <2>1. farewell' = farewell
    BY <1>5 DEF Subscribe, Subscribed, AppendToken, feedVars
  <2>2. thread[p].pc \in Hooks
    BY <1>5 DEF Subscribe, Subscribed, AppendToken, InHook, InHooks
  <2>3. \E sub, n, token : Becomes(p, ThreadRecord(thread[p].pc, sub, n, token))
    BY <1>0, <1>5, SubscribeMoves, SubscribedMoves, AppendTokenMoves
  <2>4. thread[p].pc \in {"on_stop", "dead"} => p \in farewell'
    BY <2>1 DEF InHooks
  <2> QED BY <1>1, <2>1, <2>2, <2>3, <2>4
<1>6. ASSUME NEW p \in Plugins, PointStep(p) PROVE InHooks'
  <2>1. PICK pc \in Hooks \cup {"loop", "get", "dead"} :
          /\ Becomes(p, ThreadRecord(pc, thread[p].sub, thread[p].n, thread[p].token))
          /\ thread[p].sub = "none" \/ thread[p].pc \notin Hooks
          /\ farewell' = IF pc = "on_stop" THEN farewell \cup {p} ELSE farewell
          /\ pc = "dead" => thread[p].pc = "on_stop"
    BY <1>0, <1>6, PointStepMoves
  <2>2. thread[p].sub = "none"
    BY <2>1 DEF InHooks
  <2>3. farewell \subseteq farewell' /\ (pc = "on_stop" => p \in farewell')
    BY <2>1
  <2>4. pc = "dead" => p \in farewell'
    BY <2>1, <2>3 DEF InHooks
  <2> QED BY <1>1, <2>1, <2>2, <2>3, <2>4
<1> QED
  BY <1>3, <1>4, <1>5, <1>6, NextSteps DEF OtherStep, PlatformStep, PointStep

\* While plugins run that are not left behind, stream and mids stay.
LEMMA ReadyStep == RunInv /\ [Next]_vars => ReadyBeforeTrading'
<1> SUFFICES ASSUME RunInv, [Next]_vars PROVE ReadyBeforeTrading'
  OBVIOUS
<1>0. /\ TypeOK /\ Unborn /\ CoinsTracked /\ StreamUp /\ Joined /\ ReadyBeforeTrading
      /\ MainType /\ main.k \in DOMAIN Specs /\ main.k \in 1 .. Len(Specs)
      /\ \A p \in Plugins : CoinOf[p] # NoCoin => CoinOf[p] \in Coins
  BY TypeParts, SpecsFacts, LifecycleAssumption DEF MainType, RunInv
<1>1. Alive \subseteq Plugins
  BY DEF Alive, Started
<1>2. quarantined \subseteq quarantined'
  BY NextSteps, OtherStepFrame
  DEF Start, Interrupt, StopStep, StartStream, Track, Spawn, Join, Flag, Release, Clear,
      StopStream, StopPrices, Close, vars
<1>3. CASE Release \/ StopPrices \/ StopStream
  <2>1. Alive' \subseteq Alive
    BY <1>0, <1>3, OldThreads DEF Release, StopPrices, StopStream, Spawn
  <2>2. Alive \subseteq quarantined
    BY <1>0, <1>3 DEF Joined, Release, StopPrices, StopStream, Releasing, AfterRelease
  <2> QED BY <1>2, <2>1, <2>2 DEF ReadyBeforeTrading
<1>4. CASE Spawn
  <2>1. CASE thread' = thread
    <3>1. Alive' = Alive /\ stream' = stream /\ \A c \in Coins : Tracked(c) => Tracked(c)'
      BY <1>4, <2>1 DEF Alive, Started, Spawn, wiring, services, Tracked
    <3> QED BY <1>0, <1>1, <1>2, <3>1 DEF ReadyBeforeTrading
  <2>2. CASE Alive' = Alive \cup {Plugin}
    <3>1. main.pc = "spawn" /\ stream' = stream
          /\ \A c \in Coins : Tracked(c) => Tracked(c)'
      BY <1>4 DEF Spawn, wiring, services, Tracked
    <3>2. stream # "down" /\ \A p \in Plugins : CoinOf[p] # NoCoin => Tracked(CoinOf[p])
      BY <1>0, <3>1 DEF StreamUp, CoinsTracked, Passes
    <3>3. Alive' \subseteq Plugins
      BY <1>0, <1>1, <1>4, <2>2, SpawnedThread
    <3> QED BY <1>0, <3>1, <3>2, <3>3 DEF ReadyBeforeTrading
  <2> QED BY <1>0, <1>4, <2>1, <2>2, SpawnedThread
<1>5. CASE ~Release /\ ~StopPrices /\ ~StopStream /\ ~Spawn
  <2>1. Alive' \subseteq Alive
    BY <1>0, <1>5, OldThreads
  <2>2. \A c \in Coins : Tracked(c) => Tracked(c)'
    BY <1>0, <1>5, RegistryGrows
  <2>3. stream # "down" => stream' # "down"
    BY <1>5, NextSteps, OtherStepFrame
    DEF Start, Interrupt, StopStep, StartStream, Track, Join, Flag, Clear, Close, vars, wiring
  <2> QED BY <1>0, <1>1, <1>2, <2>1, <2>2, <2>3 DEF ReadyBeforeTrading
<1> QED BY <1>3, <1>4, <1>5

LEMMA RunStep == RunInv /\ [Next]_vars => RunInv'
BY TypeStep, UnbornStep, CoinsTrackedStep, StreamUpStep, JoinedStep, InHooksStep, ReadyStep
DEF RunInv

LEMMA RunInit == Init => RunInv
<1> SUFFICES ASSUME Init PROVE RunInv
  OBVIOUS
<1>1. TypeOK /\ main.pc = "stream" /\ tracking = {} /\ flagged = {}
  BY TypeInit DEF Init, At
<1>2. \A p \in Plugins : thread[p].pc = "unborn" /\ thread[p].sub = "none"
  BY DEF Init, Thread
<1>3. Started = {} /\ Alive = {}
  BY <1>2 DEF Started, Alive
<1> QED
  BY <1>1, <1>2, <1>3
  DEF RunInv, Unborn, CoinsTracked, StreamUp, Joined, InHooks, ReadyBeforeTrading, Releasing,
      AfterRelease, Boot

-----------------------------------------------------------------------------
(* Every subscription's token stays where it will be found.                *)

\* Without main moving, a token stays in its list or in its thread's hands.
LEMMA KeptStays ==
  ASSUME TypeOK, NEW i \in DOMAIN Specs, NEW t, Kept(i, t), main' = main,
         tokens'[Specs[i]] = tokens[Specs[i]],
         \/ thread[Specs[i]].sub # "appending"
         \/ /\ thread'[Specs[i]].sub = thread[Specs[i]].sub
            /\ thread'[Specs[i]].token = thread[Specs[i]].token
  PROVE  Kept(i, t)'
BY DEF Kept

LEMMA KeptInList ==
  ASSUME NEW i \in DOMAIN Specs, NEW t, Kept(i, t),
         ~(thread[Specs[i]].sub = "appending" /\ t.id = thread[Specs[i]].token)
  PROVE  /\ main.pc \in BeforeRelease \/ (main.pc \in Releasing /\ main.k <= i)
         /\ main.pc # "clear" \/ main.k # i
         /\ \E m \in DOMAIN tokens[Specs[i]] :
              /\ tokens[Specs[i]][m] = t.id
              /\ main.pc = "release" /\ main.k = i => main.j <= m
BY DEF Kept

LEMMA PluginTokensAside ==
  ASSUME RunInv, PluginTokens, Aside
  PROVE  PluginTokens'
<1>0. /\ TypeOK /\ ThreadType /\ TokenType /\ Joined /\ InHooks
      /\ main.pc \in Points /\ main' = main /\ quarantined' = quarantined
  BY TypeParts, OtherStepFrame DEF RunInv, MainType, Aside
<1> SUFFICES ASSUME main.pc # "raised", NEW i \in DOMAIN Specs,
                    main.pc \in BeforeRelease \/ Specs[i] \notin quarantined,
                    NEW t \in registry', t.owner = Specs[i]
             PROVE  Kept(i, t)'
  BY <1>0 DEF PluginTokens
<1>1. t \in registry => Kept(i, t)
  BY DEF PluginTokens
<1>2. CASE UNCHANGED <<thread, tokens, registry>>
  BY <1>0, <1>1, <1>2, KeptStays
<1>3. CASE Callback \/ StreamStep \/ (\E c \in Coins : OnEvent(c)) \/ UNCHANGED vars
  BY <1>2, <1>3, StreamFrame DEF Callback, OnEvent, services, vars
<1>4. ASSUME NEW p \in Plugins, PointStep(p) PROVE Kept(i, t)'
  <2>1. PICK pc \in Hooks \cup {"loop", "get", "dead"} :
          /\ Becomes(p, ThreadRecord(pc, thread[p].sub, thread[p].n, thread[p].token))
          /\ UNCHANGED services
    BY <1>0, <1>4, PointStepMoves
  <2>2. \A q \in Plugins : /\ thread'[q].sub = thread[q].sub
                           /\ thread'[q].token = thread[q].token
    BY <1>0, <2>1 DEF Becomes, ThreadRecord, ThreadType
  <2> QED BY <1>0, <1>1, <2>1, <2>2, KeptStays, SpecsFacts DEF services
<1>5. ASSUME NEW p \in Plugins, Subscribe(p) PROVE Kept(i, t)'
  <2>1. /\ thread[p].sub = "none" /\ UNCHANGED <<tokens, registry>>
        /\ \A q \in Plugins : q # p => thread'[q] = thread[q]
    BY <1>0, <1>5 DEF Subscribe, InHook, ThreadType
  <2> QED BY <1>0, <1>1, <2>1, KeptStays, SpecsFacts
<1>6. ASSUME NEW p \in Plugins, Subscribed(p) PROVE Kept(i, t)'
  <2>1. /\ thread[p].sub = "subscribing" /\ tokens' = tokens
        /\ \A q \in Plugins : q # p => thread'[q] = thread[q]
    BY <1>0, <1>6 DEF Subscribed, ThreadType
  <2>2. CASE t \in registry
    BY <1>0, <1>1, <2>1, <2>2, KeptStays, SpecsFacts
  <2>3. CASE t \notin registry
    <3>1. /\ \E c \in Coins : Register(p, c)
          /\ Becomes(p, ThreadRecord(thread[p].pc, "appending", thread[p].n, issued'))
      BY <1>0, <1>6, <2>3, SubscribedMoves
    <3>2. t.id = issued' /\ t.owner = p
      BY <2>3, <3>1 DEF Register
    <3>3. thread'[p].sub = "appending" /\ thread'[p].token = issued'
      BY <1>0, <3>1 DEF Becomes, ThreadRecord, ThreadType
    <3> QED BY <3>2, <3>3 DEF Kept
  <2> QED BY <2>2, <2>3
<1>7. ASSUME NEW p \in Plugins, AppendToken(p) PROVE Kept(i, t)'
  <2>1. /\ thread[p].sub = "appending" /\ registry' = registry
        /\ tokens' = [tokens EXCEPT ![p] = Append(@, thread[p].token)]
        /\ \A q \in Plugins : q # p => thread'[q] = thread[q]
    BY <1>0, <1>7 DEF AppendToken, ThreadType
  <2>2. CASE Specs[i] # p
    <3>1. tokens'[Specs[i]] = tokens[Specs[i]] /\ thread'[Specs[i]] = thread[Specs[i]]
      BY <1>0, <2>1, <2>2, SpecsFacts DEF TokenType
    <3> QED BY <1>0, <1>1, <2>1, <3>1, KeptStays
  <2>3. CASE Specs[i] = p
    <3>1. main.pc \in BeforeRelease
      <4>1. p \in Alive
        BY <1>0, <2>1 DEF InHooks, Alive, Started, Hooks
      <4>2. main.pc \in Releasing \cup AfterRelease => p \in quarantined
        BY <1>0, <4>1 DEF Joined
      <4>3. main.pc \in BeforeRelease \cup Releasing \cup AfterRelease
        BY <1>0 DEF Points, BeforeRelease, Boot, Releasing, AfterRelease
      <4> QED BY <2>3, <4>2, <4>3
    <3>2. main.pc \notin {"clear", "release"}
      BY <3>1 DEF BeforeRelease, Boot
    <3> SUFFICES \E m \in DOMAIN tokens'[p] : tokens'[p][m] = t.id
      BY <1>0, <2>3, <3>1, <3>2 DEF Kept
    <3>3. tokens[p] \in Seq(Nat) /\ tokens'[p] = Append(tokens[p], thread[p].token)
      BY <1>0, <2>1 DEF TokenType
    <3>4. CASE t.id = thread[p].token
      <4>1. Len(tokens[p]) + 1 \in DOMAIN tokens'[p]
            /\ tokens'[p][Len(tokens[p]) + 1] = thread[p].token
        BY <3>3
      <4> QED BY <3>4, <4>1
    <3>5. CASE t.id # thread[p].token
      <4>1. PICK m \in DOMAIN tokens[p] : tokens[p][m] = t.id
        BY <1>1, <2>1, <2>3, <3>5, KeptInList
      <4>2. m \in DOMAIN tokens'[p] /\ tokens'[p][m] = tokens[p][m]
        BY <3>3, <4>1
      <4> QED BY <4>1, <4>2
    <3> QED BY <3>4, <3>5
  <2> QED BY <2>2, <2>3
<1> QED
  BY <1>3, <1>4, <1>5, <1>6, <1>7 DEF Aside, OtherStep, PlatformStep, PointStep

LEMMA PluginTokensStep == RunInv /\ PluginTokens /\ [Next]_vars => PluginTokens'
<1> SUFFICES ASSUME RunInv, PluginTokens, [Next]_vars PROVE PluginTokens'
  OBVIOUS
<1>0. /\ TypeOK /\ MainType /\ ThreadType /\ TokenType /\ Unborn /\ InHooks
      /\ main.pc \in Points /\ main.k \in 1 .. Len(Specs) /\ main.k \in DOMAIN Specs
      /\ main.j \in Nat
  BY TypeParts, SpecsFacts DEF RunInv, MainType
<1>1. CASE Aside
  BY <1>1, PluginTokensAside
<1> SUFFICES ASSUME ~Aside, main'.pc # "raised", NEW i \in DOMAIN Specs,
                    main'.pc \in BeforeRelease \/ Specs[i] \notin quarantined',
                    NEW t \in registry', t.owner = Specs[i]
             PROVE  Kept(i, t)'
  BY <1>1 DEF PluginTokens
<1> USE SpecsFacts
<1>2. main.pc # "raised"
  BY <1>0, Departures DEF Along, Arrives, WalksOn
<1>3. CASE StartStream \/ Track \/ Spawn \/ Interrupt \/ Flag \/ Join
  <2>1. /\ main.pc \in BeforeRelease
        /\ \/ main'.pc \in BeforeRelease
           \/ main'.pc = "release" /\ main'.k = 1 /\ main'.j = 1
    BY <1>0, <1>3, Departures DEF Along, Arrives, WalksOn, BeforeRelease, Boot,
       StartStream, Track, Spawn, Interrupt, Flag, Join
  <2>2. t \in registry /\ tokens'[Specs[i]] = tokens[Specs[i]]
    BY <1>0, <1>3 DEF StartStream, Track, Spawn, Interrupt, Flag, Join, services, Register,
       TokenType
  <2>3. Kept(i, t)
    BY <1>2, <2>1, <2>2 DEF PluginTokens
  <2>4. \/ thread'[Specs[i]] = thread[Specs[i]]
        \/ thread[Specs[i]].sub # "appending"
    <3>1. CASE ~Spawn
      BY <1>3, <3>1 DEF StartStream, Track, Interrupt, Flag, Join
    <3>2. CASE Spawn
      <4>1. \/ thread' = thread
            \/ Becomes(Plugin, ThreadRecord("on_start", "none", 0, 0))
        BY <1>0, <3>2, SpawnedThread
      <4>2. Specs[i] # Plugin => thread'[Specs[i]] = thread[Specs[i]]
        BY <1>0, <4>1 DEF Becomes, ThreadType
      <4>3. thread[Plugin].sub = "none"
        BY <1>0, <3>2 DEF Unborn, Spawn, Started, InHooks, Plugin, Hooks
      <4> QED BY <4>2, <4>3
    <3> QED BY <3>1, <3>2
  <2>5. CASE thread[Specs[i]].sub = "appending" /\ t.id = thread[Specs[i]].token
    BY <2>4, <2>5 DEF Kept
  <2>6. CASE ~(thread[Specs[i]].sub = "appending" /\ t.id = thread[Specs[i]].token)
    <3>1. PICK m \in DOMAIN tokens[Specs[i]] : tokens[Specs[i]][m] = t.id
      BY <2>3, <2>6, KeptInList
    <3>2. m \in Nat \ {0}
      BY <1>0, <3>1 DEF TokenType
    <3> QED BY <2>1, <2>2, <3>1, <3>2 DEF Kept, BeforeRelease, Boot, Releasing
  <2> QED BY <2>5, <2>6
<1>4. CASE Release
  <2>1. main.pc = "release" /\ thread' = thread /\ tokens' = tokens /\ quarantined' = quarantined
    BY <1>4 DEF Release
  <2>2. main'.pc \in Releasing
    BY <1>0, <2>1, Departures DEF StartStream, Track, Spawn, Interrupt, Flag, Join, Clear,
       StopStream, StopPrices, Close, WalksOn, Releasing
  <2>3. t \in registry /\ Specs[i] \notin quarantined
    BY <1>4, <2>1, <2>2 DEF Release, Unregister, Releasing, BeforeRelease, Boot
  <2>4. Kept(i, t)
    BY <1>2, <2>3 DEF PluginTokens
  <2>5. CASE thread[Specs[i]].sub = "appending" /\ t.id = thread[Specs[i]].token
    BY <2>1, <2>5 DEF Kept
  <2>6. CASE ~(thread[Specs[i]].sub = "appending" /\ t.id = thread[Specs[i]].token)
    <3>1. PICK m \in DOMAIN tokens[Specs[i]] :
            tokens[Specs[i]][m] = t.id /\ (main.k = i => main.j <= m)
      BY <2>1, <2>4, <2>6, KeptInList
    <3>2. main.k <= i
      BY <2>1, <2>4, <2>6, KeptInList DEF BeforeRelease, Boot
    <3>3. m \in 1 .. Len(tokens[Specs[i]])
      BY <1>0, <3>1 DEF TokenType
    <3>4. CASE main.j <= Len(tokens[Plugin])
      <4>1. WalksOn /\ t.id # tokens[Plugin][main.j]
        <5>1. /\ t \in {r \in registry : r.id # tokens[Plugin][main.j]}
              /\ main' = [main EXCEPT !.j = @ + 1] \/ Raised
          <6>1. main.j \in Nat /\ Plugin \in Plugins
            BY <1>0, MainMoves, SpecsFacts DEF MainType, Plugin
          <6>2. ~(main.j > Len(tokens[Plugin]))
            <7>1. Len(tokens[Plugin]) \in Nat
              BY <1>0, <6>1 DEF TokenType
            <7> QED BY <3>4, <6>1, <7>1
          <6> QED BY <1>4, <6>2 DEF Release, Unregister
        <5>2. main' = [main EXCEPT !.j = @ + 1]
          BY <5>1 DEF Raised, At
        <5> QED BY <1>0, <5>1, <5>2, MainMoves DEF WalksOn
      <4>2. main.k = i => main.j + 1 <= m
        BY <1>0, <3>1, <3>3, <4>1 DEF Plugin
      <4>3. main'.pc = "release" /\ main'.k = main.k /\ main'.j = main.j + 1
        BY <2>1, <4>1 DEF WalksOn
      <4> QED BY <2>1, <3>1, <3>2, <4>2, <4>3 DEF Kept, Releasing
    <3>5. CASE main.j > Len(tokens[Plugin])
      <4>1. main' = [main EXCEPT !.pc = "clear"]
        <5>1. main.j \in Nat /\ Plugin \in Plugins
          BY <1>0, MainMoves, SpecsFacts DEF MainType, Plugin
        <5>2. Len(tokens[Plugin]) \in Nat
          BY <1>0, <5>1 DEF TokenType
        <5>3. ~(main.j <= Len(tokens[Plugin]))
          BY <3>5, <5>1, <5>2
        <5> QED BY <1>4, <5>3 DEF Release
      <4>2. main'.pc = "clear" /\ main'.k = main.k
        BY <1>0, <4>1, MainMoves
      <4>3. main.k # i
        BY <1>0, <3>1, <3>3, <3>5 DEF Plugin
      <4> QED BY <2>1, <3>1, <3>2, <4>2, <4>3 DEF Kept, Releasing
    <3> QED BY <1>0, <3>4, <3>5 DEF Plugin, TokenType
  <2> QED BY <2>5, <2>6
<1>5. CASE Clear
  <2>1. /\ main.pc = "clear" /\ thread' = thread /\ registry' = registry
        /\ quarantined' = quarantined /\ tokens' = [tokens EXCEPT ![Plugin] = <<>>]
    BY <1>5 DEF Clear
  <2>2. \/ main'.pc = "stop_stream" /\ main.k = Len(Specs)
        \/ main'.pc = "release" /\ main'.k = main.k + 1 /\ main'.j = 1
    BY <1>0, <1>5, MainMoves DEF Clear, At
  <2>3. Specs[i] \notin quarantined
    BY <2>1, <2>2 DEF BeforeRelease, Boot
  <2>4. Kept(i, t)
    BY <1>2, <2>1, <2>3 DEF PluginTokens
  <2>5. CASE thread[Specs[i]].sub = "appending" /\ t.id = thread[Specs[i]].token
    BY <2>1, <2>5 DEF Kept
  <2>6. CASE ~(thread[Specs[i]].sub = "appending" /\ t.id = thread[Specs[i]].token)
    <3>1. PICK m \in DOMAIN tokens[Specs[i]] : tokens[Specs[i]][m] = t.id
      BY <2>4, <2>6, KeptInList
    <3>2. main.k <= i /\ main.k # i
      BY <2>1, <2>4, <2>6, KeptInList DEF BeforeRelease, Boot
    <3>3. main'.pc = "release" /\ main'.k = main.k + 1 /\ main'.j = 1 /\ main.k + 1 <= i
      BY <1>0, <2>2, <3>2
    <3>4. tokens'[Specs[i]] = tokens[Specs[i]]
      BY <1>0, <2>1, <3>2 DEF TokenType, Plugin
    <3>5. m \in Nat \ {0}
      BY <1>0, <3>1 DEF TokenType
    <3> QED BY <3>1, <3>3, <3>4, <3>5 DEF Kept, Releasing
  <2> QED BY <2>5, <2>6
<1>6. CASE StopStream \/ StopPrices \/ Close
  <2>1. /\ main.pc \in AfterRelease /\ thread' = thread /\ quarantined' = quarantined
        /\ t \in registry
    BY <1>6 DEF StopStream, StopPrices, Close, services, Unregister, AfterRelease
  <2>2. main'.pc \in AfterRelease
    BY <1>0, <1>6, <2>1, Departures DEF StartStream, Track, Spawn, Interrupt, Flag, Join,
       Release, Clear, Arrives, WalksOn, AfterRelease
  <2>3. Specs[i] \notin quarantined
    BY <2>1, <2>2 DEF BeforeRelease, Boot, AfterRelease
  <2>4. Kept(i, t)
    BY <1>2, <2>1, <2>3 DEF PluginTokens
  <2>5. thread[Specs[i]].sub = "appending" /\ t.id = thread[Specs[i]].token
    BY <2>1, <2>4 DEF Kept, BeforeRelease, Boot, Releasing, AfterRelease
  <2> QED BY <2>1, <2>5 DEF Kept
<1> QED BY <1>0, <1>3, <1>4, <1>5, <1>6, Departures

LEMMA PricesTokensStep == TypeOK /\ PricesTokens /\ [Next]_vars => PricesTokens'
<1> SUFFICES ASSUME TypeOK, PricesTokens, [Next]_vars, main'.pc # "raised",
                    NEW t \in registry', t.owner = Prices
             PROVE  /\ main'.pc \notin {"close", "stopped"}
                    /\ \E m \in DOMAIN tokens'[Prices] :
                         tokens'[Prices][m] = t.id /\ (main'.pc = "prices" => main'.j <= m)
  BY DEF PricesTokens
<1>0. /\ MainType /\ TokenType /\ main.k \in 1 .. Len(Specs) /\ main.k \in DOMAIN Specs
      /\ main.j \in Nat /\ Plugin \in Plugins /\ Plugin # Prices
  BY TypeParts, SpecsFacts DEF MainType, Plugin
<1>1. main.pc # "raised"
  BY <1>0, Departures DEF Aside, Along, Arrives, WalksOn
<1>2. t \in registry =>
        /\ main.pc \notin {"close", "stopped"}
        /\ \E m \in DOMAIN tokens[Prices] :
             tokens[Prices][m] = t.id /\ (main.pc = "prices" => main.j <= m)
  BY <1>1 DEF PricesTokens
<1>3. tokens[Prices] \in Seq(Nat) /\ DOMAIN tokens[Prices] = 1 .. Len(tokens[Prices])
  BY <1>0 DEF TokenType
<1>4. CASE Track
  <2>1. main.pc = "track" /\ main'.pc \notin {"close", "stopped", "prices"}
    BY <1>0, <1>4, TrackMoves DEF Along, Raised, At, Track
  <2>2. CASE UNCHANGED <<registry, tokens>>
    BY <1>2, <2>1, <2>2
  <2>3. CASE /\ Register(Prices, CoinOf[Plugin])
             /\ tokens' = [tokens EXCEPT ![Prices] = Append(@, issued')]
    <3>1. tokens'[Prices] = Append(tokens[Prices], issued')
      BY <1>0, <2>3 DEF TokenType
    <3>2. CASE t \in registry
      <4>1. PICK m \in DOMAIN tokens[Prices] : tokens[Prices][m] = t.id
        BY <1>2, <3>2
      <4>2. m \in DOMAIN tokens'[Prices] /\ tokens'[Prices][m] = t.id
        BY <1>3, <3>1, <4>1
      <4> QED BY <2>1, <4>2
    <3>3. CASE t \notin registry
      <4>1. t.id = issued'
        BY <2>3, <3>3 DEF Register
      <4>2. /\ Len(tokens[Prices]) + 1 \in DOMAIN tokens'[Prices]
            /\ tokens'[Prices][Len(tokens[Prices]) + 1] = t.id
        BY <1>3, <3>1, <4>1
      <4> QED BY <2>1, <4>2
    <3> QED BY <3>2, <3>3
  <2> QED BY <1>0, <1>4, <2>2, <2>3, TrackMoves DEF Raised, At
<1>5. CASE StopPrices
  <2>1. main.pc = "prices" /\ t \in registry
    BY <1>5 DEF StopPrices, Unregister
  <2>2. PICK m \in DOMAIN tokens[Prices] : tokens[Prices][m] = t.id /\ main.j <= m
    BY <1>2, <2>1
  <2>3. main.j <= Len(tokens[Prices])
    BY <1>0, <1>3, <2>2
  <2>4. /\ t.id # tokens[Prices][main.j] /\ tokens' = tokens
        /\ main' = [main EXCEPT !.j = @ + 1] \/ Raised
    BY <1>0, <1>5, <2>3 DEF StopPrices, Unregister
  <2>5. main'.pc = "prices" /\ main'.j = main.j + 1
    BY <1>0, <2>1, <2>4, MainMoves DEF Raised, At
  <2>6. main.j + 1 <= m
    BY <1>0, <1>3, <2>2, <2>4
  <2> QED BY <2>2, <2>4, <2>5, <2>6
<1>6. CASE ~Track /\ ~StopPrices
  <2> DEFINE Same == t \in registry /\ tokens'[Prices] = tokens[Prices]
  <2>1. ASSUME NEW p \in Plugins, Subscribe(p) \/ PlatformStep(p) \/ HookEnds(p) PROVE Same
    <3>1. p # Prices
      BY SpecsFacts
    <3>2. Subscribed(p) => Same
      BY <3>1 DEF Subscribed, Register
    <3>3. AppendToken(p) => Same
      BY <1>0, <3>1 DEF AppendToken, TokenType
    <3>4. Subscribe(p) \/ Loop(p) \/ Get(p) \/ HookEnds(p) => Same
      BY DEF Subscribe, Loop, Get, Goes, HookEnds, services
    <3> QED BY <2>1, <3>2, <3>3, <3>4 DEF PlatformStep
  <2>2. Callback \/ StreamStep \/ (\E c \in Coins : OnEvent(c)) \/ UNCHANGED vars => Same
    BY StreamFrame DEF Callback, OnEvent, services, vars
  <2>3. Clear => Same
    BY <1>0 DEF Clear, TokenType
  <2>4. Release => Same
    BY DEF Release, Unregister
  <2>5. (Start \/ Interrupt \/ StopStep) /\ ~Clear /\ ~Release => Same
    BY <1>6
    DEF Start, Interrupt, StopStep, StartStream, Spawn, Flag, Join, StopStream, Close, services
  <2>6. Same
    BY <2>1, <2>2, <2>3, <2>4, <2>5, NextSteps DEF OtherStep
  <2>7. main'.pc \in {"close", "stopped"} => main.pc \in {"close", "stopped"}
    BY <1>0, <1>6, Departures DEF Aside, Along, Arrives, WalksOn
  <2>8. main'.pc = "prices" => main' = main \/ (main.pc # "prices" /\ main'.j = 1)
    BY <1>0, <1>6, Departures DEF Aside, Along, Arrives, WalksOn
  <2> QED BY <1>2, <1>3, <2>6, <2>7, <2>8
<1> QED BY <1>4, <1>5, <1>6

LEMMA ClosingStep == TypeOK /\ Closing /\ [Next]_vars => Closing'
<1> SUFFICES ASSUME TypeOK, Closing, [Next]_vars PROVE Closing'
  OBVIOUS
<1>0. MainType
  BY TypeParts
<1>1. CASE Close
  BY <1>1 DEF Close, Closing, At
<1>2. CASE StopStream
  BY <1>2 DEF StopStream, Closing, At
<1>3. CASE ~Close /\ ~StopStream
  <2>0. main'.pc = "stopped" => main.pc = "stopped"
    BY <1>0, <1>3, Departures DEF Aside, Along, Arrives, WalksOn
  <2>1. store' = store
    BY <1>3, NextSteps, OtherStepFrame
    DEF Start, Interrupt, StopStep, StartStream, Track, Spawn, Flag, Join, Release, Clear,
        StopPrices, wiring, vars
  <2>2. main.pc = "stopped" => main' = main
    BY <1>0, Departures DEF Aside, StartStream, Track, Spawn, Interrupt, Flag, Join, Release,
       Clear, StopStream, StopPrices, Close
  <2>3. main'.pc \in {"prices", "close", "stopped"} =>
          /\ main.pc \in {"prices", "close", "stopped"} /\ stream' = stream
    <3>1. main'.pc \in {"prices", "close", "stopped"} =>
            main.pc \in {"prices", "close", "stopped"}
      BY <1>0, <1>3, Departures DEF Aside, Along, Arrives, WalksOn
    <3>2. main.pc \in {"prices", "close", "stopped"} => stream' = stream
      BY <1>0, <1>3, Departures, OtherStepFrame
      DEF Aside, StartStream, Track, Spawn, Interrupt, Flag, Join, Release, Clear, StopStream,
          StopPrices, Close, wiring, vars
    <3> QED BY <3>1, <3>2
  <2> QED BY <2>0, <2>1, <2>2, <2>3 DEF Closing
<1> QED BY <1>1, <1>2, <1>3

LEMMA StopInvStep == RunInv /\ StopInv /\ [Next]_vars => StopInv'
BY PluginTokensStep, PricesTokensStep, ClosingStep DEF StopInv, RunInv

LEMMA StopInit == Init => StopInv
BY DEF Init, At, StopInv, PluginTokens, PricesTokens, Closing

-----------------------------------------------------------------------------
(* The tracker is the first to hear of a tick.                             *)

\* At most one subscription is new, and it has the newest token; the tracker's are
\* all made before there is a plugin.
LEMMA Newcomer ==
  ASSUME TypeOK, Unborn, InHooks, [Next]_vars
  PROVE  \/ registry' \subseteq registry /\ issued' = issued
         \/ \E n : /\ registry' = registry \cup {n} /\ n.id = issued' /\ issued' = issued + 1
                   /\ \/ n.owner = Prices /\ main.pc = "track"
                      \/ n.owner \in Plugins /\ main.pc \notin Boot /\ main' = main
<1>0. MainType /\ ThreadType
  BY TypeParts
<1> DEFINE Less == registry' \subseteq registry /\ issued' = issued
<1>1. CASE Track
  <2>1. \/ UNCHANGED <<registry, issued>>
        \/ main.pc = "track" /\ Register(Prices, CoinOf[Plugin])
    BY <1>0, <1>1, TrackMoves DEF Track
  <2>2. CASE main.pc = "track" /\ Register(Prices, CoinOf[Plugin])
    <3> DEFINE n == [id |-> issued', owner |-> Prices, coin |-> CoinOf[Plugin]]
    <3>1. registry' = registry \cup {n} /\ n.id = issued' /\ issued' = issued + 1
          /\ n.owner = Prices
      BY <2>2 DEF Register
    <3> QED BY <2>2, <3>1
  <2> QED BY <2>1, <2>2
<1>2. ASSUME NEW p \in Plugins, Subscribed(p)
      PROVE  \/ Less
             \/ \E n : /\ registry' = registry \cup {n} /\ n.id = issued' /\ issued' = issued + 1
                       /\ n.owner \in Plugins /\ main.pc \notin Boot /\ main' = main
  <2>1. ASSUME NEW c \in Coins, Register(p, c)
        PROVE  \E n : /\ registry' = registry \cup {n} /\ n.id = issued' /\ issued' = issued + 1
                      /\ n.owner \in Plugins /\ main.pc \notin Boot /\ main' = main
    <3> DEFINE n == [id |-> issued', owner |-> p, coin |-> c]
    <3>1. registry' = registry \cup {n} /\ n.id = issued' /\ issued' = issued + 1
          /\ n.owner = p
      BY <2>1 DEF Register
    <3>2. thread[p].pc \in Hooks /\ main' = main
      BY <1>2 DEF Subscribed, InHooks
    <3>3. p \in Started
      BY <3>2 DEF Started, Hooks
    <3> QED BY <3>1, <3>2, <3>3 DEF Unborn
  <2> QED BY <1>2, <2>1 DEF Subscribed
<1>3. ASSUME NEW p \in Plugins PROVE Subscribe(p) \/ AppendToken(p) \/ PointStep(p) => Less
  BY DEF Subscribe, AppendToken, PointStep, Loop, Get, Goes, HookEnds, services
<1>4. Callback \/ StreamStep \/ (\E c \in Coins : OnEvent(c)) \/ UNCHANGED vars => Less
  BY StreamFrame DEF Callback, OnEvent, services, vars
<1>5. (Start \/ Interrupt \/ StopStep) /\ ~Track => Less
  BY DEF Start, Interrupt, StopStep, StartStream, Spawn, Flag, Join, Release, Clear, StopStream,
     StopPrices, Close, Unregister, services
<1> HIDE DEF Less
<1>6. Less => registry' \subseteq registry /\ issued' = issued
  BY DEF Less
<1> QED
  BY <1>1, <1>2, <1>3, <1>4, <1>5, <1>6, NextSteps DEF OtherStep, PlatformStep, PointStep

\* Once plugins can run, no coin becomes tracked.
LEMMA TrackedBefore ==
  ASSUME TypeOK, Unborn, InHooks, [Next]_vars, NEW c, Tracked(c)'
  PROVE  Tracked(c) \/ main.pc = "track"
BY Newcomer, SpecsFacts DEF Tracked

\* The ticks and the mids only move in the websocket thread.
LEMMA FeedFrame ==
  ASSUME [Next]_vars, ~Callback, ~(\E c \in Coins : OnEvent(c))
  PROVE  UNCHANGED <<feed, ticks, mark, seen>>
<1>1. ASSUME NEW p \in Plugins, Subscribe(p) \/ PlatformStep(p) \/ HookEnds(p)
      PROVE  UNCHANGED <<feed, ticks, mark, seen>>
  BY <1>1 DEF Subscribe, PlatformStep, Subscribed, AppendToken, Loop, Get, Goes, HookEnds, feedVars
<1> QED BY <1>1, NextSteps, MainStepFrame, StreamFrame DEF OtherStep, vars

\* What a callback does, and that it is the oldest of those left.
LEMMA CallbackMoves ==
  ASSUME TypeOK, Callback
  PROVE  \E u \in feed.todo :
           /\ u \in Tokens /\ \A other \in feed.todo : u.id <= other.id
           /\ feed'.todo = feed.todo \ {u} /\ feed'.tick = feed.tick
           /\ \/ /\ u.owner = Prices /\ seen' = seen /\ u.coin \in Coins
                 /\ mark' = [mark EXCEPT ![u.coin] = feed.tick]
              \/ /\ u.owner \in Plugins /\ mark' = mark
                 /\ u.coin \in Coins /\ seen' = [seen EXCEPT ![u.owner][u.coin] = feed.tick]
           /\ UNCHANGED <<main, registry, issued, ticks>>
<1>0. FeedType
  BY TypeParts
<1>1. PICK u \in feed.todo :
        /\ CalledNext(u) /\ feed' = [feed EXCEPT !.todo = @ \ {u}]
        /\ \/ u.owner = Prices /\ mark' = [mark EXCEPT ![u.coin] = feed.tick] /\ seen' = seen
           \/ /\ u.owner # Prices /\ mark' = mark
              /\ seen' = [seen EXCEPT ![u.owner][u.coin] = feed.tick]
        /\ UNCHANGED <<main, registry, issued, ticks>>
  BY DEF Callback, services
<1>2. u \in Tokens /\ u.owner \in Plugins \cup {Prices} /\ u.coin \in Coins
  BY <1>0 DEF FeedType, Tokens
<1>3. feed' = [todo |-> feed.todo \ {u}, tick |-> feed.tick]
  BY <1>0, <1>1 DEF FeedType
<1> QED BY <1>1, <1>2, <1>3 DEF CalledNext

\* A callback to be made is one of before, or that of a subscription.
LEMMA CallbacksKnown ==
  ASSUME TypeOK, [Next]_vars
  PROVE  feed'.todo \subseteq Known
<1>1. ASSUME NEW c \in Coins, OnEvent(c) PROVE feed'.todo \subseteq registry
  BY <1>1 DEF OnEvent, Snapshot
<1>2. Callback => feed'.todo \subseteq feed.todo
  BY CallbackMoves
<1> QED BY <1>1, <1>2, FeedFrame DEF Known

LEMMA TokensKnownStep == RunInv /\ TokensKnown /\ [Next]_vars => TokensKnown'
<1> SUFFICES ASSUME RunInv, TokensKnown, [Next]_vars PROVE TokensKnown'
  OBVIOUS
<1>0. /\ TypeOK /\ Unborn /\ InHooks /\ MainType /\ TokenType /\ FeedType
  BY TypeParts DEF RunInv
<1>1. feed'.todo \subseteq Known
  BY <1>0, CallbacksKnown
<1>2. main'.pc \in Boot => main.pc \in Boot
  BY <1>0, Departures DEF Boot, Aside, Along, Arrives, WalksOn
<1>3. main'.pc \in Boot => \A p \in Plugins, c \in Coins : seen'[p][c] = 0
  <2>1. CASE Callback
    <3>1. CASE main'.pc \in Boot
      <4>1. \A t \in feed.todo : t.owner = Prices
        BY <1>2, <3>1 DEF TokensKnown, Known
      <4>2. seen' = seen
        BY <1>0, <2>1, <4>1, CallbackMoves, SpecsFacts
      <4> QED BY <1>2, <4>2 DEF TokensKnown
    <3> QED BY <3>1
  <2>2. CASE \E c \in Coins : OnEvent(c)
    BY <1>2, <2>2 DEF OnEvent, TokensKnown
  <2>3. CASE seen' = seen
    BY <1>2, <2>3 DEF TokensKnown
  <2> QED BY <2>1, <2>2, <2>3, FeedFrame
<1>4. CASE registry' \subseteq registry /\ issued' = issued
  <2>1. Known' \subseteq Known
    BY <1>1, <1>4 DEF Known
  <2> QED BY <1>2, <1>3, <1>4, <2>1 DEF TokensKnown
<1>5. ASSUME NEW n,
             registry' = registry \cup {n}, n.id = issued', issued' = issued + 1,
             \/ n.owner = Prices /\ main.pc = "track"
             \/ n.owner \in Plugins /\ main.pc \notin Boot /\ main' = main
      PROVE  TokensKnown'
  <2>1. Known' \subseteq Known \cup {n}
    BY <1>1, <1>5 DEF Known
  <2>2. \A t \in registry' : t.id <= issued'
    <3>1. \A t \in registry : t.id <= issued /\ t.id \in Nat
      BY <1>0 DEF TokensKnown, TokenType, Tokens
    <3>2. issued \in Nat
      BY <1>0 DEF TokenType
    <3> QED BY <1>5, <3>1, <3>2
  <2>3. main'.pc \in Boot => \A t \in Known' : t.owner = Prices
    BY <1>2, <1>5, <2>1 DEF TokensKnown
  <2> QED BY <1>3, <2>2, <2>3 DEF TokensKnown
<1> QED BY <1>0, <1>4, <1>5, Newcomer

LEMMA PricesOldestStep == RunInv /\ TokensKnown /\ PricesOldest /\ [Next]_vars => PricesOldest'
<1> SUFFICES ASSUME RunInv, TokensKnown, PricesOldest, [Next]_vars,
                    NEW r \in registry', NEW t \in registry',
                    r.owner = Prices, t.owner # Prices, r.coin = t.coin
             PROVE  r.id < t.id
  BY DEF PricesOldest
<1>0. TypeOK /\ Unborn /\ InHooks /\ TokenType
  BY TypeParts DEF RunInv
<1>1. CASE r \in registry /\ t \in registry
  BY <1>1 DEF PricesOldest
<1>2. CASE r \notin registry \/ t \notin registry
  <2>1. PICK n : /\ registry' = registry \cup {n} /\ n.id = issued' /\ issued' = issued + 1
                 /\ \/ n.owner = Prices /\ main.pc = "track"
                    \/ n.owner \in Plugins /\ main.pc \notin Boot
    BY <1>0, <1>2, Newcomer
  <2>2. CASE n = r
    BY <2>1, <2>2, SpecsFacts DEF TokensKnown, Known, Boot
  <2>3. CASE n = t
    <3>1. r \in registry
      BY <2>1, <2>3
    <3>2. r.id \in Nat /\ issued \in Nat /\ r.id <= issued
      BY <1>0, <3>1 DEF TokenType, Tokens, TokensKnown
    <3> QED BY <2>1, <2>3, <3>2
  <2> QED BY <1>2, <2>1, <2>2, <2>3
<1> QED BY <1>1, <1>2

LEMMA TicksStep == TypeOK /\ Ticks /\ [Next]_vars => Ticks'
<1> SUFFICES ASSUME TypeOK, Ticks, [Next]_vars PROVE Ticks'
  OBVIOUS
<1>0. FeedType /\ ticks \in Nat /\ feed.tick \in Nat
      /\ (\A p \in Plugins, c \in Coins : seen[p][c] \in Nat) /\ (\A c \in Coins : mark[c] \in Nat)
  BY TypeParts, LifecycleAssumption DEF FeedType
<1>1. CASE Callback
  <2>1. PICK u \in feed.todo :
          /\ feed'.todo = feed.todo \ {u} /\ feed'.tick = feed.tick
          /\ \/ seen' = seen /\ mark' = [mark EXCEPT ![u.coin] = feed.tick]
             \/ mark' = mark /\ seen' = [seen EXCEPT ![u.owner][u.coin] = feed.tick]
          /\ ticks' = ticks
    BY <1>1, CallbackMoves
  <2>2. feed.tick = ticks
    BY <2>1 DEF Ticks
  <2>3. \A p \in Plugins, c \in Coins : seen'[p][c] <= ticks
    BY <1>0, <2>1, <2>2 DEF FeedType, Ticks
  <2>4. \A c \in Coins : mark'[c] <= ticks
    BY <1>0, <2>1, <2>2 DEF FeedType, Ticks
  <2> QED BY <2>1, <2>2, <2>3, <2>4 DEF Ticks
<1>2. ASSUME NEW c \in Coins, OnEvent(c) PROVE Ticks'
  <2>1. ticks' = ticks + 1 /\ feed'.tick = ticks' /\ seen' = seen /\ mark' = mark
    BY <1>2 DEF OnEvent
  <2> QED BY <1>0, <2>1 DEF Ticks
<1>3. CASE UNCHANGED <<feed, ticks, mark, seen>>
  BY <1>3 DEF Ticks
<1> QED BY <1>1, <1>2, <1>3, FeedFrame

LEMMA PricesCalledStep == RunInv /\ MidsInv /\ [Next]_vars => PricesCalled'
<1> SUFFICES ASSUME RunInv, MidsInv, [Next]_vars, NEW t \in feed'.todo,
                    t.owner # Prices, Tracked(t.coin)'
             PROVE  \/ mark'[t.coin] >= feed'.tick
                    \/ \E r \in feed'.todo :
                         r.owner = Prices /\ r.coin = t.coin /\ r.id < t.id
  BY DEF PricesCalled
<1>0. /\ TypeOK /\ Unborn /\ InHooks /\ FeedType /\ TokenType
      /\ TokensKnown /\ PricesOldest /\ PricesCalled
  BY TypeParts DEF RunInv, MidsInv
<1>1. CASE Callback
  <2>1. PICK u \in feed.todo :
          /\ feed'.todo = feed.todo \ {u} /\ feed'.tick = feed.tick
          /\ \/ /\ u.owner = Prices /\ u.coin \in Coins
                /\ mark' = [mark EXCEPT ![u.coin] = feed.tick]
             \/ u.owner \in Plugins /\ mark' = mark
          /\ UNCHANGED registry
    BY <1>0, <1>1, CallbackMoves
  <2>2. t \in feed.todo /\ Tracked(t.coin) /\ t.coin \in Coins
    BY <1>0, <2>1 DEF Tracked, FeedType, Tokens
  <2>3. feed.tick \in Nat /\ mark \in [Coins -> Nat]
    BY <1>0, LifecycleAssumption DEF FeedType
  <2>4. CASE mark[t.coin] >= feed.tick
    BY <2>1, <2>2, <2>3, <2>4
  <2>5. CASE \E r \in feed.todo : r.owner = Prices /\ r.coin = t.coin /\ r.id < t.id
    <3>1. PICK r \in feed.todo : r.owner = Prices /\ r.coin = t.coin /\ r.id < t.id
      BY <2>5
    <3>2. CASE r = u
      BY <2>1, <2>2, <2>3, <3>1, <3>2, SpecsFacts
    <3>3. CASE r # u
      BY <2>1, <3>1, <3>3
    <3> QED BY <3>2, <3>3
  <2> QED BY <1>0, <2>2, <2>4, <2>5 DEF PricesCalled
<1>2. ASSUME NEW c \in Coins, OnEvent(c)
      PROVE  \E r \in feed'.todo : r.owner = Prices /\ r.coin = t.coin /\ r.id < t.id
  <2>1. feed'.todo = {s \in registry : s.coin = c} /\ registry' = registry
    BY <1>2 DEF OnEvent, Snapshot, services
  <2>2. PICK r \in registry : r.owner = Prices /\ r.coin = t.coin
    BY <2>1 DEF Tracked
  <2> QED BY <1>0, <2>1, <2>2 DEF PricesOldest
<1>3. CASE UNCHANGED <<feed, ticks, mark, seen>>
  <2>1. t \in feed.todo
    BY <1>3
  <2>2. CASE Tracked(t.coin)
    BY <1>0, <1>3, <2>1, <2>2 DEF PricesCalled
  <2>3. CASE main.pc = "track"
    BY <1>0, <2>1, <2>3 DEF TokensKnown, Known, Boot
  <2>4. PICK c : c = t.coin
    OBVIOUS
  <2> QED BY <1>0, <2>2, <2>3, <2>4, TrackedBefore
<1> QED BY <1>1, <1>2, <1>3, FeedFrame

LEMMA MidsFirstStep == RunInv /\ MidsInv /\ [Next]_vars => MidsFirst'
<1> SUFFICES ASSUME RunInv, MidsInv, [Next]_vars, NEW p \in Plugins, NEW c \in Coins, Tracked(c)'
             PROVE  seen'[p][c] <= mark'[c]
  BY DEF MidsFirst
<1>0. /\ TypeOK /\ Unborn /\ InHooks /\ FeedType
      /\ TokensKnown /\ PricesCalled /\ Ticks /\ MidsFirst
  BY TypeParts DEF RunInv, MidsInv
<1>a. /\ feed.tick \in Nat /\ mark \in [Coins -> Nat] /\ seen \in [Plugins -> [Coins -> Nat]]
      /\ ticks \in Nat
  <2>1. 0 .. MaxTicks \subseteq Nat
    BY LifecycleAssumption
  <2>2. /\ feed.tick \in 0 .. MaxTicks /\ ticks \in 0 .. MaxTicks
        /\ mark \in [Coins -> 0 .. MaxTicks] /\ seen \in [Plugins -> [Coins -> 0 .. MaxTicks]]
    BY <1>0 DEF FeedType
  <2> QED BY <2>1, <2>2
<1>1. CASE Callback
  <2>1. PICK u \in feed.todo :
          /\ u \in Tokens /\ \A other \in feed.todo : u.id <= other.id
          /\ \/ /\ u.owner = Prices /\ seen' = seen
                /\ mark' = [mark EXCEPT ![u.coin] = feed.tick]
             \/ /\ u.owner \in Plugins /\ mark' = mark
                /\ u.coin \in Coins /\ seen' = [seen EXCEPT ![u.owner][u.coin] = feed.tick]
          /\ UNCHANGED registry
    BY <1>0, <1>1, CallbackMoves
  <2>2. Tracked(c) /\ feed.tick = ticks /\ seen[p][c] <= mark[c]
    BY <1>0, <2>1 DEF Tracked, Ticks, MidsFirst
  <2>3. CASE u.owner = Prices
    BY <1>0, <1>a, <2>1, <2>2, <2>3, SpecsFacts DEF Ticks
  <2>4. CASE u.owner \in Plugins /\ (u.owner # p \/ u.coin # c)
    BY <1>a, <2>1, <2>2, <2>4, SpecsFacts
  <2>5. CASE u.owner = p /\ u.coin = c
    <3>1. u.owner # Prices /\ u.coin = c
      BY <2>5, SpecsFacts
    <3>2. \A r \in feed.todo : r.id \in Nat
      BY <1>0 DEF FeedType, Tokens
    <3>3. ~\E r \in feed.todo : r.id < u.id
      BY <2>1, <3>2
    <3>4. mark[u.coin] >= feed.tick
      BY <1>0, <2>1, <2>2, <3>1, <3>3 DEF PricesCalled
    <3>5. seen'[p][c] = feed.tick /\ mark' = mark
      BY <1>a, <2>1, <2>5, SpecsFacts
    <3> QED BY <1>0, <1>a, <3>1, <3>4, <3>5
  <2> QED BY <2>1, <2>3, <2>4, <2>5
<1>2. CASE UNCHANGED <<mark, seen>>
  <2>1. CASE Tracked(c)
    BY <1>0, <1>2, <2>1 DEF MidsFirst
  <2>2. CASE main.pc = "track"
    BY <1>0, <1>a, <1>2, <2>2 DEF TokensKnown, Boot
  <2> QED BY <1>0, <2>1, <2>2, TrackedBefore
<1> QED BY <1>1, <1>2, FeedFrame DEF OnEvent

LEMMA MidsStep == RunInv /\ MidsInv /\ [Next]_vars => MidsInv'
BY TokensKnownStep, PricesOldestStep, PricesCalledStep, TicksStep, MidsFirstStep
DEF MidsInv, RunInv

LEMMA MidsInit == Init => MidsInv
<1> SUFFICES ASSUME Init PROVE MidsInv
  OBVIOUS
<1>1. /\ registry = {} /\ feed.todo = {} /\ ticks = 0
      /\ \A p \in Plugins, c \in Coins : seen[p][c] = 0
      /\ \A c \in Coins : mark[c] = 0
  BY DEF Init, NoTick
<1> QED
  BY <1>1
  DEF MidsInv, TokensKnown, Known, PricesOldest, PricesCalled, Ticks, MidsFirst, Tracked

-----------------------------------------------------------------------------
(* The theorems                                                            *)

LEMMA Invariance == Spec => []IInv
<1>1. Init => IInv
  BY RunInit, StopInit, MidsInit DEF IInv
<1>2. IInv /\ [Next]_vars => IInv'
  BY RunStep, StopInvStep, MidsStep DEF IInv
<1> QED BY <1>1, <1>2, PTL DEF Spec

\* Every variable keeps its type, whatever hooks, ticks and failing services do to
\* the start, the run and the stop of the platform (core.py:196-228).
THEOREM TypeInvariance == Spec => []TypeOK
<1>1. IInv => TypeOK
  BY DEF IInv, RunInv
<1> QED BY <1>1, Invariance, PTL

\* However start and stop end, a plugin that is not left behind runs with the event
\* stream up and the tracker subscribed to its coin: Platform.start makes both
\* before the first thread, and Platform.stop takes them away after the last join
\* (core.py:196-228).
THEOREM RunsOnItsServices == Spec => []ReadyBeforeTrading
<1>1. IInv => ReadyBeforeTrading
  BY DEF IInv, RunInv
<1> QED BY <1>1, Invariance, PTL

\* Once the store is closed nobody begins to use it: Platform.stop closes it after
\* the joins, the stream and the tracker, so what may still call it is what was
\* already at it, plugins left behind, the tick in hand and the fill that the event
\* stream is about to record (core.py:215-228, order_manager.py:138-152).
THEOREM NobodyBeginsAfterClose == Spec => StoreClosedLast
<1>1. ASSUME IInv, IInv', [Next]_vars, store' = "closed"
      PROVE  /\ Alive' \subseteq quarantined'
             /\ store = "closed" => StoreUsers' \subseteq StoreUsers
  <2>1. Alive' \subseteq quarantined'
    BY <1>1 DEF IInv, RunInv, StopInv, Closing, Joined, AfterRelease
  <2> SUFFICES ASSUME store = "closed" PROVE StoreUsers' \subseteq StoreUsers
    BY <2>1
  <2>2. TypeOK /\ main.pc = "stopped" /\ stream # "up"
    BY <1>1 DEF IInv, RunInv, StopInv, Closing
  <2>3. Alive' \subseteq Alive
    BY <1>1, <2>2, OldThreads DEF Spawn
  <2>4. Prices \in {t.owner : t \in feed'.todo} => Prices \in {t.owner : t \in feed.todo}
    <3>1. \A t \in registry : t.owner # Prices
      BY <1>1, <2>2 DEF IInv, StopInv, PricesTokens
    <3> QED BY <1>1, <2>2, <3>1, CallbacksKnown DEF Known
  <2>5. fills = "idle" => fills' = "idle"
    <3>1. CASE StreamStep
      BY <2>2, <3>1 DEF StreamStep, UserFills, Persist, Notify, FillLost, FillStep
    <3>2. ASSUME NEW p \in Plugins, Subscribe(p) \/ PlatformStep(p) \/ HookEnds(p)
          PROVE  fills' = fills
      BY <3>2 DEF Subscribe, PlatformStep, Subscribed, AppendToken, Loop, Get, Goes, HookEnds,
         feedVars
    <3>3. CASE Callback \/ (\E c \in Coins : OnEvent(c)) \/ UNCHANGED vars
      BY <3>3 DEF Callback, OnEvent, vars
    <3> QED BY <1>1, <3>1, <3>2, <3>3, NextSteps, MainStepFrame DEF OtherStep
  <2> QED BY <2>3, <2>4, <2>5 DEF StoreUsers
<1> QED BY <1>1, Invariance, PTL DEF Spec, StoreClosedLast

\* A stop that raises does so with every plugin joined or left behind and with the
\* store open: what may raise comes after the joins and before the close
\* (core.py:215-228).
THEOREM RaisesBetweenJoinAndClose == Spec => []RaisedStop
<1>1. IInv => RaisedStop
  <2> SUFFICES ASSUME IInv, main.pc = "raised", flagged # {}
               PROVE  /\ Started \subseteq farewell \cup quarantined
                      /\ Alive \subseteq quarantined /\ store = "open"
    BY DEF RaisedStop
  <2>1. /\ ThreadType /\ SetType /\ InHooks /\ Closing /\ Alive \subseteq quarantined
    BY TypeParts DEF IInv, RunInv, StopInv, Joined
  <2>2. ASSUME NEW p \in Started, p \notin Alive PROVE p \in farewell
    BY <2>1, <2>2 DEF Started, Alive, InHooks
  <2> QED BY <2>1, <2>2 DEF Closing, SetType
<1> QED BY <1>1, Invariance, PTL

\* A stop that comes to its end leaves neither a subscription nor a plugin without
\* its on_stop, but for the plugins whose join timed out: unsubscribe_all finds
\* every token although plugins subscribe while it runs (core.py:121-135, 215-228,
\* context.py:26-29, 43-46).
THEOREM StopLeavesNothing == Spec => []CleanStop
<1>1. IInv => CleanStop
  <2> SUFFICES ASSUME IInv, main.pc = "stopped"
               PROVE  Owners \subseteq quarantined /\ Started \subseteq farewell \cup quarantined
    BY DEF CleanStop
  <2>0. /\ TokenType /\ ThreadType /\ InHooks /\ PluginTokens /\ PricesTokens
        /\ Alive \subseteq quarantined
    BY TypeParts DEF IInv, RunInv, StopInv, Joined, AfterRelease
  <2>1. ASSUME NEW t \in registry PROVE t.owner \in quarantined
    <3> SUFFICES ASSUME t.owner \notin quarantined PROVE FALSE
      OBVIOUS
    <3>1. t.owner \in Plugins
      BY <2>0 DEF TokenType, Tokens, PricesTokens
    <3>2. PICK i \in DOMAIN Specs : Specs[i] = t.owner
      BY <3>1, SpecsFacts
    <3>3. Kept(i, t)
      BY <2>0, <3>2 DEF PluginTokens
    <3>4. thread[t.owner].sub = "appending"
      BY <3>2, <3>3 DEF Kept, BeforeRelease, Boot, Releasing
    <3>5. t.owner \in Alive
      BY <2>0, <3>1, <3>4 DEF InHooks, Alive, Started, Hooks
    <3> QED BY <2>0, <3>5
  <2>2. Started \subseteq farewell \cup quarantined
    <3>1. ASSUME NEW p \in Started, p \notin Alive PROVE p \in farewell
      BY <2>0, <3>1 DEF Started, Alive, InHooks
    <3> QED BY <2>0, <3>1
  <2> QED BY <2>1, <2>2 DEF Owners
<1> QED BY <1>1, Invariance, PTL

\* A plugin never decides on a tick that the tracker of the mids has not heard of,
\* while the tracker is subscribed to that coin: its token is the older one
\* and the fan-out calls in the order of the tokens (core.py:203-206,
\* market_data.py:68-71, 96-105).
THEOREM MidsComeFirst == Spec => []MidsFirst
<1>1. IInv => MidsFirst
  BY DEF IInv, MidsInv
<1> QED BY <1>1, Invariance, PTL

=============================================================================
