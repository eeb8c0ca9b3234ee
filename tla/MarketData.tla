----------------------------- MODULE MarketData -----------------------------
(***************************************************************************)
(* The shared market data connection (services/market_data.py):            *)
(* MarketDataService, whose subscribe and unsubscribe run under one lock,  *)
(* and LiveMarketFeed, whose _on_disconnect runs on the websocket thread   *)
(* of the connection that dropped and reconnects without that lock.        *)
(*                                                                         *)
(* A connection is the SDK's Info object with its websocket.  Opening one  *)
(* takes a while, and only then are its close and error handlers set.      *)
(* Disturbances names what the environment may do to the service:          *)
(*   overlap  subscribe and unsubscribe run while a drop is being handled  *)
(*   again    the new connection drops while a drop is being handled       *)
(*   twice    one drop is reported to on_error and to on_close             *)
(*   early    a connection drops before its handlers are set               *)
(*   late     a connection the service closed reports it after the next    *)
(*            subscribe                                                    *)
(*   unready  a feed is let go while its socket has not opened yet, which  *)
(*            the SDK refuses; as a bound, while it carries the feed once  *)
(***************************************************************************)
EXTENDS Integers, FiniteSets

CONSTANTS
  Keys,         \* (coin, feed) pairs
  Tokens,       \* subscribers; a token is used again once unsubscribed
  Conns,        \* bound: the connections ever opened
  Disturbances

None == "none"

ASSUME MarketAssumption ==
  /\ None \notin Conns
  /\ Disturbances \subseteq {"overlap", "again", "twice", "early", "late", "unready"}

VARIABLES
  connected,  \* MarketDataService._connected
  keys,       \* the keys of _subs
  subs,       \* key -> the tokens under it
  call,       \* who is inside subscribe, holding _lock, and how far
  info,       \* LiveMarketFeed._info
  sids,       \* the keys of _sids
  closing,    \* LiveMarketFeed._closing
  conn,       \* connection -> its state at both ends
  recovery,   \* connection -> what its thread is doing in _on_disconnect
  hit         \* history: which of the Disturbances have happened

vars == <<connected, keys, subs, call, info, sids, closing, conn, recovery,
          hit>>
feedVars == <<info, sids, closing, conn>>
registryVars == <<connected, keys, subs>>

NoCall == [pc |-> "free", key |-> None, token |-> None]
NoRecovery == [pc |-> "idle", keys |-> {}, todo |-> {}]
Unused == [state |-> "unused", hooked |-> FALSE, due |-> 0, up |-> [k \in Keys |-> 0]]

Init ==
  /\ connected = FALSE /\ keys = {}
  /\ subs = [k \in Keys |-> {}]
  /\ call = NoCall
  /\ info = None /\ sids = {} /\ closing = FALSE
  /\ conn = [c \in Conns |-> Unused]
  /\ recovery = [c \in Conns |-> NoRecovery]
  /\ hit = {}

Live(c) == c # None /\ conn[c].state = "open"

\* Every drop and close has been reported, and every report dealt with.
Settled == \A c \in Conns : conn[c].due = 0 /\ recovery[c].pc = "idle"

\* All that is left to be reported is the closing of a connection on purpose.
OnlyCloses == closing /\ \A c \in Conns : recovery[c].pc = "idle"

Hit(names) == names \subseteq Disturbances /\ hit' = hit \cup names

\* Nobody holds the service's lock, and a call now, which meets the names in with
\* besides, is no more than what Disturbances allows.
MayCall(with) ==
  /\ call = NoCall
  /\ Hit(with \cup IF Settled THEN {} ELSE IF OnlyCloses THEN {"late"} ELSE {"overlap"})

-----------------------------------------------------------------------------
(* LiveMarketFeed.  The feed's own calls take no lock.                     *)

\* connect, up to the new Info.
Open(c) ==
  /\ conn[c] = Unused
  /\ conn' = [conn EXCEPT ![c].state = "open"]
  /\ info' = c /\ sids' = {} /\ closing' = FALSE

OpenFails == sids' = {} /\ closing' = FALSE /\ UNCHANGED <<info, conn>>

\* connect, the rest: handlers for the connection _info names by now.
Hook == conn' = [conn EXCEPT ![info].hooked = TRUE] /\ UNCHANGED <<info, sids, closing>>

\* Mutant of UpstreamSubscribe: the sid is not remembered.
UpstreamWithoutSid(k) ==
  /\ \/ Live(info) /\ conn' = [conn EXCEPT ![info].up[k] = @ + 1]
     \/ info # None /\ ~Live(info) /\ UNCHANGED conn
  /\ UNCHANGED <<info, sids, closing>>

\* subscribe; on a socket that has dropped it may seem to succeed.
UpstreamSubscribe(k) ==
  /\ \/ Live(info) /\ conn' = [conn EXCEPT ![info].up[k] = @ + 1]
     \/ info # None /\ ~Live(info) /\ UNCHANGED conn
  /\ sids' = sids \cup {k}
  /\ UNCHANGED <<info, closing>>

\* It raises without a connection, and may on one that has dropped.
UpstreamRaises == ~Live(info) /\ UNCHANGED feedVars

\* unsubscribe and disconnect, as one call of the service's unsubscribe has
\* them: release says whether the last key is gone.
Without(k, c) ==
  [conn[c] EXCEPT !.up[k] = IF k \in sids /\ @ > 0 THEN @ - 1 ELSE @]
Closed(record) ==
  [record EXCEPT !.state = "dropped", !.due = IF record.hooked /\ record.state = "open" THEN 1 ELSE @]

Release(k, all) ==
  /\ sids' = sids \ {k}
  /\ conn' = IF info = None THEN conn
             ELSE [conn EXCEPT ![info] = IF all THEN Closed(Without(k, info))
                                                ELSE Without(k, info)]
  /\ closing' = (closing \/ all)
  /\ info' = IF all THEN None ELSE info

\* On a socket that has dropped the unsubscription may raise, and on one that is
\* not open yet it does, with the sid gone.
ReleaseRaises(k) ==
  /\ k \in sids /\ info # None /\ (Live(info) => conn[info].up[k] = 1)
  /\ sids' = sids \ {k}
  /\ UNCHANGED <<info, closing, conn>>

-----------------------------------------------------------------------------
(* MarketDataService.subscribe and unsubscribe.                            *)

Subscribe(k, t) ==
  /\ MayCall({})
  /\ \A key \in Keys : t \notin subs[key]
  /\ \/ /\ connected
        /\ call' = [pc |-> "register", key |-> k, token |-> t]
        /\ UNCHANGED feedVars
     \/ /\ ~connected
        /\ \E c \in Conns : Open(c)
        /\ call' = [pc |-> "hook", key |-> k, token |-> t]
     \/ /\ ~connected
        /\ OpenFails
        /\ UNCHANGED call
  /\ UNCHANGED <<registryVars, recovery>>

CallHook ==
  /\ call.pc = "hook"
  /\ Hook
  /\ connected' = TRUE
  /\ call' = [call EXCEPT !.pc = "register"]
  /\ UNCHANGED <<keys, subs, recovery, hit>>

\* The key is entered before the upstream subscription, the token after it.
Register ==
  /\ call.pc = "register"
  /\ keys' = keys \cup {call.key}
  /\ \/ /\ call.key \in keys /\ UNCHANGED feedVars
        /\ subs' = [subs EXCEPT ![call.key] = @ \cup {call.token}]
     \/ /\ call.key \notin keys /\ UpstreamSubscribe(call.key)
        /\ subs' = [subs EXCEPT ![call.key] = {call.token}]
     \/ /\ call.key \notin keys /\ UpstreamRaises
        /\ UNCHANGED subs
  /\ call' = NoCall
  /\ UNCHANGED <<connected, recovery, hit>>

\* Mutant of Unsubscribe: the last to leave a key leaves it in the registry.
UnsubscribeKeepingKey(k, t) ==
  LET last == subs[k] = {t}
      all == \A key \in Keys : subs[key] \subseteq {t} /\ connected IN
  /\ MayCall({}) /\ t \in subs[k]
  /\ subs' = [subs EXCEPT ![k] = @ \ {t}]
  /\ \/ last /\ Release(k, all)
     \/ ~last /\ UNCHANGED feedVars
  /\ connected' = (connected /\ ~all)
  /\ UNCHANGED <<keys, call, recovery>>

\* Under the lock from start to end; an exception leaves the connection up.
Unsubscribe(k, t) ==
  LET last == subs[k] = {t}
      all == last /\ keys = {k} /\ connected IN
  /\ t \in subs[k]
  /\ subs' = [subs EXCEPT ![k] = @ \ {t}]
  /\ \/ /\ last /\ keys' = keys \ {k} /\ Release(k, all)
        /\ MayCall({})
        /\ connected' = (connected /\ ~all)
     \/ /\ last /\ keys' = keys \ {k} /\ ReleaseRaises(k)
        /\ MayCall(IF Live(info) THEN {"unready"} ELSE {})
        /\ UNCHANGED connected
     \/ ~last /\ MayCall({}) /\ UNCHANGED <<keys, feedVars, connected>>
  /\ UNCHANGED <<call, recovery>>

-----------------------------------------------------------------------------
(* A connection drops; _on_disconnect runs once for each report.           *)

Drop(c) ==
  /\ Live(c)
  /\ \E reports \in 1 .. 2 :
       /\ conn' = [conn EXCEPT ![c].state = "dropped",
                               ![c].due = IF conn[c].hooked THEN reports ELSE 0]
       /\ Hit({name \in {"early", "overlap", "again", "twice"} :
                CASE name = "early" -> ~conn[c].hooked
                  [] name = "overlap" -> conn[c].hooked /\ call # NoCall
                  [] name = "again" -> conn[c].hooked /\ ~Settled
                  [] name = "twice" -> conn[c].hooked /\ reports = 2})
  /\ UNCHANGED <<registryVars, call, info, sids, closing, recovery>>

\* _notify_disconnect, and _on_disconnect up to the end of its first lock.
Report(c) ==
  /\ conn[c].due > 0 /\ recovery[c].pc = "idle"
  /\ conn' = [conn EXCEPT ![c].due = @ - 1]
  /\ \/ /\ closing
        /\ UNCHANGED <<connected, recovery>>
     \/ /\ ~closing /\ call = NoCall
        /\ connected' = FALSE
        /\ recovery' = [recovery EXCEPT ![c] =
             IF keys = {} THEN @ ELSE [pc |-> "open", keys |-> keys, todo |-> {}]]
  /\ UNCHANGED <<keys, subs, call, info, sids, closing, hit>>

Again(c) == recovery' = [recovery EXCEPT ![c].pc = "open", ![c].todo = {}]

Reconnect(c) ==
  /\ recovery[c].pc = "open"
  /\ \/ /\ \E d \in Conns : Open(d)
        /\ recovery' = [recovery EXCEPT ![c].pc = "hook"]
     \/ OpenFails /\ Again(c)
  /\ UNCHANGED <<registryVars, call, hit>>

RecoveryHook(c) ==
  /\ recovery[c].pc = "hook"
  /\ \/ /\ info # None /\ Hook
        /\ recovery' = [recovery EXCEPT ![c].pc = "resubscribe", ![c].todo = recovery[c].keys]
     \/ info = None /\ UNCHANGED feedVars /\ Again(c)
  /\ UNCHANGED <<registryVars, call, hit>>

Resubscribe(c, k) ==
  /\ recovery[c].pc = "resubscribe" /\ k \in recovery[c].todo
  /\ \/ UpstreamSubscribe(k) /\ recovery' = [recovery EXCEPT ![c].todo = @ \ {k}]
     \/ UpstreamRaises /\ Again(c)
  /\ UNCHANGED <<registryVars, call, hit>>

\* Mutant of Recovered: connected is left as the drop set it.
RecoveredSilently(c) ==
  /\ recovery[c].pc = "resubscribe" /\ recovery[c].todo = {} /\ call = NoCall
  /\ recovery' = [recovery EXCEPT ![c] = NoRecovery]
  /\ UNCHANGED <<registryVars, call, feedVars, hit>>

Recovered(c) ==
  /\ recovery[c].pc = "resubscribe" /\ recovery[c].todo = {} /\ call = NoCall
  /\ connected' = TRUE
  /\ recovery' = [recovery EXCEPT ![c] = NoRecovery]
  /\ UNCHANGED <<keys, subs, call, feedVars, hit>>

-----------------------------------------------------------------------------
Next ==
  \/ \E k \in Keys, t \in Tokens : Subscribe(k, t) \/ Unsubscribe(k, t)
  \/ CallHook \/ Register
  \/ \E c \in Conns :
       \/ Drop(c) \/ Report(c) \/ Reconnect(c) \/ RecoveryHook(c) \/ Recovered(c)
       \/ \E k \in Keys : Resubscribe(c, k)

Spec == Init /\ [][Next]_vars
-----------------------------------------------------------------------------
Connections == [state : {"unused", "open", "dropped"}, hooked : BOOLEAN, due : 0 .. 2,
                up : [Keys -> Nat]]
Recoveries == [pc : {"idle", "open", "hook", "resubscribe"}, keys : SUBSET Keys,
               todo : SUBSET Keys]

TypeOK ==
  /\ connected \in BOOLEAN /\ keys \subseteq Keys /\ subs \in [Keys -> SUBSET Tokens]
  /\ call \in {NoCall} \cup [pc : {"hook", "register"}, key : Keys, token : Tokens]
  /\ info \in Conns \cup {None} /\ sids \subseteq Keys /\ closing \in BOOLEAN
  /\ conn \in [Conns -> Connections] /\ recovery \in [Conns -> Recoveries]
  /\ hit \subseteq Disturbances

\* Nobody is inside the service and nothing is left to report.
Quiet == call = NoCall /\ Settled

Subscribed == {k \in Keys : subs[k] # {}}

\* "Resubscribes every active feed" (market_data.py:14-15): nobody who has
\* subscribed is left without the feed once the dust has settled.
EveryFeedResubscribed ==
  Quiet => \A k \in Subscribed : \E c \in Conns : Live(c) /\ conn[c].up[k] > 0

\* That is so whatever drops, how often, and in how many reports, unless
\* subscribers come and go during a recovery or a drop goes unreported
\* (market_data.py:58-86, 107-128).
Covered == hit \cap {"overlap", "early"} = {} => EveryFeedResubscribed

\* There is one connection for everybody, and it carries each feed once, unless a
\* recovery meets another one, another drop or a subscriber, the report of a close
\* is late, or a feed is let go before its socket has opened: then it stays on the
\* wire, and comes twice after the next subscribe (market_data.py:3-7, 58-86,
\* 107-128, 166-169).
OneCopy ==
  hit \cap {"overlap", "again", "twice", "late", "unready"} = {} =>
    (Quiet => \A c, d \in Conns :
                Live(c) /\ Live(d) => c = d /\ \A k \in Keys : conn[c].up[k] <= 1)

\* "Connected only when needed" (market_data.py:8-9), and the status page says so:
\* somebody is subscribed, _connected is set and a connection is there, all three
\* or none.  A second connection, once there, is never closed: this survives drops
\* one at a time and nothing else (market_data.py:73-94, 107-128).
OnDemand ==
  hit = {} =>
    (Quiet => /\ (Subscribed # {}) = connected
              /\ connected <=> \E c \in Conns : Live(c))
=============================================================================
