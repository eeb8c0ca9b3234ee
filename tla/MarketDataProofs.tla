-------------------------- MODULE MarketDataProofs --------------------------
(***************************************************************************)
(* The market data connection keeps its subscribers covered, once each and *)
(* only when needed, within the disturbances each property allows.         *)
(*                                                                         *)
(* Two invariants carry this, each under the disturbances it survives.     *)
(* CoverInv: every key in the registry is delivered, or somebody is bound  *)
(* to resubscribe it, and a connection the feed has lost is known to be    *)
(* lost.  CopyInv: one thread at a time opens a connection, and only when  *)
(* none is live, so the live one is the feed's and has each key once.      *)
(***************************************************************************)
EXTENDS MarketData, TLAPS

\* A drop of c is to be reported, or one is being handled.
Busy(c) == conn[c].due > 0 \/ recovery[c].pc # "idle"

\* A feed closed on purpose has let go of its connection.
ClosedLetsGo == closing => info = None

-----------------------------------------------------------------------------
(* What keeps every subscriber covered.                                    *)

\* Every drop so far was reported, and with nobody inside the service.
Heard == hit \cap {"overlap", "early"} = {}

\* Between two steps a key is registered just when somebody has it, and a
\* connection in use has keys or a caller about to add one, unless the last key
\* was refused its release.
KeysSubscribed ==
  /\ keys = Subscribed
  /\ closing => keys = {}
  /\ connected => info # None /\ (keys # {} \/ call # NoCall \/ "unready" \in hit)

\* Whoever is inside subscribe has a live connection and no recovery beside it.
CallAlone ==
  call # NoCall => Live(info) /\ \A c \in Conns : recovery[c].pc = "idle"

\* The keys a recovery took are still the keys, and once it has opened a
\* connection there is one.
RecoveryKnows ==
  \A c \in Conns : recovery[c].pc # "idle" =>
    /\ recovery[c].keys = keys /\ keys # {}
    /\ recovery[c].pc # "open" => info # None

\* A dead connection in _info is about to be reported or replaced, or it no
\* longer matters.
DropNoticed ==
  info # None /\ ~Live(info) =>
    \/ conn[info].due > 0 \/ recovery[info].pc = "open"
    \/ keys = {} /\ ~connected

\* Somebody delivers k, or will notice that nobody does and resubscribe it.
Promised(k) ==
  \E c \in Conns :
    \/ Live(c) /\ conn[c].up[k] > 0
    \/ conn[c].due > 0
    \/ recovery[c].pc \in {"open", "hook"}
    \/ recovery[c].pc = "resubscribe" /\ k \in recovery[c].todo

CoverInv ==
  Heard =>
    /\ KeysSubscribed /\ CallAlone /\ RecoveryKnows /\ DropNoticed
    /\ \A k \in keys : Promised(k)

-----------------------------------------------------------------------------
(* What keeps the connections down to one.                                 *)

\* One drop at a time, reported once, with nobody else about.
Orderly == hit \cap {"overlap", "again", "twice", "late", "unready"} = {}

\* There is one report or recovery at most, and none during a call.
OneAtATime ==
  /\ \A c \in Conns : conn[c].due <= 1 /\ (conn[c].due = 1 => recovery[c].pc = "idle")
  /\ \A c, d \in Conns : Busy(c) /\ Busy(d) => c = d
  /\ call # NoCall => Settled

\* The one live connection is the feed's; nobody is about to open another, and
\* somebody owns up to this one.
LiveIsInfo ==
  \A c \in Conns : Live(c) =>
    /\ c = info
    /\ \A d \in Conns : conn[d].due = 0 /\ recovery[d].pc # "open"
    /\ \/ connected \/ call.pc = "hook"
       \/ \E d \in Conns : recovery[d].pc \in {"hook", "resubscribe"}

\* A connection is open that carries nothing yet.
Opening == call.pc = "hook" \/ \E d \in Conns : recovery[d].pc = "hook"

\* A key on the wire is registered, its sid is known, and nobody is about to
\* subscribe it again.
OncePerKey ==
  \A k \in Keys : Live(info) /\ conn[info].up[k] > 0 =>
    /\ conn[info].up[k] = 1
    /\ k \in keys /\ k \in sids /\ ~Opening
    /\ \A d \in Conns : recovery[d].pc = "resubscribe" => k \notin recovery[d].todo

\* A recovery works on the keys there are.
RecoveryKeys ==
  \A c \in Conns : recovery[c].pc # "idle" => recovery[c].keys = keys /\ recovery[c].todo \subseteq keys

CopyInv == Orderly => OneAtATime /\ LiveIsInfo /\ OncePerKey /\ RecoveryKeys

IInv == TypeOK /\ ClosedLetsGo /\ CoverInv /\ CopyInv
-----------------------------------------------------------------------------
(* What each operation does to the connections and the recoveries, field   *)
(* by field.                                                               *)

Connection(state, hooked, due, up) ==
  [state |-> state, hooked |-> hooked, due |-> due, up |-> up]

\* Connection c becomes r and the others stay; likewise a recovery.
Becomes(c, r) == conn' = [d \in Conns |-> IF d = c THEN r ELSE conn[d]]
Recovers(c, r) == recovery' = [d \in Conns |-> IF d = c THEN r ELSE recovery[d]]

\* The upstream subscriptions of a connection just opened.
NoFeeds == [k \in Keys |-> 0]

\* A connection is the record of its four fields.
LEMMA ConnFields ==
  ASSUME TypeOK, NEW c \in Conns
  PROVE  /\ conn[c] = Connection(conn[c].state, conn[c].hooked, conn[c].due, conn[c].up)
         /\ conn[c] \in Connections /\ DOMAIN conn = Conns /\ None \notin Conns
         /\ DOMAIN conn[c].up = Keys /\ \A k \in Keys : conn[c].up[k] \in Nat
BY MarketAssumption DEF TypeOK, Connections, Connection

\* Opening a connection: it was unused, and carries nothing.
LEMMA OpenMoves ==
  ASSUME TypeOK, NEW c \in Conns, Open(c)
  PROVE  /\ conn[c].state = "unused" /\ conn[c].due = 0
         /\ Becomes(c, Connection("open", FALSE, 0, NoFeeds))
         /\ info' = c /\ sids' = {} /\ closing' = FALSE
<1>1. conn[c] = Connection("unused", FALSE, 0, NoFeeds)
  BY DEF Open, Unused, Connection, NoFeeds
<1>2. conn'[c] = [conn[c] EXCEPT !.state = "open"]
  BY ConnFields DEF Open
<1>3. conn'[c] = Connection("open", FALSE, 0, NoFeeds)
  <2> DEFINE r == Connection("unused", FALSE, 0, NoFeeds)
  <2>1. conn'[c] = [r EXCEPT !.state = "open"]
    BY <1>1, <1>2
  <2> QED BY <2>1 DEF Connection
<1>4. DOMAIN conn' = Conns /\ \A d \in Conns : d # c => conn'[d] = conn[d]
  BY ConnFields DEF Open
<1>5. conn[c].state = "unused" /\ conn[c].due = 0
  BY <1>1 DEF Connection
<1>6. conn' = [d \in Conns |-> conn'[d]]
  BY <1>4 DEF Open
<1> QED BY <1>3, <1>4, <1>5, <1>6 DEF Open, Becomes

\* Setting the handlers touches nothing else.
LEMMA HookMoves ==
  ASSUME TypeOK, Hook
  PROVE  /\ info = None => conn' = conn
         /\ info \in Conns =>
              Becomes(info, Connection(conn[info].state, TRUE, conn[info].due, conn[info].up))
         /\ UNCHANGED <<info, sids, closing>>
<1>1. CASE info = None
  <2>1. None \notin Conns
    BY MarketAssumption
  <2>2. conn \in [Conns -> Connections] /\ conn' = [conn EXCEPT ![None].hooked = TRUE]
    BY <1>1 DEF Hook, TypeOK
  <2>3. conn' = conn
    BY <2>1, <2>2
  <2> QED BY <1>1, <2>1, <2>3 DEF Hook
<1>2. CASE info \in Conns
  <2>1. conn'[info] = [conn[info] EXCEPT !.hooked = TRUE]
    BY <1>2, ConnFields DEF Hook
  <2>2. conn'[info] = Connection(conn[info].state, TRUE, conn[info].due, conn[info].up)
    BY <1>2, <2>1, ConnFields DEF Connection
  <2> QED BY <1>2, <2>2, ConnFields, MarketAssumption DEF Hook, Becomes
<1> QED BY <1>1, <1>2 DEF TypeOK

\* A subscription adds one to its key on a live connection, and nothing on a dead one.
LEMMA UpstreamMoves ==
  ASSUME TypeOK, NEW k \in Keys, UpstreamSubscribe(k)
  PROVE  /\ info \in Conns
         /\ ~Live(info) => conn' = conn
         /\ Live(info) =>
              Becomes(info, Connection("open", conn[info].hooked, conn[info].due,
                                       [conn[info].up EXCEPT ![k] = @ + 1]))
         /\ sids' = sids \cup {k} /\ UNCHANGED <<info, closing>>
<1>1. info \in Conns
  BY DEF UpstreamSubscribe, TypeOK, Live
<1>2. CASE Live(info)
  <2> DEFINE up == [conn[info].up EXCEPT ![k] = @ + 1]
             new == [conn[info] EXCEPT !.up = up]
  <2>1. conn' = [conn EXCEPT ![info] = new]
    BY <1>2 DEF UpstreamSubscribe
  <2> HIDE DEF up
  <2>2. conn'[info] = new
    <3> HIDE DEF new
    <3> QED BY <1>1, <2>1, ConnFields
  <2>3. conn'[info] = Connection("open", conn[info].hooked, conn[info].due, up)
    <3>1. conn[info] = Connection("open", conn[info].hooked, conn[info].due, conn[info].up)
      BY <1>1, <1>2, ConnFields DEF Live
    <3>2. [Connection("open", conn[info].hooked, conn[info].due, conn[info].up) EXCEPT !.up = up] =
            Connection("open", conn[info].hooked, conn[info].due, up)
      BY DEF Connection
    <3> QED BY <2>2, <3>1, <3>2
  <2>4. DOMAIN conn' = Conns /\ \A d \in Conns : d # info => conn'[d] = conn[d]
    <3> HIDE DEF new
    <3> QED BY <1>1, <2>1, ConnFields
  <2>5. Becomes(info, Connection("open", conn[info].hooked, conn[info].due, up))
    <3> HIDE DEF new
    <3> QED BY <1>1, <2>1, <2>3, <2>4, ConnFields DEF Becomes
  <2> USE DEF up
  <2> QED BY <1>1, <1>2, <2>5 DEF UpstreamSubscribe
<1> QED BY <1>1, <1>2 DEF UpstreamSubscribe

\* The last unsubscription of a key takes one off it, and the last of all closes.
LEMMA ReleaseMoves ==
  ASSUME TypeOK, NEW k \in Keys, NEW all \in BOOLEAN, Release(k, all)
  PROVE  /\ info = None => conn' = conn
         /\ info \in Conns => \E up \in [Keys -> Nat], due \in 0 .. 2 :
              /\ Becomes(info, Connection(IF all THEN "dropped" ELSE conn[info].state,
                                          conn[info].hooked, due, up))
              /\ due = IF all /\ conn[info].hooked /\ Live(info) THEN 1 ELSE conn[info].due
              /\ \A l \in Keys : l # k => up[l] = conn[info].up[l]
              /\ up[k] = IF k \in sids /\ conn[info].up[k] > 0 THEN conn[info].up[k] - 1 ELSE conn[info].up[k]
         /\ sids' = sids \ {k} /\ closing' = (closing \/ all)
         /\ info' = IF all THEN None ELSE info
<1>1. CASE info = None
  BY <1>1, MarketAssumption DEF Release
<1>2. CASE info \in Conns
  <2>0. info # None /\ info \in Conns
    BY <1>2, MarketAssumption
  <2> DEFINE up == [conn[info].up EXCEPT ![k] = IF k \in sids /\ @ > 0 THEN @ - 1 ELSE @]
             due == IF all /\ conn[info].hooked /\ conn[info].state = "open" THEN 1 ELSE conn[info].due
  <2>1. up \in [Keys -> Nat] /\ \A l \in Keys : l # k => up[l] = conn[info].up[l]
    <3>1. conn[info].up[k] \in Nat
      BY <2>0, ConnFields
    <3>2. (IF k \in sids /\ conn[info].up[k] > 0 THEN conn[info].up[k] - 1 ELSE conn[info].up[k]) \in Nat
      BY <3>1
    <3> QED BY <2>0, <3>2, ConnFields DEF Connections
  <2>2. up[k] = IF k \in sids /\ conn[info].up[k] > 0 THEN conn[info].up[k] - 1 ELSE conn[info].up[k]
    BY <2>0, ConnFields
  <2>3. due \in 0 .. 2
    BY <2>0, ConnFields DEF Connections
  <2>4. Without(k, info) = Connection(conn[info].state, conn[info].hooked, conn[info].due, up)
    <3>1. Without(k, info) = [conn[info] EXCEPT !.up = up]
      BY <2>0, ConnFields DEF Without
    <3> HIDE DEF up
    <3> QED BY <2>0, <3>1, ConnFields DEF Connection
  <2> HIDE DEF up
  <2>5. conn'[info] = Connection(IF all THEN "dropped" ELSE conn[info].state,
                                 conn[info].hooked, due, up)
    <3>1. CASE ~all
      BY <2>0, <2>4, <3>1, ConnFields DEF Release
    <3>2. CASE all
      <4>1. conn'[info] = Closed(Without(k, info))
        BY <2>0, <3>2, ConnFields DEF Release
      <4> DEFINE old == Connection(conn[info].state, conn[info].hooked, conn[info].due, up)
      <4>2. Closed(old) = [[old EXCEPT !.state = "dropped"] EXCEPT !.due = due]
        BY <3>2 DEF Closed, Connection
      <4>3. Closed(old) = Connection("dropped", conn[info].hooked, due, up)
        BY <4>2 DEF Connection
      <4> QED BY <2>4, <3>2, <4>1, <4>3
    <3> QED BY <3>1, <3>2
  <2>6. DOMAIN conn' = Conns /\ \A d \in Conns : d # info => conn'[d] = conn[d]
    BY <2>0, ConnFields DEF Release
  <2>7. Becomes(info, Connection(IF all THEN "dropped" ELSE conn[info].state,
                                 conn[info].hooked, due, up))
    BY <2>0, <2>5, <2>6, ConnFields DEF Becomes, Release
  <2>8. due = IF all /\ conn[info].hooked /\ Live(info) THEN 1 ELSE conn[info].due
    BY <2>0 DEF Live
  <2> HIDE DEF due
  <2> QED BY <2>0, <2>1, <2>2, <2>3, <2>7, <2>8 DEF Release
<1> QED BY <1>1, <1>2 DEF TypeOK

\* A drop, with what it says has happened.
LEMMA DropMoves ==
  ASSUME TypeOK, NEW c \in Conns, Drop(c)
  PROVE  /\ Live(c)
         /\ \E due \in 0 .. 2 :
              /\ Becomes(c, Connection("dropped", conn[c].hooked, due, conn[c].up))
              /\ conn[c].hooked <=> due > 0
              /\ due = 2 => "twice" \in hit'
         /\ hit \subseteq hit' /\ hit' \subseteq Disturbances
         /\ ~conn[c].hooked => "early" \in hit'
         /\ conn[c].hooked /\ call # NoCall => "overlap" \in hit'
         /\ conn[c].hooked /\ ~Settled => "again" \in hit'
<1>1. PICK reports \in 1 .. 2 :
        /\ conn' = [conn EXCEPT ![c].state = "dropped",
                                ![c].due = IF conn[c].hooked THEN reports ELSE 0]
        /\ Hit({name \in {"early", "overlap", "again", "twice"} :
                CASE name = "early" -> ~conn[c].hooked
                  [] name = "overlap" -> conn[c].hooked /\ call # NoCall
                  [] name = "again" -> conn[c].hooked /\ ~Settled
                  [] name = "twice" -> conn[c].hooked /\ reports = 2})
  BY DEF Drop
<1> DEFINE due == IF conn[c].hooked THEN reports ELSE 0
<1>2. conn'[c] = [[conn[c] EXCEPT !.state = "dropped"] EXCEPT !.due = due]
  BY <1>1, ConnFields
<1>3. conn'[c] = Connection("dropped", conn[c].hooked, due, conn[c].up)
  BY <1>2, ConnFields DEF Connection
<1>4. DOMAIN conn' = Conns /\ \A d \in Conns : d # c => conn'[d] = conn[d]
  BY <1>1, ConnFields
<1>5. Becomes(c, Connection("dropped", conn[c].hooked, due, conn[c].up))
  BY <1>1, <1>3, <1>4, ConnFields DEF Becomes
<1>6. due \in 0 .. 2 /\ (conn[c].hooked <=> due > 0) /\ (due = 2 => conn[c].hooked /\ reports = 2)
  BY ConnFields DEF Connections
<1>7. /\ hit \subseteq hit' /\ (TypeOK => hit' \subseteq Disturbances)
      /\ ~conn[c].hooked => "early" \in hit'
      /\ conn[c].hooked /\ call # NoCall => "overlap" \in hit'
      /\ conn[c].hooked /\ ~Settled => "again" \in hit'
      /\ conn[c].hooked /\ reports = 2 => "twice" \in hit'
  BY <1>1 DEF Hit, TypeOK
<1> QED BY <1>5, <1>6, <1>7 DEF Drop

\* A report leaves one less to come.
LEMMA ReportMoves ==
  ASSUME TypeOK, NEW c \in Conns, Report(c)
  PROVE  /\ conn[c].due > 0 /\ recovery[c].pc = "idle" /\ conn[c].due - 1 \in 0 .. 1
         /\ Becomes(c, Connection(conn[c].state, conn[c].hooked, conn[c].due - 1, conn[c].up))
<1>1. conn[c].due \in 0 .. 2
  BY ConnFields DEF Connections
<1>2. conn'[c] = [conn[c] EXCEPT !.due = @ - 1]
  BY ConnFields DEF Report
<1>3. conn'[c] = Connection(conn[c].state, conn[c].hooked, conn[c].due - 1, conn[c].up)
  BY <1>2, ConnFields DEF Connection
<1>4. DOMAIN conn' = Conns /\ \A d \in Conns : d # c => conn'[d] = conn[d]
  BY ConnFields DEF Report
<1>5. conn' = [d \in Conns |-> conn'[d]]
  BY <1>4 DEF Report
<1>6. Becomes(c, Connection(conn[c].state, conn[c].hooked, conn[c].due - 1, conn[c].up))
  BY <1>3, <1>4, <1>5 DEF Becomes
<1> QED BY <1>1, <1>6 DEF Report

Recovery(pc, ks, todo) == [pc |-> pc, keys |-> ks, todo |-> todo]

\* A recovery is the record of its three fields.
LEMMA RecoveryFields ==
  ASSUME TypeOK, NEW c \in Conns
  PROVE  /\ recovery[c] = Recovery(recovery[c].pc, recovery[c].keys, recovery[c].todo)
         /\ recovery[c] \in Recoveries /\ DOMAIN recovery = Conns
BY DEF TypeOK, Recoveries, Recovery

\* A recovery that fails starts over with the same keys.
LEMMA AgainMoves ==
  ASSUME TypeOK, NEW c \in Conns, Again(c)
  PROVE  Recovers(c, Recovery("open", recovery[c].keys, {}))
<1>1. recovery'[c] = [[recovery[c] EXCEPT !.pc = "open"] EXCEPT !.todo = {}]
  BY RecoveryFields DEF Again
<1>2. recovery'[c] = Recovery("open", recovery[c].keys, {})
  BY <1>1, RecoveryFields DEF Recovery
<1>3. DOMAIN recovery' = Conns /\ \A d \in Conns : d # c => recovery'[d] = recovery[d]
  BY RecoveryFields DEF Again
<1> QED BY <1>2, <1>3, RecoveryFields DEF Again, Recovers

\* An update of one field of a recovery, and what becomes of the recoveries.
LEMMA RecoveryMoves ==
  ASSUME TypeOK, NEW c \in Conns, NEW r, recovery' = [recovery EXCEPT ![c] = r]
  PROVE  Recovers(c, r)
<1>1. recovery'[c] = r /\ DOMAIN recovery' = Conns
  BY RecoveryFields
<1>2. \A d \in Conns : d # c => recovery'[d] = recovery[d]
  BY RecoveryFields
<1> QED BY <1>1, <1>2 DEF Recovers

\* A recovery opens a connection, or fails to.
LEMMA ReconnectMoves ==
  ASSUME TypeOK, NEW c \in Conns, Reconnect(c)
  PROVE  \/ /\ \E d \in Conns : Open(d)
            /\ Recovers(c, Recovery("hook", recovery[c].keys, recovery[c].todo))
         \/ OpenFails /\ Recovers(c, Recovery("open", recovery[c].keys, {}))
<1>1. ASSUME recovery' = [recovery EXCEPT ![c].pc = "hook"]
      PROVE  Recovers(c, Recovery("hook", recovery[c].keys, recovery[c].todo))
  <2> DEFINE new == [recovery[c] EXCEPT !.pc = "hook"]
  <2>1. recovery' = [recovery EXCEPT ![c] = new]
    BY <1>1
  <2>2. new = Recovery("hook", recovery[c].keys, recovery[c].todo)
    <3>1. [Recovery(recovery[c].pc, recovery[c].keys, recovery[c].todo) EXCEPT !.pc = "hook"] =
            Recovery("hook", recovery[c].keys, recovery[c].todo)
      BY DEF Recovery
    <3> QED BY <3>1, RecoveryFields, Zenon
  <2> HIDE DEF new
  <2> QED BY <2>1, <2>2, RecoveryMoves
<1> QED BY <1>1, AgainMoves DEF Reconnect

\* It sets the handlers, unless somebody has closed the feed.
LEMMA RecoveryHookMoves ==
  ASSUME TypeOK, NEW c \in Conns, RecoveryHook(c)
  PROVE  \/ /\ info # None /\ Hook
            /\ Recovers(c, Recovery("resubscribe", recovery[c].keys, recovery[c].keys))
         \/ /\ info = None /\ UNCHANGED feedVars
            /\ Recovers(c, Recovery("open", recovery[c].keys, {}))
<1>1. ASSUME recovery' = [recovery EXCEPT ![c].pc = "resubscribe", ![c].todo = recovery[c].keys]
      PROVE  Recovers(c, Recovery("resubscribe", recovery[c].keys, recovery[c].keys))
  <2>1. recovery'[c] = [[recovery[c] EXCEPT !.pc = "resubscribe"] EXCEPT !.todo = recovery[c].keys]
    BY <1>1, RecoveryFields
  <2>2. recovery'[c] = Recovery("resubscribe", recovery[c].keys, recovery[c].keys)
    BY <2>1, RecoveryFields DEF Recovery
  <2>3. DOMAIN recovery' = Conns /\ \A d \in Conns : d # c => recovery'[d] = recovery[d]
    BY <1>1, RecoveryFields
  <2> QED BY <1>1, <2>2, <2>3, RecoveryFields DEF Recovers
<1> QED BY <1>1, AgainMoves DEF RecoveryHook

\* It resubscribes a key, or starts over.
LEMMA ResubscribeMoves ==
  ASSUME TypeOK, NEW c \in Conns, NEW k, Resubscribe(c, k)
  PROVE  \/ /\ UpstreamSubscribe(k)
            /\ Recovers(c, Recovery("resubscribe", recovery[c].keys, recovery[c].todo \ {k}))
         \/ UpstreamRaises /\ Recovers(c, Recovery("open", recovery[c].keys, {}))
<1>1. ASSUME recovery' = [recovery EXCEPT ![c].todo = @ \ {k}]
      PROVE  Recovers(c, Recovery("resubscribe", recovery[c].keys, recovery[c].todo \ {k}))
  <2> DEFINE todo == recovery[c].todo \ {k}
             new == [recovery[c] EXCEPT !.todo = todo]
  <2>1. recovery' = [recovery EXCEPT ![c] = new]
    BY <1>1
  <2> HIDE DEF todo
  <2>2. new = Recovery("resubscribe", recovery[c].keys, todo)
    <3>1. [Recovery(recovery[c].pc, recovery[c].keys, recovery[c].todo) EXCEPT !.todo = todo] =
            Recovery(recovery[c].pc, recovery[c].keys, todo)
      BY DEF Recovery
    <3>2. new = Recovery(recovery[c].pc, recovery[c].keys, todo)
      BY <3>1, RecoveryFields, Zenon
    <3> QED BY <3>2 DEF Resubscribe
  <2>3. Recovers(c, Recovery("resubscribe", recovery[c].keys, todo))
    <3> HIDE DEF new
    <3> QED BY <2>1, <2>2, RecoveryMoves
  <2> QED BY <2>3 DEF todo
<1> QED BY <1>1, AgainMoves DEF Resubscribe

\* The connection that changed, and the others.
LEMMA BecomesRecord ==
  ASSUME TypeOK, NEW c \in Conns, NEW r, Becomes(c, r)
  PROVE  /\ conn'[c] = r /\ \A d \in Conns : d # c => conn'[d] = conn[d]
         /\ r \in Connections => conn' \in [Conns -> Connections]
<1>1. conn' = [d \in Conns |-> IF d = c THEN r ELSE conn[d]]
  BY DEF Becomes
<1>2. ASSUME r \in Connections PROVE conn' \in [Conns -> Connections]
  <2>1. \A d \in Conns : (IF d = c THEN r ELSE conn[d]) \in Connections
    BY <1>2 DEF TypeOK
  <2> QED BY <1>1, <2>1
<1> QED BY <1>1, <1>2

\* The fields of the connection that changed, and of the others.
LEMMA BecomesFields ==
  ASSUME TypeOK, NEW c \in Conns, NEW state, NEW hooked, NEW due, NEW up,
         Becomes(c, Connection(state, hooked, due, up))
  PROVE  /\ conn'[c].state = state /\ conn'[c].hooked = hooked
         /\ conn'[c].due = due /\ conn'[c].up = up
         /\ \A d \in Conns : d # c => conn'[d] = conn[d]
         /\ Connection(state, hooked, due, up) \in Connections => conn' \in [Conns -> Connections]
<1> DEFINE r == Connection(state, hooked, due, up)
<1>1. Becomes(c, r)
  OBVIOUS
<1>2. /\ r.state = state /\ r.hooked = hooked /\ r.due = due /\ r.up = up
  BY DEF Connection
<1> HIDE DEF r
<1>3. /\ conn'[c] = r /\ \A d \in Conns : d # c => conn'[d] = conn[d]
      /\ r \in Connections => conn' \in [Conns -> Connections]
  BY <1>1, BecomesRecord
<1> QED BY <1>2, <1>3 DEF r

\* The fields of the recovery that changed, and of the others.
LEMMA RecoversFields ==
  ASSUME TypeOK, NEW c \in Conns, NEW pc, NEW ks, NEW todo, Recovers(c, Recovery(pc, ks, todo))
  PROVE  /\ recovery'[c].pc = pc /\ recovery'[c].keys = ks /\ recovery'[c].todo = todo
         /\ \A d \in Conns : d # c => recovery'[d] = recovery[d]
         /\ Recovery(pc, ks, todo) \in Recoveries => recovery' \in [Conns -> Recoveries]
<1>1. recovery'[c] = Recovery(pc, ks, todo)
  BY DEF Recovers
<1>2. \A d \in Conns : d # c => recovery'[d] = recovery[d]
  BY DEF Recovers
<1>3. ASSUME Recovery(pc, ks, todo) \in Recoveries
      PROVE  recovery' \in [Conns -> Recoveries]
  <2> DEFINE r == Recovery(pc, ks, todo)
  <2>1. r \in Recoveries
    BY <1>3
  <2> HIDE DEF r
  <2>2. \A d \in Conns : (IF d = c THEN r ELSE recovery[d]) \in Recoveries
    BY <2>1 DEF TypeOK
  <2>3. recovery' = [d \in Conns |-> IF d = c THEN r ELSE recovery[d]]
    BY DEF Recovers, r
  <2> QED BY <2>2, <2>3
<1> QED BY <1>1, <1>2, <1>3 DEF Recovery

\* The fields of a connection and of a recovery have their types.
LEMMA FieldTypes ==
  ASSUME TypeOK, NEW c \in Conns
  PROVE  /\ conn[c].state \in {"unused", "open", "dropped"} /\ conn[c].hooked \in BOOLEAN
         /\ conn[c].due \in 0 .. 2 /\ conn[c].up \in [Keys -> Nat]
         /\ recovery[c].pc \in {"idle", "open", "hook", "resubscribe"}
         /\ recovery[c].keys \subseteq Keys /\ recovery[c].todo \subseteq Keys
BY DEF TypeOK, Connections, Recoveries

\* Records of well-typed fields are well typed.
LEMMA RecordTypes ==
  /\ \A state \in {"unused", "open", "dropped"}, hooked \in BOOLEAN, due \in 0 .. 2, up \in [Keys -> Nat] :
       Connection(state, hooked, due, up) \in Connections
  /\ \A pc \in {"idle", "open", "hook", "resubscribe"}, ks \in SUBSET Keys, todo \in SUBSET Keys :
       Recovery(pc, ks, todo) \in Recoveries
BY DEF Connection, Connections, Recovery, Recoveries

-----------------------------------------------------------------------------
(* The types.                                                              *)

FeedTypeOK ==
  /\ info \in Conns \cup {None} /\ sids \subseteq Keys /\ closing \in BOOLEAN
  /\ conn \in [Conns -> Connections]

\* Every operation of the feed keeps its types.
LEMMA FeedTypes ==
  ASSUME TypeOK
  PROVE  /\ \A c \in Conns : Open(c) => FeedTypeOK'
         /\ OpenFails \/ Hook => FeedTypeOK'
         /\ UNCHANGED feedVars => FeedTypeOK'
         /\ \A k \in Keys : UpstreamSubscribe(k) \/ ReleaseRaises(k) => FeedTypeOK'
         /\ \A k \in Keys, all \in BOOLEAN : Release(k, all) => FeedTypeOK'
<1>1. ASSUME NEW c \in Conns, Open(c)
      PROVE  FeedTypeOK'
  <2>1. NoFeeds \in [Keys -> Nat]
    BY DEF NoFeeds
  <2>2. Connection("open", FALSE, 0, NoFeeds) \in Connections
    BY <2>1 DEF Connection, Connections
  <2> QED BY <1>1, <2>2, OpenMoves, BecomesFields DEF FeedTypeOK
<1>2. ASSUME Hook
      PROVE  FeedTypeOK'
  <2>1. CASE info \in Conns
    <3>1. Connection(conn[info].state, TRUE, conn[info].due, conn[info].up) \in Connections
      BY <2>1, RecordTypes, FieldTypes
    <3>2. Becomes(info, Connection(conn[info].state, TRUE, conn[info].due, conn[info].up))
      BY <1>2, <2>1, HookMoves
    <3>3. conn' \in [Conns -> Connections]
      <4> DEFINE r == Connection(conn[info].state, TRUE, conn[info].due, conn[info].up)
      <4>1. r \in Connections /\ Becomes(info, r)
        BY <3>1, <3>2
      <4> HIDE DEF r
      <4> QED BY <2>1, <4>1, BecomesRecord
    <3> QED BY <1>2, <3>3, HookMoves DEF FeedTypeOK, TypeOK
  <2>2. CASE info = None
    BY <1>2, <2>2, HookMoves DEF FeedTypeOK, TypeOK
  <2> QED BY <2>1, <2>2 DEF TypeOK
<1>3. ASSUME NEW k \in Keys, UpstreamSubscribe(k)
      PROVE  FeedTypeOK'
  <2>1. CASE Live(info)
    <3> DEFINE up == [conn[info].up EXCEPT ![k] = @ + 1]
    <3>1. info \in Conns
      BY <1>3, UpstreamMoves
    <3>2. up \in [Keys -> Nat]
      BY <3>1, FieldTypes
    <3>3. Connection("open", conn[info].hooked, conn[info].due, up) \in Connections
      <4> HIDE DEF up
      <4> QED BY <3>1, <3>2, RecordTypes, FieldTypes
    <3>4. Becomes(info, Connection("open", conn[info].hooked, conn[info].due, up))
      BY <1>3, <2>1, UpstreamMoves
    <3> HIDE DEF up
    <3>5. conn' \in [Conns -> Connections]
      BY <3>1, <3>3, <3>4, BecomesFields
    <3> QED BY <1>3, <3>5, UpstreamMoves DEF FeedTypeOK, TypeOK
  <2>2. CASE ~Live(info)
    BY <1>3, <2>2, UpstreamMoves DEF FeedTypeOK, TypeOK
  <2> QED BY <2>1, <2>2
<1>4. ASSUME NEW k \in Keys, NEW all \in BOOLEAN, Release(k, all)
      PROVE  FeedTypeOK'
  <2>1. /\ sids' = sids \ {k} /\ closing' = (closing \/ all)
        /\ info' = IF all THEN None ELSE info
    BY <1>4, ReleaseMoves
  <2>2. conn' \in [Conns -> Connections]
    <3>1. CASE info = None
      BY <1>4, <3>1, ReleaseMoves DEF TypeOK
    <3>2. CASE info \in Conns
      <4>1. PICK up \in [Keys -> Nat], due \in 0 .. 2 :
              Becomes(info, Connection(IF all THEN "dropped" ELSE conn[info].state,
                                       conn[info].hooked, due, up))
        BY <1>4, <3>2, ReleaseMoves
      <4>2. Connection(IF all THEN "dropped" ELSE conn[info].state, conn[info].hooked, due, up)
              \in Connections
        BY <3>2, RecordTypes, FieldTypes
      <4> QED BY <3>2, <4>1, <4>2, BecomesFields
    <3> QED BY <3>1, <3>2 DEF TypeOK
  <2> QED BY <2>1, <2>2 DEF FeedTypeOK, TypeOK
<1>5. ASSUME NEW k \in Keys, ReleaseRaises(k)
      PROVE  FeedTypeOK'
  BY <1>5 DEF ReleaseRaises, FeedTypeOK, TypeOK
<1>6. OpenFails \/ UNCHANGED feedVars => FeedTypeOK'
  BY DEF OpenFails, feedVars, FeedTypeOK, TypeOK
<1> QED BY <1>1, <1>2, <1>3, <1>4, <1>5, <1>6

\* The types hold at the start.
LEMMA TypeInit == Init => TypeOK
<1> SUFFICES ASSUME Init PROVE TypeOK
  OBVIOUS
<1>1. Unused = Connection("unused", FALSE, 0, NoFeeds) /\ NoFeeds \in [Keys -> Nat]
  BY DEF Unused, Connection, NoFeeds
<1>2. Unused \in Connections
  BY <1>1 DEF Connection, Connections
<1>3. NoRecovery = Recovery("idle", {}, {})
  BY DEF NoRecovery, Recovery
<1>4. NoRecovery \in Recoveries
  BY <1>3, RecordTypes
<1>5. conn \in [Conns -> Connections]
  BY <1>2 DEF Init
<1>6. recovery \in [Conns -> Recoveries]
  BY <1>4 DEF Init
<1>7. subs \in [Keys -> SUBSET Tokens]
  BY DEF Init
<1> QED BY <1>5, <1>6, <1>7 DEF Init, TypeOK

\* The types of what the service itself keeps.
RegistryTypeOK ==
  /\ connected \in BOOLEAN /\ keys \subseteq Keys /\ subs \in [Keys -> SUBSET Tokens]
  /\ call \in {NoCall} \cup [pc : {"hook", "register"}, key : Keys, token : Tokens]

RecoveryTypeOK == recovery \in [Conns -> Recoveries]

\* A call under way is the record of its three fields.
LEMMA CallFields ==
  ASSUME TypeOK, call # NoCall
  PROVE  /\ call.pc \in {"hook", "register"} /\ call.key \in Keys /\ call.token \in Tokens
         /\ call = [pc |-> call.pc, key |-> call.key, token |-> call.token]
BY DEF TypeOK

\* What a call let in at a bad moment leaves on record.
LEMMA MayCallHits ==
  ASSUME TypeOK, NEW with, MayCall(with)
  PROVE  /\ call = NoCall /\ with \subseteq hit' /\ hit \subseteq hit' /\ hit' \subseteq Disturbances
         /\ ~Settled /\ OnlyCloses => "late" \in hit'
         /\ ~Settled /\ ~OnlyCloses => "overlap" \in hit'
BY DEF MayCall, Hit, TypeOK

PartsTypeOK == RegistryTypeOK /\ FeedTypeOK /\ RecoveryTypeOK /\ hit \subseteq Disturbances

\* Every step keeps the types.
LEMMA TypeStep ==
  ASSUME TypeOK, [Next]_vars
  PROVE  TypeOK'
<1>0. PartsTypeOK
  BY DEF PartsTypeOK, TypeOK, RegistryTypeOK, FeedTypeOK, RecoveryTypeOK
<1> USE <1>0 DEF PartsTypeOK
<1> SUFFICES PartsTypeOK'
  BY DEF TypeOK, RegistryTypeOK, FeedTypeOK, RecoveryTypeOK
<1>1. ASSUME NEW k \in Keys, NEW t \in Tokens, Subscribe(k, t)
      PROVE  PartsTypeOK'
  <2>1. FeedTypeOK'
    BY <1>1, FeedTypes DEF Subscribe
  <2>2. call' = call \/ call' \in [pc : {"hook", "register"}, key : Keys, token : Tokens]
    BY <1>1 DEF Subscribe
  <2>3. hit' \subseteq Disturbances
    BY <1>1, MayCallHits DEF Subscribe
  <2> QED BY <1>1, <2>1, <2>2, <2>3 DEF Subscribe, registryVars, RegistryTypeOK, RecoveryTypeOK
<1>2. ASSUME NEW k \in Keys, NEW t \in Tokens, Unsubscribe(k, t)
      PROVE  PartsTypeOK'
  <2>1. FeedTypeOK'
    BY <1>2, FeedTypes DEF Unsubscribe
  <2>2. subs' \in [Keys -> SUBSET Tokens]
    BY <1>2 DEF Unsubscribe, RegistryTypeOK
  <2>3. hit' \subseteq Disturbances
    BY <1>2, MayCallHits DEF Unsubscribe
  <2> QED BY <1>2, <2>1, <2>2, <2>3 DEF Unsubscribe, RegistryTypeOK, RecoveryTypeOK
<1>3. CASE CallHook
  <2>1. call # NoCall
    BY <1>3 DEF CallHook, NoCall
  <2>2. call' = [[pc |-> call.pc, key |-> call.key, token |-> call.token] EXCEPT !.pc = "register"]
    BY <1>3, <2>1, CallFields DEF CallHook
  <2>3. call' = [pc |-> "register", key |-> call.key, token |-> call.token]
    BY <2>2
  <2>4. FeedTypeOK'
    BY <1>3, FeedTypes DEF CallHook
  <2> QED BY <1>3, <2>1, <2>3, <2>4, CallFields DEF CallHook, RegistryTypeOK, RecoveryTypeOK
<1>4. CASE Register
  <2>1. call # NoCall
    BY <1>4 DEF Register, NoCall
  <2>2. call.key \in Keys /\ call.token \in Tokens
    BY <2>1, CallFields
  <2>3. subs' \in [Keys -> SUBSET Tokens]
    BY <1>4, <2>2 DEF Register, RegistryTypeOK
  <2>4. FeedTypeOK'
    BY <1>4, <2>2, FeedTypes DEF Register, UpstreamRaises
  <2> QED BY <1>4, <2>2, <2>3, <2>4 DEF Register, RegistryTypeOK, RecoveryTypeOK
<1>5. ASSUME NEW c \in Conns, Drop(c)
      PROVE  PartsTypeOK'
  <2>1. PICK due \in 0 .. 2 : Becomes(c, Connection("dropped", conn[c].hooked, due, conn[c].up))
    BY <1>5, DropMoves
  <2>2. Connection("dropped", conn[c].hooked, due, conn[c].up) \in Connections
    BY RecordTypes, FieldTypes
  <2>3. conn' \in [Conns -> Connections]
    BY <2>1, <2>2, BecomesFields
  <2>4. hit' \subseteq Disturbances
    BY <1>5, DropMoves
  <2> QED BY <1>5, <2>3, <2>4 DEF Drop, registryVars, RegistryTypeOK, FeedTypeOK, RecoveryTypeOK
<1>6. ASSUME NEW c \in Conns, Report(c)
      PROVE  PartsTypeOK'
  <2>1. conn[c].due - 1 \in 0 .. 2
    BY <1>6, ReportMoves
  <2>2. Connection(conn[c].state, conn[c].hooked, conn[c].due - 1, conn[c].up) \in Connections
    BY <2>1, RecordTypes, FieldTypes
  <2>3. conn' \in [Conns -> Connections]
    BY <1>6, <2>2, ReportMoves, BecomesFields
  <2>4. recovery' \in [Conns -> Recoveries]
    <3> DEFINE opened == Recovery("open", keys, {})
    <3>1. opened \in Recoveries
      BY RecordTypes DEF RegistryTypeOK
    <3>2. recovery' = recovery \/ recovery' = [recovery EXCEPT ![c] = recovery[c]]
          \/ recovery' = [recovery EXCEPT ![c] = opened]
      BY <1>6 DEF Report, Recovery
    <3> HIDE DEF opened
    <3> QED BY <3>1, <3>2 DEF RecoveryTypeOK
  <2> QED BY <1>6, <2>3, <2>4 DEF Report, RegistryTypeOK, FeedTypeOK, RecoveryTypeOK
<1>7. ASSUME NEW c \in Conns, Reconnect(c)
      PROVE  PartsTypeOK'
  <2>1. /\ Recovery("hook", recovery[c].keys, recovery[c].todo) \in Recoveries
        /\ Recovery("open", recovery[c].keys, {}) \in Recoveries
    BY RecordTypes, FieldTypes
  <2>2. recovery' \in [Conns -> Recoveries]
    BY <1>7, <2>1, ReconnectMoves, RecoversFields
  <2>3. FeedTypeOK'
    BY <1>7, FeedTypes, ReconnectMoves
  <2> QED BY <1>7, <2>2, <2>3 DEF Reconnect, registryVars, RegistryTypeOK, RecoveryTypeOK
<1>8. ASSUME NEW c \in Conns, RecoveryHook(c)
      PROVE  PartsTypeOK'
  <2>1. /\ Recovery("resubscribe", recovery[c].keys, recovery[c].keys) \in Recoveries
        /\ Recovery("open", recovery[c].keys, {}) \in Recoveries
    BY RecordTypes, FieldTypes
  <2>2. recovery' \in [Conns -> Recoveries]
    BY <1>8, <2>1, RecoveryHookMoves, RecoversFields
  <2>3. FeedTypeOK'
    BY <1>8, FeedTypes, RecoveryHookMoves
  <2> QED BY <1>8, <2>2, <2>3 DEF RecoveryHook, registryVars, RegistryTypeOK, RecoveryTypeOK
<1>9. ASSUME NEW c \in Conns, NEW k \in Keys, Resubscribe(c, k)
      PROVE  PartsTypeOK'
  <2>1. /\ Recovery("resubscribe", recovery[c].keys, recovery[c].todo \ {k}) \in Recoveries
        /\ Recovery("open", recovery[c].keys, {}) \in Recoveries
    BY RecordTypes, FieldTypes
  <2>2. recovery' \in [Conns -> Recoveries]
    BY <1>9, <2>1, ResubscribeMoves, RecoversFields
  <2>3. FeedTypeOK'
    BY <1>9, FeedTypes, ResubscribeMoves DEF UpstreamRaises
  <2> QED BY <1>9, <2>2, <2>3 DEF Resubscribe, registryVars, RegistryTypeOK, RecoveryTypeOK
<1>10. ASSUME NEW c \in Conns, Recovered(c)
       PROVE  PartsTypeOK'
  <2>1. Recovery("idle", {}, {}) \in Recoveries /\ NoRecovery = Recovery("idle", {}, {})
    BY RecordTypes DEF NoRecovery, Recovery
  <2>2. recovery' \in [Conns -> Recoveries]
    BY <1>10, <2>1 DEF Recovered, RecoveryTypeOK
  <2>3. FeedTypeOK'
    BY <1>10, FeedTypes DEF Recovered
  <2> QED BY <1>10, <2>2, <2>3 DEF Recovered, RegistryTypeOK, RecoveryTypeOK
<1>11. CASE UNCHANGED vars
  BY <1>11 DEF vars, RegistryTypeOK, FeedTypeOK, RecoveryTypeOK
<1> QED BY <1>1, <1>2, <1>3, <1>4, <1>5, <1>6, <1>7, <1>8, <1>9, <1>10, <1>11 DEF Next

-----------------------------------------------------------------------------
(* What each operation leaves of the states, reports and feeds.            *)

SameStates == \A d \in Conns : conn'[d].state = conn[d].state
SameDues == \A d \in Conns : conn'[d].due = conn[d].due
SameFeeds == \A d \in Conns : conn'[d].up = conn[d].up

\* A connection just opened is live, and the feed's.
LEMMA OpenFields ==
  ASSUME TypeOK, NEW c \in Conns, Open(c)
  PROVE  /\ conn[c].state = "unused" /\ SameDues
         /\ conn'[c].state = "open" /\ conn'[c].due = 0 /\ \A k \in Keys : conn'[c].up[k] = 0
         /\ \A d \in Conns : d # c => conn'[d] = conn[d]
         /\ info' = c /\ info' # None /\ sids' = {} /\ ~closing'
<1>1. /\ conn'[c].state = "open" /\ conn'[c].due = 0 /\ conn'[c].up = NoFeeds
      /\ \A d \in Conns : d # c => conn'[d] = conn[d]
  <2> DEFINE r == Connection("open", FALSE, 0, NoFeeds)
  <2>1. Becomes(c, r)
    BY OpenMoves
  <2>2. r.state = "open" /\ r.due = 0 /\ r.up = NoFeeds
    BY DEF Connection
  <2> HIDE DEF r
  <2> QED BY <2>1, <2>2, BecomesRecord
<1> QED BY <1>1, OpenMoves, MarketAssumption DEF NoFeeds, SameDues

\* Setting the handlers changes no state, report or feed.
LEMMA HookFields ==
  ASSUME TypeOK, Hook
  PROVE  SameStates /\ SameDues /\ SameFeeds /\ UNCHANGED <<info, sids, closing>>
<1>1. CASE info \in Conns
  <2>1. Becomes(info, Connection(conn[info].state, TRUE, conn[info].due, conn[info].up))
    BY <1>1, HookMoves
  <2>2. /\ conn'[info].state = conn[info].state /\ conn'[info].due = conn[info].due
        /\ conn'[info].up = conn[info].up
        /\ \A d \in Conns : d # info => conn'[d] = conn[d]
    BY <1>1, <2>1 DEF Becomes, Connection
  <2>3. SameStates /\ SameDues /\ SameFeeds
    BY <2>2 DEF SameStates, SameDues, SameFeeds
  <2> QED BY <2>3, HookMoves
<1>2. CASE info = None
  BY <1>2, HookMoves DEF SameStates, SameDues, SameFeeds
<1> QED BY <1>1, <1>2 DEF TypeOK

\* A subscription changes the count of one key of the feed's connection.
LEMMA UpstreamFields ==
  ASSUME TypeOK, NEW k \in Keys, UpstreamSubscribe(k)
  PROVE  /\ info \in Conns /\ info # None /\ SameStates /\ SameDues
         /\ ~Live(info) => conn' = conn
         /\ \A d \in Conns : d # info => conn'[d] = conn[d]
         /\ \A l \in Keys : l # k => conn'[info].up[l] = conn[info].up[l]
         /\ Live(info) => conn'[info].up[k] = conn[info].up[k] + 1
         /\ sids' = sids \cup {k} /\ UNCHANGED <<info, closing>>
<1> DEFINE up == [conn[info].up EXCEPT ![k] = @ + 1]
<1>1. info \in Conns /\ info # None
  BY UpstreamMoves, MarketAssumption
<1>2. CASE Live(info)
  <2>1. Becomes(info, Connection("open", conn[info].hooked, conn[info].due, up))
    BY <1>2, UpstreamMoves
  <2>2. up[k] = conn[info].up[k] + 1 /\ \A l \in Keys : l # k => up[l] = conn[info].up[l]
    BY <1>1, ConnFields
  <2> HIDE DEF up
  <2>3. /\ conn'[info].state = "open" /\ conn'[info].due = conn[info].due /\ conn'[info].up = up
        /\ \A d \in Conns : d # info => conn'[d] = conn[d]
    BY <1>1, <2>1, BecomesFields
  <2> QED BY <1>1, <1>2, <2>2, <2>3, UpstreamMoves DEF SameStates, SameDues, Live
<1>3. CASE ~Live(info)
  BY <1>1, <1>3, UpstreamMoves DEF SameStates, SameDues
<1> QED BY <1>2, <1>3

\* An unsubscription changes only the feed's connection.
LEMMA ReleaseFields ==
  ASSUME TypeOK, NEW k \in Keys, NEW all \in BOOLEAN, Release(k, all)
  PROVE  /\ info = None => conn' = conn
         /\ \A d \in Conns : d # info => conn'[d] = conn[d]
         /\ info # None =>
              /\ info \in Conns
              /\ conn'[info].state = IF all THEN "dropped" ELSE conn[info].state
              /\ conn'[info].due = IF all /\ conn[info].hooked /\ Live(info) THEN 1 ELSE conn[info].due
              /\ \A l \in Keys : l # k => conn'[info].up[l] = conn[info].up[l]
              /\ conn'[info].up[k] =
                   IF k \in sids /\ conn[info].up[k] > 0 THEN conn[info].up[k] - 1 ELSE conn[info].up[k]
         /\ sids' = sids \ {k} /\ closing' = (closing \/ all)
         /\ info' = IF all THEN None ELSE info
<1>1. CASE info = None
  BY <1>1, ReleaseMoves, MarketAssumption
<1>2. CASE info \in Conns
  <2>1. PICK up \in [Keys -> Nat], due \in 0 .. 2 :
          /\ Becomes(info, Connection(IF all THEN "dropped" ELSE conn[info].state,
                                      conn[info].hooked, due, up))
          /\ due = IF all /\ conn[info].hooked /\ Live(info) THEN 1 ELSE conn[info].due
          /\ \A l \in Keys : l # k => up[l] = conn[info].up[l]
          /\ up[k] = IF k \in sids /\ conn[info].up[k] > 0 THEN conn[info].up[k] - 1 ELSE conn[info].up[k]
    BY <1>2, ReleaseMoves
  <2>2. /\ conn'[info].state = (IF all THEN "dropped" ELSE conn[info].state)
        /\ conn'[info].due = due /\ conn'[info].up = up
        /\ \A d \in Conns : d # info => conn'[d] = conn[d]
    BY <1>2, <2>1, BecomesFields
  <2> QED BY <1>2, <2>1, <2>2, ReleaseMoves, MarketAssumption
<1> QED BY <1>1, <1>2 DEF TypeOK

\* A drop of a hooked connection will be reported.
LEMMA DropFields ==
  ASSUME TypeOK, NEW c \in Conns, Drop(c)
  PROVE  /\ Live(c) /\ conn'[c].state = "dropped" /\ conn'[c].due \in 0 .. 2
         /\ (conn[c].hooked <=> conn'[c].due > 0)
         /\ (conn'[c].due = 2 => "twice" \in hit')
         /\ \A d \in Conns : d # c => conn'[d] = conn[d]
<1>1. PICK due \in 0 .. 2 :
        /\ Becomes(c, Connection("dropped", conn[c].hooked, due, conn[c].up))
        /\ conn[c].hooked <=> due > 0
        /\ due = 2 => "twice" \in hit'
  BY DropMoves
<1>2. /\ conn'[c].state = "dropped" /\ conn'[c].due = due
      /\ \A d \in Conns : d # c => conn'[d] = conn[d]
  BY <1>1, BecomesFields
<1> QED BY <1>1, <1>2, DropMoves

\* A report changes only what is due.
LEMMA ReportFields ==
  ASSUME TypeOK, NEW c \in Conns, Report(c)
  PROVE  /\ conn[c].due > 0 /\ conn'[c].due = conn[c].due - 1 /\ recovery[c].pc = "idle"
         /\ SameStates /\ SameFeeds /\ \A d \in Conns : d # c => conn'[d] = conn[d]
<1>1. /\ conn'[c].state = conn[c].state /\ conn'[c].due = conn[c].due - 1
      /\ conn'[c].up = conn[c].up /\ \A d \in Conns : d # c => conn'[d] = conn[d]
  BY ReportMoves, BecomesFields
<1> QED BY <1>1, ReportMoves DEF SameStates, SameFeeds

\* The recoveries after Report: c starts one, unless the close was on purpose or
\* there is nothing to recover.
LEMMA ReportRecovers ==
  ASSUME TypeOK, NEW c \in Conns, Report(c)
  PROVE  \/ closing /\ UNCHANGED <<connected, recovery>>
         \/ /\ ~closing /\ call = NoCall /\ ~connected'
            /\ \/ keys = {} /\ recovery' = recovery
               \/ keys # {} /\ Recovers(c, Recovery("open", keys, {}))
<1>1. ASSUME keys = {}, recovery' = [recovery EXCEPT ![c] = recovery[c]]
      PROVE  recovery' = recovery
  BY <1>1, RecoveryFields DEF TypeOK
<1>2. ASSUME recovery' = [recovery EXCEPT ![c] = [pc |-> "open", keys |-> keys, todo |-> {}]]
      PROVE  Recovers(c, Recovery("open", keys, {}))
  <2>1. recovery' = [recovery EXCEPT ![c] = Recovery("open", keys, {})]
    BY <1>2 DEF Recovery
  <2> QED BY <2>1, RecoveryMoves
<1>3. keys = {} /\ ~closing => recovery' = [recovery EXCEPT ![c] = recovery[c]]
  BY DEF Report
<1>4. keys # {} /\ ~closing => recovery' = [recovery EXCEPT ![c] = [pc |-> "open", keys |-> keys, todo |-> {}]]
  BY DEF Report
<1> QED BY <1>1, <1>2, <1>3, <1>4 DEF Report

\* A recovery that is done is idle again.
LEMMA RecoveredRecovers ==
  ASSUME TypeOK, NEW c \in Conns, Recovered(c)
  PROVE  Recovers(c, Recovery("idle", {}, {}))
<1>1. recovery' = [recovery EXCEPT ![c] = Recovery("idle", {}, {})]
  BY DEF Recovered, NoRecovery, Recovery
<1> QED BY <1>1, RecoveryMoves

-----------------------------------------------------------------------------
(* The steps, one operation at a time.                                     *)

\* A disturbance that has happened has happened.
LEMMA HitGrows ==
  ASSUME TypeOK, [Next]_vars
  PROVE  hit \subseteq hit'
<1>1. ASSUME NEW k \in Keys, NEW t \in Tokens, Subscribe(k, t) \/ Unsubscribe(k, t)
      PROVE  hit \subseteq hit'
  BY <1>1, MayCallHits DEF Subscribe, Unsubscribe
<1>2. ASSUME NEW c \in Conns, Drop(c)
      PROVE  hit \subseteq hit'
  BY <1>2, DropMoves
<1>3. CASE CallHook \/ Register \/ UNCHANGED vars
  BY <1>3 DEF CallHook, Register, vars
<1>4. ASSUME NEW c \in Conns, Report(c) \/ Reconnect(c) \/ RecoveryHook(c) \/ Recovered(c)
      PROVE  hit \subseteq hit'
  BY <1>4 DEF Report, Reconnect, RecoveryHook, Recovered
<1>5. ASSUME NEW c \in Conns, NEW k \in Keys, Resubscribe(c, k)
      PROVE  hit \subseteq hit'
  BY <1>5 DEF Resubscribe
<1> QED BY <1>1, <1>2, <1>3, <1>4, <1>5 DEF Next

\* Closing on purpose forgets the connection, and opening forgets the closing.
LEMMA ClosedStep ==
  ASSUME TypeOK, ClosedLetsGo, [Next]_vars
  PROVE  ClosedLetsGo'
<1>1. /\ \A c \in Conns : Open(c) => ClosedLetsGo'
      /\ OpenFails \/ Hook \/ UpstreamRaises \/ UNCHANGED feedVars => ClosedLetsGo'
      /\ \A k \in Keys : UpstreamSubscribe(k) \/ ReleaseRaises(k) => ClosedLetsGo'
      /\ \A k \in Keys, all \in BOOLEAN : Release(k, all) => ClosedLetsGo'
  BY DEF Open, OpenFails, Hook, UpstreamRaises, feedVars, UpstreamSubscribe, ReleaseRaises,
         Release, ClosedLetsGo
<1>2. ASSUME NEW k \in Keys, NEW t \in Tokens, Subscribe(k, t) \/ Unsubscribe(k, t)
      PROVE  ClosedLetsGo'
  BY <1>1, <1>2 DEF Subscribe, Unsubscribe
<1>3. CASE CallHook
  BY <1>1, <1>3 DEF CallHook
<1>4. CASE Register
  <2>1. call.key \in Keys
    BY <1>4, CallFields DEF Register, NoCall
  <2> QED BY <1>1, <1>4, <2>1 DEF Register
<1>5. ASSUME NEW c \in Conns, Drop(c) \/ Report(c) \/ Recovered(c)
      PROVE  ClosedLetsGo'
  BY <1>5 DEF Drop, Report, Recovered, feedVars, ClosedLetsGo
<1>6. ASSUME NEW c \in Conns, Reconnect(c) \/ RecoveryHook(c)
      PROVE  ClosedLetsGo'
  BY <1>1, <1>6 DEF Reconnect, RecoveryHook
<1>7. ASSUME NEW c \in Conns, NEW k \in Keys, Resubscribe(c, k)
      PROVE  ClosedLetsGo'
  BY <1>1, <1>7 DEF Resubscribe
<1>8. CASE UNCHANGED vars
  BY <1>8 DEF vars, ClosedLetsGo
<1> QED BY <1>2, <1>3, <1>4, <1>5, <1>6, <1>7, <1>8 DEF Next

\* All of CoverInv but its premise.
CoverParts ==
  /\ KeysSubscribed /\ CallAlone /\ RecoveryKnows /\ DropNoticed
  /\ \A k \in keys : Promised(k)

\* A subscriber finds a live connection, opens one, or fails.
LEMMA CoverSubscribe ==
  ASSUME TypeOK, ClosedLetsGo, CoverParts, Heard', NEW k \in Keys, NEW t \in Tokens,
         Subscribe(k, t)
  PROVE  CoverParts'
<1>1. /\ call = NoCall /\ (Settled \/ OnlyCloses) /\ hit \subseteq hit'
      /\ UNCHANGED <<connected, keys, subs, recovery>>
  BY MayCallHits DEF Subscribe, registryVars, Heard
<1>2. \A c \in Conns : recovery[c].pc = "idle"
  BY <1>1 DEF Settled, OnlyCloses
<1>3. RecoveryKnows'
  BY <1>1, <1>2 DEF RecoveryKnows
<1>4. CASE connected /\ call' = [pc |-> "register", key |-> k, token |-> t] /\ UNCHANGED feedVars
  <2>1. info \in Conns /\ info # None /\ ~OnlyCloses
    BY <1>1, <1>4 DEF CoverParts, KeysSubscribed, OnlyCloses, ClosedLetsGo, TypeOK
  <2>2. Live(info)
    BY <1>1, <1>4, <2>1, <1>2 DEF Settled, CoverParts, DropNoticed
  <2>3. call' # NoCall
    BY <1>4 DEF NoCall
  <2>4. UNCHANGED <<info, closing, conn>>
    BY <1>4 DEF feedVars
  <2> QED BY <1>1, <1>2, <1>3, <2>2, <2>3, <2>4
          DEF CoverParts, KeysSubscribed, CallAlone, DropNoticed, Promised, Subscribed, Live
<1>5. ASSUME NEW c \in Conns, Open(c), ~connected, call' = [pc |-> "hook", key |-> k, token |-> t]
      PROVE  CoverParts'
  <2>1. Live(info)' /\ ~closing'
    BY <1>5, OpenFields DEF Live
  <2>2. KeysSubscribed' /\ CallAlone' /\ DropNoticed'
    BY <1>1, <1>2, <1>5, <2>1 DEF CoverParts, KeysSubscribed, CallAlone, DropNoticed, Subscribed
  <2>3. \A l \in keys : Promised(l)'
    <3> SUFFICES ASSUME NEW l \in keys PROVE Promised(l)'
      OBVIOUS
    <3>1. PICK d \in Conns : (Live(d) /\ conn[d].up[l] > 0) \/ conn[d].due > 0
      BY <1>2 DEF CoverParts, Promised
    <3>2. d # c \/ conn[d].due > 0
      BY <1>5, <3>1, OpenFields DEF Live
    <3> QED BY <1>5, <3>1, <3>2, OpenFields DEF Promised, Live, SameDues
  <2> QED BY <1>1, <1>3, <2>2, <2>3 DEF CoverParts
<1>6. CASE OpenFails /\ UNCHANGED call
  BY <1>1, <1>3, <1>6
     DEF OpenFails, CoverParts, KeysSubscribed, CallAlone, DropNoticed, Promised, Subscribed, Live
<1> QED BY <1>4, <1>5, <1>6 DEF Subscribe

\* Leaving lets go of one key, and of the connection with the last.
LEMMA CoverUnsubscribe ==
  ASSUME TypeOK, ClosedLetsGo, CoverParts, Heard', NEW k \in Keys, NEW t \in Tokens,
         Unsubscribe(k, t)
  PROVE  CoverParts'
<1> DEFINE last == subs[k] = {t}
           all == last /\ keys = {k} /\ connected
<1>1. /\ call = NoCall /\ t \in subs[k] /\ subs' = [subs EXCEPT ![k] = @ \ {t}]
      /\ hit \subseteq hit' /\ UNCHANGED <<call, recovery>>
  BY MayCallHits DEF Unsubscribe
<1>2. k \in keys /\ ~closing /\ Settled
  BY <1>1, MayCallHits DEF Unsubscribe, CoverParts, KeysSubscribed, Subscribed, Heard, OnlyCloses
<1>3. \A c \in Conns : conn[c].due = 0 /\ recovery[c].pc = "idle"
  BY <1>2 DEF Settled
<1>4. info # None => Live(info)
  BY <1>2, <1>3 DEF CoverParts, DropNoticed, TypeOK
<1>5. CallAlone' /\ RecoveryKnows'
  BY <1>1, <1>3 DEF CallAlone, RecoveryKnows
<1>6. keys = Subscribed
  BY DEF CoverParts, KeysSubscribed
<1>7. CASE last /\ keys' = keys \ {k} /\ Release(k, all) /\ connected' = (connected /\ ~all)
  <2>1. /\ info = None => conn' = conn
        /\ \A d \in Conns : d # info => conn'[d] = conn[d]
        /\ info # None =>
             /\ info \in Conns
             /\ conn'[info].state = IF all THEN "dropped" ELSE conn[info].state
             /\ \A l \in Keys : l # k => conn'[info].up[l] = conn[info].up[l]
        /\ closing' = (closing \/ all) /\ info' = IF all THEN None ELSE info
    <3>1. all \in BOOLEAN
      BY DEF TypeOK
    <3> HIDE DEF all
    <3> QED BY <1>7, <3>1, ReleaseFields
  <2>2. keys' = Subscribed'
    BY <1>1, <1>6, <1>7 DEF Subscribed, TypeOK
  <2>3. KeysSubscribed'
    BY <1>2, <1>7, <2>1, <2>2 DEF KeysSubscribed, CoverParts
  <2>4. DropNoticed'
    BY <1>4, <2>1 DEF DropNoticed, Live
  <2>5. \A l \in keys' : Promised(l)'
    <3> SUFFICES ASSUME NEW l \in keys, l # k PROVE Promised(l)'
      BY <1>7
    <3>1. PICK d \in Conns : Live(d) /\ conn[d].up[l] > 0
      BY <1>3 DEF CoverParts, Promised
    <3>2. l \in Keys /\ ~all
      BY <1>2 DEF TypeOK
    <3>3. Live(d)' /\ conn'[d].up[l] > 0
      BY <2>1, <3>1, <3>2 DEF Live
    <3> QED BY <3>3 DEF Promised
  <2> QED BY <1>5, <2>3, <2>4, <2>5 DEF CoverParts
<1>8. CASE /\ last /\ keys' = keys \ {k} /\ ReleaseRaises(k) /\ UNCHANGED connected
           /\ MayCall(IF Live(info) THEN {"unready"} ELSE {})
  <2>1. Live(info) /\ UNCHANGED <<info, closing, conn>>
    BY <1>4, <1>8 DEF ReleaseRaises
  <2>2. "unready" \in hit'
    BY <1>8, <2>1, MayCallHits
  <2>3. keys' = Subscribed'
    BY <1>1, <1>6, <1>8 DEF Subscribed, TypeOK
  <2>4. KeysSubscribed' /\ DropNoticed'
    BY <1>2, <1>8, <2>1, <2>2, <2>3 DEF KeysSubscribed, CoverParts, DropNoticed, Live
  <2>5. \A l \in keys' : Promised(l)'
    BY <1>1, <1>8, <2>1 DEF CoverParts, Promised, Live
  <2> QED BY <1>5, <2>4, <2>5 DEF CoverParts
<1>9. CASE ~last /\ UNCHANGED <<keys, feedVars, connected>>
  <2>1. Subscribed' = Subscribed
    BY <1>1, <1>9 DEF Subscribed, TypeOK
  <2>2. KeysSubscribed' /\ DropNoticed' /\ \A l \in keys' : Promised(l)'
    BY <1>1, <1>9, <2>1 DEF feedVars, CoverParts, KeysSubscribed, DropNoticed, Promised, Live
  <2> QED BY <1>5, <2>2 DEF CoverParts
<1> QED BY <1>7, <1>8, <1>9 DEF Unsubscribe

\* The caller's new connection is in use from here on.
LEMMA CoverCallHook ==
  ASSUME TypeOK, CoverParts, CallHook
  PROVE  CoverParts'
<1>1. /\ call # NoCall /\ call' # NoCall /\ connected'
      /\ UNCHANGED <<keys, subs, recovery>>
  <2>1. call # NoCall
    BY DEF CallHook, NoCall
  <2>2. call'.pc = "register"
    BY <2>1, CallFields DEF CallHook
  <2> QED BY <2>1, <2>2 DEF CallHook, NoCall
<1>2. SameStates /\ SameDues /\ SameFeeds /\ UNCHANGED <<info, closing>>
  BY HookFields DEF CallHook
<1>3. Live(info) /\ info \in Conns /\ \A c \in Conns : recovery[c].pc = "idle"
  BY <1>1 DEF CoverParts, CallAlone, Live, TypeOK
<1>4. Live(info)'
  BY <1>2, <1>3 DEF SameStates, Live
<1>5. KeysSubscribed' /\ CallAlone' /\ RecoveryKnows' /\ DropNoticed'
  BY <1>1, <1>2, <1>3, <1>4
     DEF CoverParts, KeysSubscribed, Subscribed, CallAlone, RecoveryKnows, DropNoticed, Live
<1>6. \A k \in keys : Promised(k)'
  BY <1>1, <1>2 DEF CoverParts, Promised, Live, SameStates, SameDues, SameFeeds
<1> QED BY <1>1, <1>5, <1>6 DEF CoverParts

\* The new key is delivered at once.
LEMMA CoverRegister ==
  ASSUME TypeOK, ClosedLetsGo, CoverParts, Register
  PROVE  CoverParts'
<1> DEFINE k == call.key
<1>1. /\ call # NoCall /\ k \in Keys /\ call.token \in Tokens
      /\ call' = NoCall /\ keys' = keys \cup {k} /\ UNCHANGED <<connected, recovery>>
  BY CallFields DEF Register, NoCall
<1>2. Live(info) /\ info \in Conns /\ ~closing /\ \A c \in Conns : recovery[c].pc = "idle"
  BY <1>1 DEF CoverParts, CallAlone, Live, TypeOK, ClosedLetsGo
<1>3. \/ k \in keys /\ UNCHANGED feedVars /\ subs' = [subs EXCEPT ![k] = @ \cup {call.token}]
      \/ k \notin keys /\ UpstreamSubscribe(k) /\ subs' = [subs EXCEPT ![k] = {call.token}]
  BY <1>2 DEF Register, UpstreamRaises
<1>4. keys' = Subscribed'
  BY <1>1, <1>3 DEF CoverParts, KeysSubscribed, Subscribed, TypeOK
<1> HIDE DEF k
<1>5. SameStates /\ SameDues /\ UNCHANGED <<info, closing>>
  BY <1>1, <1>3, UpstreamFields DEF feedVars, SameStates, SameDues
<1>6. Live(info)'
  BY <1>2, <1>5 DEF Live, SameStates
<1>7. KeysSubscribed' /\ CallAlone' /\ RecoveryKnows' /\ DropNoticed'
  BY <1>1, <1>2, <1>4, <1>5, <1>6
     DEF CoverParts, KeysSubscribed, CallAlone, RecoveryKnows, DropNoticed
<1>8. ASSUME NEW l \in keys'
      PROVE  Promised(l)'
  <2>1. CASE k \in keys /\ UNCHANGED feedVars
    BY <1>1, <2>1 DEF feedVars, CoverParts, Promised, Live
  <2>2. CASE k \notin keys /\ UpstreamSubscribe(k)
    <3>1. conn'[info].up[k] = conn[info].up[k] + 1 /\ conn[info].up[k] \in Nat
      BY <1>1, <1>2, <2>2, UpstreamFields, ConnFields
    <3>2. CASE l = k
      BY <1>2, <1>6, <3>1, <3>2, <1>5 DEF Promised
    <3>3. CASE l # k
      <4>1. PICK d \in Conns : (Live(d) /\ conn[d].up[l] > 0) \/ conn[d].due > 0
        BY <1>1, <1>2, <3>3 DEF CoverParts, Promised
      <4>2. conn'[d].up[l] = conn[d].up[l] /\ conn'[d].state = conn[d].state /\ conn'[d].due = conn[d].due
        BY <1>1, <1>5, <2>2, <3>3, UpstreamFields DEF SameStates, SameDues, TypeOK
      <4> QED BY <4>1, <4>2 DEF Promised, Live
    <3> QED BY <3>2, <3>3
  <2> QED BY <1>3, <2>1, <2>2
<1> QED BY <1>7, <1>8 DEF CoverParts

\* A drop that is heard of promises every key.
LEMMA CoverDrop ==
  ASSUME TypeOK, CoverParts, Heard', NEW c \in Conns, Drop(c)
  PROVE  CoverParts'
<1>1. UNCHANGED <<connected, keys, subs, call, info, closing, recovery>>
  BY DEF Drop, registryVars
<1>2. call = NoCall /\ conn'[c].due > 0 /\ hit \subseteq hit'
  BY DropMoves, DropFields DEF Heard
<1>3. \A d \in Conns : d # c => conn'[d] = conn[d]
  BY DropFields
<1>4. KeysSubscribed' /\ CallAlone' /\ RecoveryKnows'
  BY <1>1, <1>2 DEF CoverParts, KeysSubscribed, Subscribed, CallAlone, RecoveryKnows
<1>5. DropNoticed'
  BY <1>1, <1>2, <1>3 DEF CoverParts, DropNoticed, Live, TypeOK
<1>6. \A k \in keys' : Promised(k)'
  BY <1>2 DEF Promised
<1> QED BY <1>4, <1>5, <1>6 DEF CoverParts

\* The report hands the promise to a recovery, if there is anything to recover.
LEMMA CoverReport ==
  ASSUME TypeOK, ClosedLetsGo, CoverParts, NEW c \in Conns, Report(c)
  PROVE  CoverParts'
<1>1. UNCHANGED <<keys, subs, call, info, closing>>
  BY DEF Report
<1>2. SameStates /\ \A d \in Conns : d # c => conn'[d] = conn[d]
  BY ReportFields
<1>3. CASE closing /\ UNCHANGED <<connected, recovery>>
  <2>1. info = None /\ keys = {} /\ call = NoCall
    BY <1>3 DEF ClosedLetsGo, CoverParts, KeysSubscribed, CallAlone, Live
  <2> QED BY <1>1, <1>3, <2>1
          DEF CoverParts, KeysSubscribed, Subscribed, CallAlone, RecoveryKnows, DropNoticed
<1>4. CASE ~closing /\ call = NoCall /\ ~connected' /\ keys = {} /\ recovery' = recovery
  BY <1>1, <1>4
     DEF CoverParts, KeysSubscribed, Subscribed, CallAlone, RecoveryKnows, DropNoticed
<1>5. CASE /\ ~closing /\ call = NoCall /\ ~connected' /\ keys # {}
           /\ Recovers(c, Recovery("open", keys, {}))
  <2>1. /\ recovery'[c].pc = "open" /\ recovery'[c].keys = keys
        /\ \A d \in Conns : d # c => recovery'[d] = recovery[d]
    BY <1>5, RecoversFields
  <2>2. KeysSubscribed' /\ CallAlone' /\ RecoveryKnows'
    BY <1>1, <1>5, <2>1 DEF CoverParts, KeysSubscribed, Subscribed, CallAlone, RecoveryKnows
  <2>3. DropNoticed'
    BY <1>1, <1>2, <1>5, <2>1 DEF CoverParts, DropNoticed, Live, SameStates, TypeOK
  <2>4. \A k \in keys' : Promised(k)'
    BY <2>1 DEF Promised
  <2> QED BY <2>2, <2>3, <2>4 DEF CoverParts
<1> QED BY <1>3, <1>4, <1>5, ReportRecovers

\* A recovery keeps the promise until it has opened a connection.
LEMMA CoverReconnect ==
  ASSUME TypeOK, CoverParts, NEW c \in Conns, Reconnect(c)
  PROVE  CoverParts'
<1>1. /\ recovery[c].pc = "open" /\ recovery[c].keys = keys /\ keys # {}
      /\ call = NoCall /\ ~closing
      /\ UNCHANGED <<connected, keys, subs, call>>
  BY DEF Reconnect, registryVars, CoverParts, RecoveryKnows, CallAlone, KeysSubscribed
<1>2. CASE \E d \in Conns : Open(d) /\ Recovers(c, Recovery("hook", recovery[c].keys, recovery[c].todo))
  <2>1. info' # None /\ Live(info)' /\ ~closing'
    BY <1>2, OpenFields DEF Live
  <2>2. /\ recovery'[c].pc = "hook" /\ recovery'[c].keys = keys
        /\ \A d \in Conns : d # c => recovery'[d] = recovery[d]
    BY <1>1, <1>2, RecoversFields
  <2>3. KeysSubscribed' /\ CallAlone' /\ RecoveryKnows' /\ DropNoticed'
    BY <1>1, <2>1, <2>2
       DEF CoverParts, KeysSubscribed, Subscribed, CallAlone, RecoveryKnows, DropNoticed
  <2>4. \A k \in keys' : Promised(k)'
    BY <2>2 DEF Promised
  <2> QED BY <2>3, <2>4 DEF CoverParts
<1>3. CASE OpenFails /\ Recovers(c, Recovery("open", recovery[c].keys, {}))
  <2>1. UNCHANGED <<info, conn>> /\ ~closing'
    BY <1>3 DEF OpenFails
  <2>2. /\ recovery'[c].pc = "open" /\ recovery'[c].keys = keys
        /\ \A d \in Conns : d # c => recovery'[d] = recovery[d]
    BY <1>1, <1>3, RecoversFields
  <2>3. KeysSubscribed' /\ CallAlone' /\ RecoveryKnows'
    BY <1>1, <2>1, <2>2 DEF CoverParts, KeysSubscribed, Subscribed, CallAlone, RecoveryKnows
  <2>4. DropNoticed'
    BY <1>1, <2>1, <2>2 DEF CoverParts, DropNoticed, Live, TypeOK
  <2>5. \A k \in keys' : Promised(k)'
    BY <2>2 DEF Promised
  <2> QED BY <2>3, <2>4, <2>5 DEF CoverParts
<1> QED BY <1>2, <1>3, ReconnectMoves

\* From here it is kept key by key.
LEMMA CoverRecoveryHook ==
  ASSUME TypeOK, CoverParts, NEW c \in Conns, RecoveryHook(c)
  PROVE  CoverParts'
<1>1. /\ recovery[c].pc = "hook" /\ recovery[c].keys = keys /\ keys # {} /\ info # None
      /\ call = NoCall
      /\ UNCHANGED <<connected, keys, subs, call>>
  BY DEF RecoveryHook, registryVars, CoverParts, RecoveryKnows, CallAlone
<1>2. Hook /\ Recovers(c, Recovery("resubscribe", recovery[c].keys, recovery[c].keys))
  BY <1>1, RecoveryHookMoves
<1>3. SameStates /\ SameDues /\ UNCHANGED <<info, closing>>
  BY <1>2, HookFields
<1>4. /\ recovery'[c].pc = "resubscribe" /\ recovery'[c].keys = keys /\ recovery'[c].todo = keys
      /\ \A d \in Conns : d # c => recovery'[d] = recovery[d]
  BY <1>1, <1>2, RecoversFields
<1>5. KeysSubscribed' /\ CallAlone' /\ RecoveryKnows'
  BY <1>1, <1>3, <1>4 DEF CoverParts, KeysSubscribed, Subscribed, CallAlone, RecoveryKnows
<1>6. DropNoticed'
  BY <1>1, <1>3, <1>4 DEF CoverParts, DropNoticed, Live, SameStates, SameDues, TypeOK
<1>7. \A k \in keys' : Promised(k)'
  BY <1>1, <1>4 DEF Promised
<1> QED BY <1>5, <1>6, <1>7 DEF CoverParts

\* A resubscribed key is delivered, or the drop that undid it is known.
LEMMA CoverResubscribe ==
  ASSUME TypeOK, CoverParts, NEW c \in Conns, NEW k \in Keys, Resubscribe(c, k)
  PROVE  CoverParts'
<1>1. /\ recovery[c].pc = "resubscribe" /\ recovery[c].keys = keys /\ keys # {} /\ info # None
      /\ call = NoCall /\ k \in recovery[c].todo
      /\ UNCHANGED <<connected, keys, subs, call>>
  BY DEF Resubscribe, registryVars, CoverParts, RecoveryKnows, CallAlone
<1>2. CASE /\ UpstreamSubscribe(k)
           /\ Recovers(c, Recovery("resubscribe", recovery[c].keys, recovery[c].todo \ {k}))
  <2>1. SameStates /\ SameDues /\ UNCHANGED <<info, closing>> /\ info \in Conns
    BY <1>2, UpstreamFields
  <2>2. /\ recovery'[c].pc = "resubscribe" /\ recovery'[c].keys = keys
        /\ recovery'[c].todo = recovery[c].todo \ {k}
        /\ \A d \in Conns : d # c => recovery'[d] = recovery[d]
    BY <1>1, <1>2, RecoversFields
  <2>3. KeysSubscribed' /\ CallAlone' /\ RecoveryKnows'
    BY <1>1, <2>1, <2>2 DEF CoverParts, KeysSubscribed, Subscribed, CallAlone, RecoveryKnows
  <2>4. DropNoticed'
    BY <1>1, <2>1, <2>2 DEF CoverParts, DropNoticed, Live, SameStates, SameDues, TypeOK
  <2>5. ASSUME NEW l \in keys, l # k
        PROVE  Promised(l)'
    <3>1. \A d \in Conns : conn'[d].up[l] = conn[d].up[l]
      BY <1>2, <2>5, UpstreamFields DEF TypeOK
    <3> QED BY <1>1, <2>1, <2>2, <2>5, <3>1 DEF CoverParts, Promised, Live, SameStates, SameDues
  <2>6. Promised(k)'
    <3>1. CASE Live(info)
      <4>1. conn'[info].up[k] = conn[info].up[k] + 1 /\ conn[info].up[k] \in Nat
        BY <1>2, <2>1, <3>1, UpstreamFields, ConnFields
      <4>2. conn'[info].state = "open"
        BY <2>1, <3>1 DEF Live, SameStates
      <4> QED BY <1>1, <2>1, <4>1, <4>2 DEF Promised, Live
    <3>2. CASE ~Live(info)
      BY <1>1, <2>1, <2>2, <2>4, <3>2 DEF CoverParts, DropNoticed, Promised, SameDues
    <3> QED BY <3>1, <3>2
  <2> QED BY <1>1, <2>3, <2>4, <2>5, <2>6 DEF CoverParts
<1>3. CASE UpstreamRaises /\ Recovers(c, Recovery("open", recovery[c].keys, {}))
  <2>1. UNCHANGED <<info, closing, conn>>
    BY <1>3 DEF UpstreamRaises, feedVars
  <2>2. /\ recovery'[c].pc = "open" /\ recovery'[c].keys = keys
        /\ \A d \in Conns : d # c => recovery'[d] = recovery[d]
    BY <1>1, <1>3, RecoversFields
  <2>3. KeysSubscribed' /\ CallAlone' /\ RecoveryKnows'
    BY <1>1, <2>1, <2>2 DEF CoverParts, KeysSubscribed, Subscribed, CallAlone, RecoveryKnows
  <2>4. DropNoticed'
    BY <1>1, <2>1, <2>2 DEF CoverParts, DropNoticed, Live, TypeOK
  <2>5. \A l \in keys' : Promised(l)'
    BY <2>2 DEF Promised
  <2> QED BY <2>3, <2>4, <2>5 DEF CoverParts
<1> QED BY <1>2, <1>3, ResubscribeMoves

\* A recovery with nothing left to do owes nothing.
LEMMA CoverRecovered ==
  ASSUME TypeOK, CoverParts, NEW c \in Conns, Recovered(c)
  PROVE  CoverParts'
<1>1. /\ recovery[c].pc = "resubscribe" /\ recovery[c].todo = {} /\ keys # {} /\ info # None
      /\ call = NoCall /\ connected'
      /\ UNCHANGED <<keys, subs, call, info, closing, conn>>
  BY DEF Recovered, feedVars, CoverParts, RecoveryKnows
<1>2. /\ recovery'[c].pc = "idle"
      /\ \A d \in Conns : d # c => recovery'[d] = recovery[d]
  BY RecoveredRecovers, RecoversFields
<1>3. KeysSubscribed' /\ CallAlone' /\ RecoveryKnows'
  BY <1>1, <1>2 DEF CoverParts, KeysSubscribed, Subscribed, CallAlone, RecoveryKnows
<1>4. DropNoticed'
  BY <1>1, <1>2 DEF CoverParts, DropNoticed, Live, TypeOK
<1>5. \A k \in keys' : Promised(k)'
  BY <1>1, <1>2 DEF CoverParts, Promised, Live
<1> QED BY <1>3, <1>4, <1>5 DEF CoverParts

\* Every step keeps CoverInv.
LEMMA CoverStep ==
  ASSUME TypeOK, ClosedLetsGo, CoverInv, [Next]_vars
  PROVE  CoverInv'
<1> SUFFICES ASSUME Heard' PROVE CoverParts'
  BY DEF CoverInv, CoverParts
<1>1. CoverParts
  BY HitGrows DEF CoverInv, CoverParts, Heard
<1>2. CASE UNCHANGED vars
  BY <1>1, <1>2 DEF vars, CoverParts, KeysSubscribed, Subscribed, CallAlone, RecoveryKnows,
                    DropNoticed, Promised, Live
<1>3. CASE Next
  BY <1>1, <1>3, CoverSubscribe, CoverUnsubscribe, CoverCallHook, CoverRegister, CoverDrop,
     CoverReport, CoverReconnect, CoverRecoveryHook, CoverResubscribe, CoverRecovered DEF Next
<1> QED BY <1>2, <1>3

\* All of CopyInv but its premise.
CopyParts == OneAtATime /\ LiveIsInfo /\ OncePerKey /\ RecoveryKeys

\* While a call is under way, no recovery is; and a call of the service is let
\* in only then.
LEMMA CallIdle ==
  ASSUME CopyParts, call # NoCall
  PROVE  \A c \in Conns : conn[c].due = 0 /\ recovery[c].pc = "idle"
BY DEF CopyParts, OneAtATime, Settled

LEMMA MayCallIdle ==
  ASSUME TypeOK, NEW with, MayCall(with), Orderly'
  PROVE  call = NoCall /\ Settled /\ \A c \in Conns : conn[c].due = 0 /\ recovery[c].pc = "idle"
BY MayCallHits DEF Orderly, Settled

\* A connection to open, while none is live.
LEMMA CopyOpen ==
  ASSUME TypeOK, NEW c \in Conns, Open(c), \A d \in Conns : ~Live(d)
  PROVE  /\ Live(c)' /\ \A d \in Conns : Live(d)' => d = c
         /\ OncePerKey'
<1>1. Live(c)' /\ info' = c /\ \A k \in Keys : conn'[c].up[k] = 0
  BY OpenFields DEF Live
<1>2. \A d \in Conns : Live(d)' => d = c
  BY OpenFields DEF Live
<1> QED BY <1>1, <1>2 DEF OncePerKey

\* A subscriber opens a connection only when none is live.
LEMMA CopySubscribe ==
  ASSUME TypeOK, CopyParts, Orderly', NEW k \in Keys, NEW t \in Tokens, Subscribe(k, t)
  PROVE  CopyParts'
<1>1. /\ call = NoCall /\ \A c \in Conns : conn[c].due = 0 /\ recovery[c].pc = "idle"
      /\ UNCHANGED <<connected, keys, subs, recovery>>
  BY MayCallIdle DEF Subscribe, registryVars
<1>2. RecoveryKeys'
  BY <1>1 DEF RecoveryKeys
<1>3. CASE connected /\ call' = [pc |-> "register", key |-> k, token |-> t] /\ UNCHANGED feedVars
  <2>1. UNCHANGED <<info, sids, conn>> /\ call'.pc # "hook"
    BY <1>3 DEF feedVars
  <2>2. OneAtATime'
    BY <1>1, <2>1 DEF OneAtATime, Busy, Settled
  <2>3. LiveIsInfo' /\ OncePerKey'
    BY <1>1, <1>3, <2>1 DEF CopyParts, LiveIsInfo, OncePerKey, Opening, Live
  <2> QED BY <1>2, <2>2, <2>3 DEF CopyParts
<1>4. ASSUME NEW c \in Conns, Open(c), ~connected, call' = [pc |-> "hook", key |-> k, token |-> t]
      PROVE  CopyParts'
  <2>1. \A d \in Conns : ~Live(d)
    BY <1>1, <1>4 DEF CopyParts, LiveIsInfo, NoCall
  <2>2. /\ OncePerKey' /\ info' = c /\ \A d \in Conns : Live(d)' => d = c
        /\ \A d \in Conns : conn'[d].due = 0
    BY <1>1, <1>4, <2>1, CopyOpen, OpenFields DEF SameDues
  <2>3. OneAtATime' /\ LiveIsInfo'
    BY <1>1, <1>4, <2>2 DEF OneAtATime, Busy, Settled, LiveIsInfo
  <2> QED BY <1>2, <2>2, <2>3 DEF CopyParts
<1>5. CASE ~connected /\ OpenFails /\ UNCHANGED call
  <2>1. \A d \in Conns : ~Live(d)
    BY <1>1, <1>5 DEF CopyParts, LiveIsInfo, NoCall
  <2>2. \A d \in Conns : ~Live(d)'
    BY <1>5, <2>1 DEF OpenFails, Live
  <2>3. OneAtATime' /\ LiveIsInfo'
    BY <1>1, <1>5, <2>2 DEF OpenFails, OneAtATime, Busy, Settled, LiveIsInfo
  <2>4. OncePerKey'
    BY <1>5, <2>2 DEF OpenFails, OncePerKey, TypeOK, Live
  <2> QED BY <1>2, <2>3, <2>4 DEF CopyParts
<1> QED BY <1>3, <1>4, <1>5 DEF Subscribe

\* The last to leave closes the one connection.
LEMMA CopyUnsubscribe ==
  ASSUME TypeOK, CopyParts, Orderly', NEW k \in Keys, NEW t \in Tokens, Unsubscribe(k, t)
  PROVE  CopyParts'
<1> DEFINE last == subs[k] = {t}
           all == last /\ keys = {k} /\ connected
<1>1. /\ call = NoCall /\ \A c \in Conns : conn[c].due = 0 /\ recovery[c].pc = "idle"
      /\ UNCHANGED <<call, recovery>>
  BY MayCallIdle DEF Unsubscribe
<1>2. RecoveryKeys'
  BY <1>1 DEF RecoveryKeys
<1>3. ~Opening /\ ~Opening'
  BY <1>1 DEF Opening, NoCall
<1>4. CASE last /\ keys' = keys \ {k} /\ Release(k, all) /\ connected' = (connected /\ ~all)
  <2>1. /\ info = None => conn' = conn
        /\ \A d \in Conns : d # info => conn'[d] = conn[d]
        /\ info # None =>
             /\ info \in Conns
             /\ conn'[info].state = IF all THEN "dropped" ELSE conn[info].state
             /\ conn'[info].due = IF all /\ conn[info].hooked /\ Live(info) THEN 1 ELSE conn[info].due
             /\ \A l \in Keys : l # k => conn'[info].up[l] = conn[info].up[l]
             /\ conn'[info].up[k] =
                   IF k \in sids /\ conn[info].up[k] > 0 THEN conn[info].up[k] - 1 ELSE conn[info].up[k]
        /\ sids' = sids \ {k} /\ info' = IF all THEN None ELSE info
    <3>1. all \in BOOLEAN
      BY DEF TypeOK
    <3> HIDE DEF all
    <3> QED BY <1>4, <3>1, ReleaseFields
  <2>2. OneAtATime'
    BY <1>1, <2>1 DEF OneAtATime, Busy, TypeOK
  <2>3. CASE all
    <3>1. \A d \in Conns : ~Live(d)'
      BY <2>1, <2>3 DEF CopyParts, LiveIsInfo, Live
    <3>2. LiveIsInfo' /\ OncePerKey'
      BY <2>1, <2>3, <3>1 DEF LiveIsInfo, OncePerKey, Live
    <3> QED BY <1>2, <2>2, <3>2 DEF CopyParts
  <2>4. CASE ~all
    <3>1. /\ info' = info /\ connected' = connected
          /\ \A d \in Conns : conn'[d].state = conn[d].state /\ conn'[d].due = conn[d].due
      BY <1>4, <2>1, <2>4 DEF TypeOK
    <3>2. LiveIsInfo'
      BY <1>1, <3>1 DEF CopyParts, LiveIsInfo, Live
    <3>3. ASSUME NEW l \in Keys, Live(info)', conn'[info'].up[l] > 0
          PROVE  l # k /\ conn[info].up[l] = conn'[info].up[l] /\ Live(info)
      <4>1. Live(info) /\ info \in Conns /\ info # None
        BY <3>1, <3>3 DEF Live, TypeOK
      <4>2. l # k => conn[info].up[l] = conn'[info].up[l]
        BY <2>1, <4>1
      <4>3. conn[info].up[k] \in Nat
        BY <4>1, ConnFields
      <4>4. conn[info].up[k] > 0 => k \in sids /\ conn[info].up[k] = 1
        BY <4>1 DEF CopyParts, OncePerKey
      <4>5. l # k
        BY <2>1, <3>1, <3>3, <4>1, <4>3, <4>4
      <4> QED BY <4>1, <4>2, <4>5
    <3>4. OncePerKey'
      BY <1>1, <1>3, <1>4, <2>1, <3>1, <3>3 DEF CopyParts, OncePerKey
    <3> QED BY <1>2, <2>2, <3>2, <3>4 DEF CopyParts
  <2> QED BY <2>3, <2>4
<1>5. CASE /\ last /\ keys' = keys \ {k} /\ ReleaseRaises(k) /\ UNCHANGED connected
           /\ MayCall(IF Live(info) THEN {"unready"} ELSE {})
  <2>1. UNCHANGED <<info, conn, connected>> /\ ~Live(info)
    BY <1>5, MayCallHits DEF ReleaseRaises, Orderly
  <2>2. OneAtATime' /\ LiveIsInfo'
    BY <1>1, <2>1 DEF CopyParts, OneAtATime, Busy, Settled, LiveIsInfo, Live
  <2>3. OncePerKey'
    BY <2>1 DEF OncePerKey, Live
  <2> QED BY <1>2, <2>2, <2>3 DEF CopyParts
<1>6. CASE ~last /\ UNCHANGED <<keys, feedVars, connected>>
  BY <1>1, <1>2, <1>6
     DEF feedVars, CopyParts, OneAtATime, Busy, Settled, LiveIsInfo, OncePerKey, Opening, Live
<1> QED BY <1>4, <1>5, <1>6 DEF Unsubscribe

\* A connection gets its handlers before it carries anything.
LEMMA CopyCallHook ==
  ASSUME TypeOK, CopyParts, CallHook
  PROVE  CopyParts'
<1>1. /\ call # NoCall /\ call.pc = "hook" /\ call'.pc = "register" /\ connected'
      /\ UNCHANGED <<keys, subs, recovery>>
  <2>1. call # NoCall
    BY DEF CallHook, NoCall
  <2> QED BY <2>1, CallFields DEF CallHook
<1>2. SameStates /\ SameDues /\ SameFeeds /\ UNCHANGED <<info, sids>>
  BY HookFields DEF CallHook
<1>3. \A c \in Conns : conn[c].due = 0 /\ recovery[c].pc = "idle"
  BY <1>1, CallIdle
<1>4. OneAtATime' /\ RecoveryKeys'
  BY <1>1, <1>2, <1>3 DEF OneAtATime, RecoveryKeys, Busy, Settled, SameDues
<1>5. LiveIsInfo'
  BY <1>1, <1>2, <1>3 DEF CopyParts, LiveIsInfo, Live, SameStates, SameDues
<1>6. OncePerKey'
  BY <1>1, <1>2 DEF CopyParts, OncePerKey, Opening, Live, SameStates, SameFeeds, TypeOK
<1> QED BY <1>4, <1>5, <1>6 DEF CopyParts

\* A key is subscribed once, by the first to want it.
LEMMA CopyRegister ==
  ASSUME TypeOK, CopyParts, Register
  PROVE  CopyParts'
<1> DEFINE k == call.key
<1>1. /\ call # NoCall /\ call.pc = "register" /\ k \in Keys
      /\ call' = NoCall /\ keys' = keys \cup {k} /\ UNCHANGED <<connected, recovery>>
  BY CallFields DEF Register, NoCall
<1>2. \A c \in Conns : conn[c].due = 0 /\ recovery[c].pc = "idle"
  BY <1>1, CallIdle
<1>3. UNCHANGED feedVars \/ (k \notin keys /\ UpstreamSubscribe(k))
  BY DEF Register, UpstreamRaises
<1> HIDE DEF k
<1>4. ~Opening /\ ~Opening' /\ call'.pc # "hook"
  BY <1>1, <1>2 DEF Opening, NoCall
<1>5. SameStates /\ SameDues /\ UNCHANGED info
  BY <1>1, <1>3, UpstreamFields DEF feedVars, SameStates, SameDues
<1>6. OneAtATime' /\ LiveIsInfo' /\ RecoveryKeys'
  BY <1>1, <1>2, <1>5
     DEF CopyParts, OneAtATime, Busy, Settled, LiveIsInfo, RecoveryKeys, Live, SameStates, SameDues
<1>7. OncePerKey'
  <2>1. CASE UNCHANGED feedVars
    BY <1>1, <1>2, <1>4, <2>1 DEF feedVars, CopyParts, OncePerKey, Live
  <2>2. CASE k \notin keys /\ UpstreamSubscribe(k)
    <3> SUFFICES ASSUME NEW l \in Keys, Live(info)', conn'[info'].up[l] > 0
                 PROVE  conn'[info].up[l] = 1 /\ l \in keys' /\ l \in sids'
      BY <1>2, <1>1, <1>4, <1>5 DEF OncePerKey
    <3>1. Live(info) /\ info \in Conns
      BY <1>1, <1>5, <2>2, UpstreamFields DEF Live, SameStates
    <3>2. conn[info].up[k] = 0
      BY <1>1, <2>2, <3>1, ConnFields DEF CopyParts, OncePerKey
    <3>3. CASE l = k
      BY <1>1, <2>2, <3>1, <3>2, <3>3, UpstreamFields
    <3>4. CASE l # k
      BY <1>1, <1>5, <2>2, <3>1, <3>4, UpstreamFields DEF CopyParts, OncePerKey
    <3> QED BY <3>3, <3>4
  <2> QED BY <1>3, <2>1, <2>2
<1> QED BY <1>6, <1>7 DEF CopyParts

\* A drop takes the only live connection.
LEMMA CopyDrop ==
  ASSUME TypeOK, CopyParts, Orderly', NEW c \in Conns, Drop(c)
  PROVE  CopyParts'
<1>1. UNCHANGED <<connected, keys, subs, call, info, closing, recovery>>
  BY DEF Drop, registryVars
<1>2. /\ Live(c) /\ conn'[c].state = "dropped" /\ conn'[c].due \in 0 .. 1
      /\ \A d \in Conns : d # c => conn'[d] = conn[d]
      /\ conn'[c].due > 0 => conn[c].hooked
  BY DropFields DEF Orderly
<1>3. conn[c].hooked => Settled /\ call = NoCall
  BY DropMoves DEF Orderly
<1>4. conn[c].due = 0
  BY <1>2 DEF CopyParts, LiveIsInfo
<1>5. OneAtATime'
  BY <1>1, <1>2, <1>3, <1>4 DEF CopyParts, OneAtATime, Busy, Settled
<1>6. \A d \in Conns : ~Live(d)'
  BY <1>2 DEF CopyParts, LiveIsInfo, Live
<1>7. LiveIsInfo' /\ OncePerKey' /\ RecoveryKeys'
  BY <1>1, <1>6 DEF CopyParts, LiveIsInfo, OncePerKey, RecoveryKeys, Live, TypeOK
<1> QED BY <1>5, <1>7 DEF CopyParts

\* The report starts the one recovery.
LEMMA CopyReport ==
  ASSUME TypeOK, CopyParts, NEW c \in Conns, Report(c)
  PROVE  CopyParts'
<1>1. UNCHANGED <<keys, subs, call, info>>
  BY DEF Report
<1>2. /\ conn[c].due = 1 /\ conn'[c].due = 0 /\ recovery[c].pc = "idle"
      /\ SameStates /\ \A d \in Conns : d # c => conn'[d] = conn[d]
  <2>1. /\ conn[c].due > 0 /\ conn'[c].due = conn[c].due - 1 /\ recovery[c].pc = "idle"
        /\ SameStates /\ \A d \in Conns : d # c => conn'[d] = conn[d]
    BY ReportFields
  <2>2. conn[c].due \in Nat
    BY FieldTypes
  <2>3. conn[c].due <= 1
    BY DEF CopyParts, OneAtATime
  <2>4. conn[c].due = 1
    BY <2>1, <2>2, <2>3
  <2> QED BY <2>1, <2>4
<1>3. call = NoCall
  BY <1>2 DEF CopyParts, OneAtATime, Settled
<1>4. \A d \in Conns : ~Live(d) /\ ~Live(d)'
  BY <1>1, <1>2 DEF CopyParts, LiveIsInfo, Live, SameStates
<1>5. LiveIsInfo' /\ OncePerKey'
  BY <1>1, <1>4 DEF LiveIsInfo, OncePerKey, TypeOK, Live
<1>6. CASE recovery' = recovery
  BY <1>1, <1>2, <1>3, <1>5, <1>6 DEF CopyParts, OneAtATime, Busy, RecoveryKeys
<1>7. CASE Recovers(c, Recovery("open", keys, {}))
  <2>1. /\ recovery'[c].pc = "open" /\ recovery'[c].keys = keys /\ recovery'[c].todo = {}
        /\ \A d \in Conns : d # c => recovery'[d] = recovery[d]
    BY <1>7, RecoversFields
  <2>2. OneAtATime' /\ RecoveryKeys'
    BY <1>1, <1>2, <1>3, <2>1 DEF CopyParts, OneAtATime, Busy, RecoveryKeys
  <2> QED BY <1>5, <2>2 DEF CopyParts
<1> QED BY <1>6, <1>7, ReportRecovers

\* The connections of which nothing is due while c recovers.
LEMMA RecoveringAlone ==
  ASSUME TypeOK, CopyParts, NEW c \in Conns, recovery[c].pc # "idle"
  PROVE  /\ call = NoCall /\ \A d \in Conns : conn[d].due = 0
         /\ \A d \in Conns : d # c => recovery[d].pc = "idle"
         /\ recovery[c].keys = keys /\ recovery[c].todo \subseteq keys
<1>1. call = NoCall
  BY DEF CopyParts, OneAtATime, Settled
<1>2. \A d \in Conns : d # c => ~Busy(d)
  BY DEF CopyParts, OneAtATime, Busy
<1>3. \A d \in Conns : conn[d].due \in {0, 1}
  BY FieldTypes DEF CopyParts, OneAtATime
<1> QED BY <1>1, <1>2, <1>3 DEF Busy, CopyParts, OneAtATime, RecoveryKeys

\* It opens a connection when none is live.
LEMMA CopyReconnect ==
  ASSUME TypeOK, CopyParts, NEW c \in Conns, Reconnect(c)
  PROVE  CopyParts'
<1>1. recovery[c].pc = "open" /\ UNCHANGED <<connected, keys, subs, call>>
  BY DEF Reconnect, registryVars
<1>2. /\ call = NoCall /\ \A d \in Conns : conn[d].due = 0
      /\ \A d \in Conns : d # c => recovery[d].pc = "idle"
      /\ recovery[c].keys = keys /\ recovery[c].todo \subseteq keys
  BY <1>1, RecoveringAlone
<1>3. \A d \in Conns : ~Live(d)
  BY <1>1 DEF CopyParts, LiveIsInfo
<1>4. ASSUME NEW e \in Conns, Open(e), Recovers(c, Recovery("hook", recovery[c].keys, recovery[c].todo))
      PROVE  CopyParts'
  <2>1. /\ OncePerKey' /\ info' = e /\ \A d \in Conns : Live(d)' => d = e
        /\ \A d \in Conns : conn'[d].due = 0
    BY <1>2, <1>3, <1>4, CopyOpen, OpenFields DEF SameDues
  <2>2. /\ recovery'[c].pc = "hook" /\ recovery'[c].keys = keys /\ recovery'[c].todo \subseteq keys
        /\ \A d \in Conns : d # c => recovery'[d] = recovery[d]
    BY <1>2, <1>4, RecoversFields
  <2>3. OneAtATime' /\ LiveIsInfo' /\ RecoveryKeys'
    BY <1>1, <1>2, <2>1, <2>2 DEF OneAtATime, Busy, LiveIsInfo, RecoveryKeys
  <2> QED BY <2>1, <2>3 DEF CopyParts
<1>5. CASE OpenFails /\ Recovers(c, Recovery("open", recovery[c].keys, {}))
  <2>1. \A d \in Conns : ~Live(d)' /\ conn'[d].due = 0
    BY <1>2, <1>3, <1>5 DEF OpenFails, Live
  <2>2. /\ recovery'[c].pc = "open" /\ recovery'[c].keys = keys /\ recovery'[c].todo = {}
        /\ \A d \in Conns : d # c => recovery'[d] = recovery[d]
    BY <1>2, <1>5, RecoversFields
  <2>3. OneAtATime' /\ LiveIsInfo' /\ RecoveryKeys'
    BY <1>1, <1>2, <2>1, <2>2 DEF OneAtATime, Busy, LiveIsInfo, RecoveryKeys
  <2>4. OncePerKey'
    BY <1>5, <2>1 DEF OpenFails, OncePerKey, Live, TypeOK
  <2> QED BY <2>3, <2>4 DEF CopyParts
<1> QED BY <1>4, <1>5, ReconnectMoves

\* It has every key to do, and none is on the wire.
LEMMA CopyRecoveryHook ==
  ASSUME TypeOK, CopyParts, NEW c \in Conns, RecoveryHook(c)
  PROVE  CopyParts'
<1>1. recovery[c].pc = "hook" /\ UNCHANGED <<connected, keys, subs, call>>
  BY DEF RecoveryHook, registryVars
<1>2. /\ call = NoCall /\ \A d \in Conns : conn[d].due = 0
      /\ \A d \in Conns : d # c => recovery[d].pc = "idle"
      /\ recovery[c].keys = keys
  BY <1>1, RecoveringAlone
<1>3. CASE Hook /\ Recovers(c, Recovery("resubscribe", recovery[c].keys, recovery[c].keys))
  <2>1. SameStates /\ SameDues /\ SameFeeds /\ UNCHANGED <<info, sids>>
    BY <1>3, HookFields
  <2>2. /\ recovery'[c].pc = "resubscribe" /\ recovery'[c].keys = keys /\ recovery'[c].todo = keys
        /\ \A d \in Conns : d # c => recovery'[d] = recovery[d]
    BY <1>2, <1>3, RecoversFields
  <2>3. OneAtATime' /\ LiveIsInfo' /\ RecoveryKeys'
    BY <1>1, <1>2, <2>1, <2>2
       DEF CopyParts, OneAtATime, Busy, LiveIsInfo, RecoveryKeys, Live, SameStates, SameDues
  <2>4. OncePerKey'
    BY <1>1, <2>1 DEF CopyParts, OncePerKey, Opening, Live, SameStates, SameFeeds, TypeOK
  <2> QED BY <2>3, <2>4 DEF CopyParts
<1>4. CASE /\ info = None /\ UNCHANGED feedVars
           /\ Recovers(c, Recovery("open", recovery[c].keys, {}))
  <2>1. \A d \in Conns : ~Live(d)'
    BY <1>4 DEF feedVars, CopyParts, LiveIsInfo, Live
  <2>2. /\ recovery'[c].pc = "open" /\ recovery'[c].keys = keys /\ recovery'[c].todo = {}
        /\ \A d \in Conns : d # c => recovery'[d] = recovery[d]
    BY <1>2, <1>4, RecoversFields
  <2>3. OneAtATime' /\ LiveIsInfo' /\ RecoveryKeys'
    BY <1>1, <1>2, <1>4, <2>1, <2>2 DEF feedVars, OneAtATime, Busy, LiveIsInfo, RecoveryKeys
  <2>4. OncePerKey'
    BY <1>4 DEF feedVars, OncePerKey, Live
  <2> QED BY <2>3, <2>4 DEF CopyParts
<1> QED BY <1>3, <1>4, RecoveryHookMoves

\* It subscribes each key once.
LEMMA CopyResubscribe ==
  ASSUME TypeOK, CopyParts, NEW c \in Conns, NEW k \in Keys, Resubscribe(c, k)
  PROVE  CopyParts'
<1>1. /\ recovery[c].pc = "resubscribe" /\ k \in recovery[c].todo
      /\ UNCHANGED <<connected, keys, subs, call>>
  BY DEF Resubscribe, registryVars
<1>2. /\ call = NoCall /\ \A d \in Conns : conn[d].due = 0
      /\ \A d \in Conns : d # c => recovery[d].pc = "idle"
      /\ recovery[c].keys = keys /\ recovery[c].todo \subseteq keys
  BY <1>1, RecoveringAlone
<1>3. CASE /\ UpstreamSubscribe(k)
           /\ Recovers(c, Recovery("resubscribe", recovery[c].keys, recovery[c].todo \ {k}))
  <2>1. SameStates /\ SameDues /\ UNCHANGED info /\ info \in Conns /\ sids' = sids \cup {k}
    BY <1>3, UpstreamFields
  <2>2. /\ recovery'[c].pc = "resubscribe" /\ recovery'[c].keys = keys
        /\ recovery'[c].todo = recovery[c].todo \ {k}
        /\ \A d \in Conns : d # c => recovery'[d] = recovery[d]
    BY <1>2, <1>3, RecoversFields
  <2>3. OneAtATime' /\ LiveIsInfo' /\ RecoveryKeys'
    BY <1>1, <1>2, <2>1, <2>2
       DEF CopyParts, OneAtATime, Busy, LiveIsInfo, RecoveryKeys, Live, SameStates, SameDues
  <2>4. ~Opening'
    BY <1>1, <1>2, <2>2 DEF Opening, NoCall
  <2>5. ASSUME NEW l \in Keys, Live(info)', conn'[info'].up[l] > 0
        PROVE  /\ conn'[info].up[l] = 1 /\ l \in keys /\ l \in sids'
               /\ l \notin recovery'[c].todo
    <3>1. Live(info)
      BY <2>1, <2>5 DEF Live, SameStates
    <3>2. conn[info].up[k] = 0
      BY <1>1, <2>1, <3>1, ConnFields DEF CopyParts, OncePerKey
    <3>3. CASE l = k
      BY <1>1, <1>2, <1>3, <2>1, <2>2, <3>1, <3>2, <3>3, UpstreamFields
    <3>4. CASE l # k
      <4>1. conn'[info].up[l] = conn[info].up[l]
        BY <1>3, <3>4, UpstreamFields
      <4> QED BY <1>1, <2>1, <2>2, <2>5, <3>1, <4>1 DEF CopyParts, OncePerKey
    <3> QED BY <3>3, <3>4
  <2>6. OncePerKey'
    BY <1>1, <1>2, <2>1, <2>2, <2>4, <2>5 DEF OncePerKey
  <2> QED BY <2>3, <2>6 DEF CopyParts
<1>4. CASE UpstreamRaises /\ Recovers(c, Recovery("open", recovery[c].keys, {}))
  <2>1. UNCHANGED <<info, conn>> /\ ~Live(info)
    BY <1>4 DEF UpstreamRaises, feedVars
  <2>2. \A d \in Conns : ~Live(d)'
    BY <2>1 DEF CopyParts, LiveIsInfo, Live
  <2>3. /\ recovery'[c].pc = "open" /\ recovery'[c].keys = keys /\ recovery'[c].todo = {}
        /\ \A d \in Conns : d # c => recovery'[d] = recovery[d]
    BY <1>2, <1>4, RecoversFields
  <2>4. OneAtATime' /\ LiveIsInfo' /\ RecoveryKeys'
    BY <1>1, <1>2, <2>1, <2>2, <2>3 DEF OneAtATime, Busy, LiveIsInfo, RecoveryKeys
  <2>5. OncePerKey'
    BY <2>1 DEF OncePerKey, Live
  <2> QED BY <2>4, <2>5 DEF CopyParts
<1> QED BY <1>3, <1>4, ResubscribeMoves

\* Done, the service owns up to the connection.
LEMMA CopyRecovered ==
  ASSUME TypeOK, CopyParts, NEW c \in Conns, Recovered(c)
  PROVE  CopyParts'
<1>1. /\ recovery[c].pc = "resubscribe" /\ connected'
      /\ UNCHANGED <<keys, subs, call, info, sids, conn>>
  BY DEF Recovered, feedVars
<1>2. /\ call = NoCall /\ \A d \in Conns : conn[d].due = 0
      /\ \A d \in Conns : d # c => recovery[d].pc = "idle"
  BY <1>1, RecoveringAlone
<1>3. /\ recovery'[c].pc = "idle"
      /\ \A d \in Conns : d # c => recovery'[d] = recovery[d]
  BY RecoveredRecovers, RecoversFields
<1>4. OneAtATime' /\ RecoveryKeys'
  BY <1>1, <1>2, <1>3 DEF OneAtATime, Busy, RecoveryKeys
<1>5. LiveIsInfo' /\ OncePerKey'
  BY <1>1, <1>2, <1>3 DEF CopyParts, LiveIsInfo, OncePerKey, Opening, Live
<1> QED BY <1>4, <1>5 DEF CopyParts

\* Every step keeps CopyInv.
LEMMA CopyStep ==
  ASSUME TypeOK, CopyInv, [Next]_vars
  PROVE  CopyInv'
<1> SUFFICES ASSUME Orderly' PROVE CopyParts'
  BY DEF CopyInv, CopyParts
<1>1. CopyParts
  BY HitGrows DEF CopyInv, CopyParts, Orderly
<1>2. CASE UNCHANGED vars
  BY <1>1, <1>2 DEF vars, CopyParts, OneAtATime, Busy, Settled, LiveIsInfo, OncePerKey, Opening,
                    RecoveryKeys, Live
<1>3. CASE Next
  BY <1>1, <1>3, CopySubscribe, CopyUnsubscribe, CopyCallHook, CopyRegister, CopyDrop,
     CopyReport, CopyReconnect, CopyRecoveryHook, CopyResubscribe, CopyRecovered DEF Next
<1> QED BY <1>2, <1>3

-----------------------------------------------------------------------------
(* The theorems.                                                           *)

\* Both invariants together, by induction over the steps.
LEMMA Invariance == Spec => []IInv
<1>1. Init => IInv
  <2> SUFFICES ASSUME Init PROVE IInv
    OBVIOUS
  <2>1. /\ ~connected /\ keys = {} /\ call = NoCall /\ info = None /\ ~closing
        /\ \A c \in Conns : conn[c].state = "unused" /\ conn[c].due = 0 /\ recovery[c].pc = "idle"
    BY DEF Init, Unused, NoRecovery
  <2>2. Subscribed = {}
    BY DEF Init, Subscribed
  <2>3. CoverInv
    BY <2>1, <2>2 DEF CoverInv, KeysSubscribed, CallAlone, RecoveryKnows, DropNoticed
  <2>4. CopyInv
    BY <2>1 DEF CopyInv, OneAtATime, Busy, LiveIsInfo, OncePerKey, RecoveryKeys, Live, NoCall
  <2> QED BY <2>1, <2>3, <2>4, TypeInit DEF IInv, ClosedLetsGo
<1>2. IInv /\ [Next]_vars => IInv'
  BY TypeStep, ClosedStep, CoverStep, CopyStep DEF IInv
<1> QED BY <1>1, <1>2, PTL DEF Spec

\* The service, the feed and the recoveries keep their types.
THEOREM TypeInvariance == Spec => []TypeOK
BY Invariance, PTL DEF IInv

\* Whatever drops, how often and in how many reports, everyone who has subscribed
\* is covered once the dust has settled, for any number of keys, subscribers and
\* connections, unless subscribers come and go meanwhile or a drop goes unreported
\* (market_data.py:58-86, 107-128).
THEOREM FeedsAreCovered == Spec => []Covered
<1>1. IInv => Covered
  <2> SUFFICES ASSUME IInv, Heard, Quiet, NEW k \in Subscribed
               PROVE  \E c \in Conns : Live(c) /\ conn[c].up[k] > 0
    BY DEF Covered, EveryFeedResubscribed, Heard
  <2>1. k \in keys /\ Promised(k)
    BY DEF IInv, CoverInv, KeysSubscribed
  <2>2. \A c \in Conns : conn[c].due = 0 /\ recovery[c].pc = "idle"
    BY DEF Quiet, Settled
  <2> QED BY <2>1, <2>2 DEF Promised
<1> QED BY <1>1, Invariance, PTL

\* There is one connection, with each feed once, as long as drops come one at a
\* time, reported once, with nobody else about (market_data.py:58-71, 107-128).
THEOREM OneConnectionForAll == Spec => []OneCopy
<1>1. IInv => OneCopy
  <2> SUFFICES ASSUME IInv, Orderly, NEW c \in Conns, NEW d \in Conns, Live(c), Live(d)
               PROVE  c = d /\ \A k \in Keys : conn[c].up[k] <= 1
    BY DEF OneCopy, Orderly
  <2>1. c = info /\ d = info
    BY DEF IInv, CopyInv, LiveIsInfo
  <2>2. \A k \in Keys : conn[c].up[k] \in Nat /\ (conn[c].up[k] > 0 => conn[c].up[k] = 1)
    BY <2>1, ConnFields DEF IInv, CopyInv, OncePerKey
  <2> QED BY <2>1, <2>2
<1> QED BY <1>1, Invariance, PTL

\* Undisturbed but for single drops, the service is connected just when somebody is
\* subscribed, and says so (market_data.py:73-94, 107-128).
THEOREM ConnectedOnDemand == Spec => []OnDemand
<1>1. IInv => OnDemand
  <2> SUFFICES ASSUME IInv, hit = {}, Quiet
               PROVE  /\ (Subscribed # {}) = connected
                      /\ connected <=> \E c \in Conns : Live(c)
    BY DEF OnDemand
  <2>1. Heard /\ Orderly
    BY DEF Heard, Orderly
  <2>2. call = NoCall /\ \A c \in Conns : conn[c].due = 0 /\ recovery[c].pc = "idle"
    BY DEF Quiet, Settled
  <2>3. ASSUME NEW c \in Conns, Live(c)
        PROVE  connected
    BY <2>1, <2>2, <2>3 DEF IInv, CopyInv, LiveIsInfo, NoCall
  <2>4. Subscribed # {} => \E c \in Conns : Live(c)
    BY <2>1, <2>2 DEF IInv, CoverInv, KeysSubscribed, Promised
  <2>5. connected => Subscribed # {} /\ info \in Conns /\ Live(info)
    BY <2>1, <2>2 DEF IInv, CoverInv, KeysSubscribed, DropNoticed, TypeOK
  <2>6. connected \in BOOLEAN
    BY DEF IInv, TypeOK
  <2> QED BY <2>3, <2>4, <2>5, <2>6
<1> QED BY <1>1, Invariance, PTL
=============================================================================
