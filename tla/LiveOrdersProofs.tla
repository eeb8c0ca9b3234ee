-------------------------- MODULE LiveOrdersProofs --------------------------
(***************************************************************************)
(* Proofs about LiveOrders for any orders, plugins and length of run.      *)
(*                                                                         *)
(* An order is only ever in the hands of its own plugin's thread, so the   *)
(* inductive invariant is a statement about each thread (Sound) and one    *)
(* about each order (Tracked), and a step that concerns one order and its  *)
(* owner leaves all the others as they were (LocalStep).                   *)
(***************************************************************************)
EXTENDS LiveOrders, TLAPS

\* What became of an open order is at the venue, in the stream, or excused.
Fated(c) ==
  \/ ledger[c] \notin OpenStates
  \/ venue[c] = "resting"
  \/ c \in news
  \/ hit[c] \cap {"garbled", "confirm", "venue", "unheard", "restart"} # {}

\* What a thread carries is its own order, and true of it or excused.
Sound(p) ==
  /\ thread[p].pc # "idle" => Intent[thread[p].cloid].plugin = p
  /\ thread[p].pc = "send" => /\ venue[thread[p].cloid] = Absent
                              /\ ledger[thread[p].cloid] = "pending"
  /\ thread[p].pc = "answer" =>
       /\ thread[p].state \in {"refused", "error"} => venue[thread[p].cloid] = "rejected"
       /\ thread[p].state = "filled" => venue[thread[p].cloid] = "filled"
       /\ thread[p].state = "resting" => Fated(thread[p].cloid)
  /\ thread[p].pc = "apply" =>
       /\ thread[p].state = "rejected" =>
            \/ venue[thread[p].cloid] \in {Absent, "rejected"}
            \/ "answer" \in hit[thread[p].cloid]
       /\ thread[p].state \in {"filled", "cancelled"} =>
            venue[thread[p].cloid] = thread[p].state
       /\ thread[p].state = "resting" =>
            Fated(thread[p].cloid) /\ thread[p].cloid \in coins
  /\ thread[p].pc = "ask" => Fated(thread[p].cloid)
  /\ thread[p].pc = "confirm" =>
       /\ thread[p].state = "cancelled" => venue[thread[p].cloid] = "cancelled"
       /\ thread[p].state # "cancelled" => Fated(thread[p].cloid)

Reported(c) ==
  c \in news => /\ venue[c] # Absent
                /\ venue[c] = "filled" \/ "partial" \in hit[c]

Unsent(c) == ledger[c] = Absent => venue[c] = Absent

Counted(c) ==
  venue[c] = "resting" =>
    ledger[c] \in OpenStates \/ hit[c] \cap {"answer", "partial"} # {}

Truthful(c) ==
  ledger[c] \in TerminalStates =>
    \/ ledger[c] = venue[c]
    \/ ledger[c] = "rejected" /\ venue[c] = Absent
    \/ hit[c] \cap {"answer", "partial"} # {}

Followed(c) == InHand(c) \/ Fated(c)

Known(c) ==
  ledger[c] = "resting" /\ venue[c] = "resting" => c \in coins \/ "restart" \in hit[c]

\* The reports about an order, and the four properties, of one order.
Tracked(c) == Reported(c) /\ Unsent(c) /\ Counted(c) /\ Truthful(c) /\ Followed(c) /\ Known(c)

IInv ==
  /\ LiveTypeOK
  /\ \A p \in Plugins : Sound(p)
  /\ \A c \in Cloids : Tracked(c)

-----------------------------------------------------------------------------
(* Words and types.                                                        *)

LEMMA LedgerWords ==
  /\ Store!Absent = Absent
  /\ Store!OpenStates = OpenStates
  /\ Store!OrderState = OrderState
  /\ Store!Rank = Rank
BY DEF Store!Absent, Absent, Store!OpenStates, OpenStates, Store!TerminalStates,
       TerminalStates, Store!OrderState, OrderState, Store!Rank, Rank

LEMMA Owner == \A c \in Cloids : Intent[c].plugin \in Plugins
BY IntentAssumption DEF OrderIntent

LEMMA ThreadTypes ==
  /\ ThreadIdle \in ThreadState /\ ThreadIdle.pc = "idle"
  /\ \A c \in Cloids, pc \in {"send", "ask", "confirm"} :
       /\ At(pc, c) \in ThreadState
       /\ At(pc, c).pc = pc /\ At(pc, c).cloid = c /\ At(pc, c).state = Absent
  /\ \A c \in Cloids, resp \in Response :
       /\ Holding("answer", c, resp) \in ThreadState
       /\ Holding("answer", c, resp).pc = "answer"
       /\ Holding("answer", c, resp).cloid = c /\ Holding("answer", c, resp).state = resp
  /\ \A c \in Cloids :
       /\ Holding("confirm", c, "cancelled") \in ThreadState
       /\ Holding("confirm", c, "cancelled").pc = "confirm"
       /\ Holding("confirm", c, "cancelled").cloid = c
       /\ Holding("confirm", c, "cancelled").state = "cancelled"
  /\ \A c \in Cloids, s \in {"resting", "filled", "cancelled", "rejected"} :
       /\ Holding("apply", c, s) \in ThreadState
       /\ Holding("apply", c, s).pc = "apply"
       /\ Holding("apply", c, s).cloid = c /\ Holding("apply", c, s).state = s
<1>1. ThreadIdle \in ThreadState /\ ThreadIdle.pc = "idle"
  BY DEF ThreadIdle, ThreadState
<1>2. ASSUME NEW c \in Cloids, NEW pc \in {"send", "ask", "confirm"}
      PROVE  /\ At(pc, c) \in ThreadState
             /\ At(pc, c).pc = pc /\ At(pc, c).cloid = c /\ At(pc, c).state = Absent
  <2>1. At(pc, c) \in ThreadState
    BY DEF ThreadState
  <2>2. QED BY <2>1 DEF At
<1>3. ASSUME NEW c \in Cloids, NEW resp \in Response
      PROVE  Holding("answer", c, resp) \in ThreadState
  BY DEF ThreadState
<1>4. ASSUME NEW c \in Cloids PROVE Holding("confirm", c, "cancelled") \in ThreadState
  BY DEF ThreadState
<1>5. ASSUME NEW c \in Cloids, NEW s \in {"resting", "filled", "cancelled", "rejected"}
      PROVE  Holding("apply", c, s) \in ThreadState
  <2>1. s \in OrderState \ {"pending"}
    BY DEF OrderState, OpenStates, TerminalStates
  <2>2. QED BY <2>1 DEF ThreadState
<1>6. \A pc, c, s : /\ Holding(pc, c, s).pc = pc /\ Holding(pc, c, s).cloid = c
                    /\ Holding(pc, c, s).state = s
  BY DEF Holding
<1>7. QED BY <1>1, <1>2, <1>3, <1>4, <1>5, <1>6

LEMMA ThreadParts ==
  \A t \in ThreadState :
    /\ t.pc = "idle" => t = ThreadIdle
    /\ t.pc # "idle" => t.cloid \in Cloids
    /\ t.pc = "answer" => t.state \in Response
    /\ t.pc = "apply" => t.state \in {"resting", "filled", "cancelled", "rejected"}
BY DEF ThreadIdle, At, Holding, ThreadState, OrderState, OpenStates, TerminalStates

\* An update changes its own order, only an open one, and only forwards.
LEMMA AppliedForwards ==
  ASSUME LiveTypeOK, NEW c \in Cloids, NEW s \in {"resting", "filled", "cancelled", "rejected"},
         ledger' = Applied(c, s)
  PROVE  /\ ledger' \in [Cloids -> OrderState \cup {Absent}]
         /\ \A d \in Cloids \ {c} : ledger'[d] = ledger[d]
         /\ ledger'[c] = ledger[c] \/ (ledger[c] \in OpenStates /\ ledger'[c] = s)
         /\ s # "resting" => ledger'[c] \notin OpenStates
<1>1. ledger \in [Cloids -> OrderState \cup {Absent}]
  BY LedgerWords DEF LiveTypeOK, Store!TypeOK
<1>2. s \in OrderState
  BY DEF OrderState, OpenStates, TerminalStates
<1>3. CASE Store!Advances(c, s)
  <2>1. ledger' = [ledger EXCEPT ![c] = s]
    BY <1>3 DEF Applied
  <2>2. ledger[c] \in OpenStates /\ Rank[s] > Rank[ledger[c]]
    BY <1>3, LedgerWords DEF Store!Advances
  <2>3. s # "resting" => s \notin OpenStates
    BY DEF OpenStates
  <2>4. QED BY <1>1, <1>2, <2>1, <2>2, <2>3
<1>4. CASE ~Store!Advances(c, s)
  <2>1. ledger' = ledger
    BY <1>4 DEF Applied
  <2>2. s # "resting" => ledger[c] \notin OpenStates
    BY <1>1, <1>2, <1>4, LedgerWords DEF Store!Advances, Rank, OpenStates, TerminalStates, OrderState
  <2>3. QED BY <1>1, <2>1, <2>2
<1>5. QED BY <1>3, <1>4

-----------------------------------------------------------------------------
(* A step about one order and its owner's thread is no concern of others.  *)

LEMMA LocalStep ==
  ASSUME IInv, NEW c \in Cloids, NEW p \in Plugins, Intent[c].plugin = p,
         \A q \in Plugins \ {p} : thread'[q] = thread[q],
         thread'[p] = thread[p] \/ thread[p].pc = "idle" \/ thread[p].cloid = c,
         \A d \in Cloids \ {c} : /\ ledger'[d] = ledger[d] /\ venue'[d] = venue[d]
                                 /\ hit'[d] = hit[d]
                                 /\ d \in coins <=> d \in coins'
                                 /\ d \in news <=> d \in news'
  PROVE  /\ \A q \in Plugins :
              thread'[q] = thread[q] /\ (q # p \/ thread[q].pc = "idle" \/ thread[q].cloid # c)
                => Sound(q)'
         /\ \A d \in Cloids \ {c} : Tracked(d)'
<1>1. ASSUME NEW d \in Cloids \ {c} PROVE Fated(d) => Fated(d)'
  BY <1>1 DEF Fated
<1>2. ASSUME NEW q \in Plugins, thread'[q] = thread[q],
             q # p \/ thread[q].pc = "idle" \/ thread[q].cloid # c
      PROVE  Sound(q)'
  <2>1. Sound(q) /\ thread[q] \in ThreadState
    BY DEF IInv, LiveTypeOK
  <2>2. CASE thread[q].pc = "idle"
    BY <1>2, <2>2 DEF Sound
  <2>3. CASE thread[q].pc # "idle"
    <3>1. thread[q].cloid \in Cloids \ {c}
      BY <1>2, <2>1, <2>3, ThreadParts DEF Sound
    <3>2. QED BY <1>1, <1>2, <2>1, <3>1 DEF Sound
  <2>4. QED BY <2>2, <2>3
<1>3. ASSUME NEW d \in Cloids \ {c} PROVE Tracked(d)'
  <2>1. Tracked(d)
    BY DEF IInv
  <2>2. InHand(d) => InHand(d)'
    BY DEF InHand
  <2>3. Followed(d)'
    BY <1>1, <2>1, <2>2 DEF Tracked, Followed
  <2>4. Reported(d)' /\ Unsent(d)' /\ Counted(d)' /\ Truthful(d)' /\ Known(d)'
    BY <2>1 DEF Tracked, Reported, Unsent, Counted, Truthful, Known
  <2>5. QED BY <2>3, <2>4 DEF Tracked
<1>4. QED BY <1>2, <1>3

\* What is left to show of such a step.
LEMMA OneOrder ==
  ASSUME IInv, NEW c \in Cloids, NEW p \in Plugins, Intent[c].plugin = p,
         \A q \in Plugins \ {p} : thread'[q] = thread[q],
         thread'[p] = thread[p] \/ thread[p].pc = "idle" \/ thread[p].cloid = c,
         \A d \in Cloids \ {c} : /\ ledger'[d] = ledger[d] /\ venue'[d] = venue[d]
                                 /\ hit'[d] = hit[d]
                                 /\ d \in coins <=> d \in coins'
                                 /\ d \in news <=> d \in news',
         LiveTypeOK', Tracked(c)',
         Sound(p)' \/ (thread'[p] = thread[p]
                         /\ (thread[p].pc = "idle" \/ thread[p].cloid # c))
  PROVE  IInv'
<1>1. /\ \A q \in Plugins :
           thread'[q] = thread[q] /\ (q # p \/ thread[q].pc = "idle" \/ thread[q].cloid # c)
             => Sound(q)'
      /\ \A d \in Cloids \ {c} : Tracked(d)'
  BY LocalStep
<1>2. \A q \in Plugins : Sound(q)'
  BY <1>1
<1>3. \A d \in Cloids : Tracked(d)'
  BY <1>1
<1>4. QED BY <1>2, <1>3 DEF IInv

\* The types, in the form the steps use them.
LEMMA Types ==
  ASSUME LiveTypeOK
  PROVE  /\ ledger \in [Cloids -> OrderState \cup {Absent}]
         /\ thread \in [Plugins -> ThreadState]
         /\ venue \in [Cloids -> OrderState \cup {Absent}]
         /\ hit \in [Cloids -> SUBSET Disturbance]
         /\ coins \subseteq Cloids /\ news \subseteq Cloids
BY LedgerWords DEF LiveTypeOK, Store!TypeOK

\* A thread that is not idle carries an order of its plugin.
LEMMA Carried ==
  ASSUME IInv, NEW p \in Plugins, thread[p].pc # "idle"
  PROVE  thread[p].cloid \in Cloids /\ Intent[thread[p].cloid].plugin = p /\ up
BY Types, ThreadTypes, ThreadParts DEF IInv, Sound, LiveTypeOK

LEMMA Struck ==
  ASSUME LiveTypeOK, NEW S, NEW d \in Disturbance, Strike(S, d)
  PROVE  /\ hit' \in [Cloids -> SUBSET Disturbance]
         /\ \A c \in Cloids : hit'[c] = hit[c] \cup (IF c \in S THEN {d} ELSE {})
<1>1. hit' = [c \in Cloids |-> hit[c] \cup (IF c \in S THEN {d} ELSE {})]
  BY DEF Strike
<1>2. \A c \in Cloids : hit[c] \cup (IF c \in S THEN {d} ELSE {}) \in SUBSET Disturbance
  BY Types
<1>3. QED BY <1>1, <1>2

LEMMA Announced ==
  ASSUME LiveTypeOK, NEW c \in Cloids, Announce(c)
  PROVE  /\ hit' \in [Cloids -> SUBSET Disturbance]
         /\ \A d \in Cloids \ {c} : hit'[d] = hit[d] /\ (d \in news <=> d \in news')
         /\ news' \subseteq Cloids /\ (~listening => news' = {})
         /\ hit[c] \subseteq hit'[c]
         /\ c \in news' \/ "unheard" \in hit'[c]
<1>1. CASE listening /\ news' = news \cup {c} /\ UNCHANGED hit
  BY <1>1, Types
<1>2. CASE ~listening /\ Strike({c}, "unheard") /\ UNCHANGED news
  <2>1. "unheard" \in Disturbance
    BY DEF Disturbance
  <2>2. /\ hit' \in [Cloids -> SUBSET Disturbance]
        /\ \A e \in Cloids : hit'[e] = hit[e] \cup (IF e \in {c} THEN {"unheard"} ELSE {})
    BY <1>2, <2>1, Struck
  <2>3. \A d \in Cloids \ {c} : hit'[d] = hit[d]
    BY <2>2
  <2>4. hit'[c] = hit[c] \cup {"unheard"}
    BY <2>2
  <2>5. news' = news /\ (~listening => news' = {}) /\ news \subseteq Cloids
    BY <1>2 DEF LiveTypeOK
  <2>6. QED BY <2>2, <2>3, <2>4, <2>5
<1>3. QED BY <1>1, <1>2 DEF Announce

\* A step of a thread that keeps the other variables in their sets is well typed.
LEMMA ThreadMoves ==
  ASSUME LiveTypeOK, up, NEW p \in Plugins, NEW t \in ThreadState,
         thread' = [thread EXCEPT ![p] = t],
         UNCHANGED <<up, listening>>,
         ledger' \in [Cloids -> OrderState \cup {Absent}],
         venue' \in [Cloids -> OrderState \cup {Absent}],
         hit' \in [Cloids -> SUBSET Disturbance],
         coins' \subseteq Cloids, news' \subseteq Cloids, ~listening => news' = {}
  PROVE  LiveTypeOK' /\ thread'[p] = t /\ \A q \in Plugins \ {p} : thread'[q] = thread[q]
<1>1. thread' \in [Plugins -> ThreadState]
  BY Types
<1>2. up'
  OBVIOUS
<1>3. LiveTypeOK'
  BY <1>1, <1>2, LedgerWords DEF LiveTypeOK, Store!TypeOK
<1>4. QED BY <1>3, Types

-----------------------------------------------------------------------------
(* The threads' steps.                                                     *)

LEMMA SubmitKeeps ==
  ASSUME IInv, NEW p \in Plugins, NEW c \in Cloids, Submit(p, c)
  PROVE  IInv'
<1>1. /\ ledger[c] = Absent /\ ledger' = [ledger EXCEPT ![c] = "pending"]
      /\ thread' = [thread EXCEPT ![p] = At("send", c)]
      /\ thread[p] = ThreadIdle /\ Intent[c].plugin = p /\ up
      /\ UNCHANGED <<up, coins, listening, news, venue, hit>>
  BY LedgerWords DEF Submit, Store!Record, Goto
<1>2. LiveTypeOK
  BY DEF IInv
<1>3. /\ At("send", c) \in ThreadState /\ At("send", c).pc = "send"
      /\ At("send", c).cloid = c
  BY ThreadTypes
<1>5. ledger'[c] = "pending" /\ \A d \in Cloids \ {c} : ledger'[d] = ledger[d]
  BY <1>1, <1>2, Types
<1>6. ledger' \in [Cloids -> OrderState \cup {Absent}]
  BY <1>1, <1>2, Types DEF OrderState, OpenStates
<1>4. /\ LiveTypeOK' /\ thread'[p] = At("send", c)
      /\ \A q \in Plugins \ {p} : thread'[q] = thread[q]
  <2>1. ~listening => news = {}
    BY <1>2 DEF LiveTypeOK
  <2>2. QED BY <1>1, <1>2, <1>3, <1>6, <2>1, Types, ThreadMoves
<1>7. venue[c] = Absent /\ c \notin news
  BY <1>1 DEF IInv, Tracked, Unsent, Reported
<1>8. Sound(p)'
  BY <1>1, <1>3, <1>4, <1>5, <1>7 DEF Sound
<1>9. Tracked(c)'
  <2>1. InHand(c)'
    BY <1>3, <1>4 DEF InHand
  <2>2. QED
    BY <1>1, <1>5, <1>7, <2>1 DEF Tracked, Reported, Unsent, Counted, Truthful, Followed,
       Known, Absent, OpenStates, TerminalStates
<1>10. thread[p].pc = "idle"
  BY <1>1, ThreadTypes
<1>11. QED BY <1>1, <1>4, <1>5, <1>8, <1>9, <1>10, OneOrder

LEMMA VenueTakesKeeps ==
  ASSUME IInv, NEW p \in Plugins, NEW c \in Cloids, thread[p].cloid = c, VenueTakes(p)
  PROVE  IInv'
<1>1. Intent[c].plugin = p /\ up
  BY Carried DEF VenueTakes
<1>2. /\ LiveTypeOK /\ venue[c] = Absent /\ ledger[c] = "pending"
      /\ thread[p].pc = "send"
      /\ UNCHANGED <<up, ledger, coins, listening>>
  BY DEF IInv, VenueTakes, Sound
<1>3. PICK resp \in Response :
        /\ thread' = [thread EXCEPT ![p] = Holding("answer", c, resp)]
        /\ \/ /\ resp \in {"refused", "error"} /\ venue' = [venue EXCEPT ![c] = "rejected"]
              /\ UNCHANGED <<news, hit>>
           \/ /\ resp = "resting" /\ venue' = [venue EXCEPT ![c] = "resting"]
              /\ UNCHANGED <<news, hit>>
           \/ resp = "filled" /\ venue' = [venue EXCEPT ![c] = "filled"] /\ Announce(c)
  BY DEF VenueTakes, Goto, VenueDoes
<1> DEFINE t == Holding("answer", c, resp)
<1>4. t \in ThreadState /\ t.pc = "answer" /\ t.cloid = c /\ t.state = resp
  BY <1>1, ThreadTypes
<1> HIDE DEF t
<1>6. /\ \A d \in Cloids \ {c} : venue'[d] = venue[d]
      /\ venue'[c] = IF resp \in {"resting", "filled"} THEN resp ELSE "rejected"
      /\ venue' \in [Cloids -> OrderState \cup {Absent}]
  BY <1>1, <1>2, <1>3, Types DEF OrderState, OpenStates, TerminalStates
<1>7. /\ \A d \in Cloids \ {c} : hit'[d] = hit[d] /\ (d \in news <=> d \in news')
      /\ hit' \in [Cloids -> SUBSET Disturbance]
      /\ news' \subseteq Cloids /\ (~listening => news' = {})
      /\ hit[c] \subseteq hit'[c]
      /\ resp = "filled" \/ (news' = news /\ hit' = hit)
  <2>1. CASE resp = "filled"
    BY <1>1, <1>2, <1>3, <2>1, Announced
  <2>2. CASE resp # "filled"
    BY <1>2, <1>3, <2>2, Types DEF LiveTypeOK
  <2>3. QED BY <2>1, <2>2
<1>5. LiveTypeOK' /\ thread'[p] = t /\ \A q \in Plugins \ {p} : thread'[q] = thread[q]
  <2>1. thread' = [thread EXCEPT ![p] = t]
    BY <1>3 DEF t
  <2>2. QED BY <1>1, <1>2, <1>4, <1>6, <1>7, <2>1, Types, ThreadMoves
<1>9. Tracked(c)
  BY <1>1 DEF IInv
<1>10. c \notin news
  BY <1>2, <1>9 DEF Tracked, Reported
<1>11. Sound(p)'
  BY <1>1, <1>4, <1>5, <1>6 DEF Sound, Fated
<1>12. Tracked(c)'
  <2>1. InHand(c)'
    BY <1>4, <1>5 DEF InHand
  <2>2. Reported(c)'
    BY <1>6, <1>7, <1>10 DEF Reported, Absent
  <2>3. QED
    BY <1>2, <2>1, <2>2 DEF Tracked, Unsent, Counted, Truthful, Followed,
       Known, Absent, OpenStates, TerminalStates
<1>13. QED BY <1>1, <1>2, <1>5, <1>6, <1>7, <1>11, <1>12, OneOrder

\* A step that only adds to the history, or forgets the coin of an order that
\* does not rest, keeps all but the trace of the order.
LEMMA QuietTracked ==
  ASSUME NEW c \in Cloids, Tracked(c), UNCHANGED <<ledger, venue, news>>,
         hit[c] \subseteq hit'[c],
         c \in coins => c \in coins' \/ venue[c] # "resting",
         Followed(c)'
  PROVE  Tracked(c)'
<1>1. Reported(c)' /\ Unsent(c)'
  BY DEF Tracked, Reported, Unsent
<1>2. Counted(c)' /\ Truthful(c)'
  BY DEF Tracked, Counted, Truthful
<1>3. Known(c)'
  BY DEF Tracked, Known
<1>4. QED BY <1>1, <1>2, <1>3 DEF Tracked

\* A thread's step that leaves ledger, venue and stream alone keeps the invariant
\* if what the thread carries next is sound and the order can still be traced.
LEMMA QuietStep ==
  ASSUME IInv, up, NEW p \in Plugins, NEW c \in Cloids, Intent[c].plugin = p,
         thread[p].pc = "idle" \/ thread[p].cloid = c,
         NEW t \in ThreadState, thread' = [thread EXCEPT ![p] = t],
         UNCHANGED <<up, ledger, listening, news, venue>>,
         hit' \in [Cloids -> SUBSET Disturbance], hit[c] \subseteq hit'[c],
         \A d \in Cloids \ {c} : hit'[d] = hit[d],
         coins' \subseteq Cloids, \A d \in Cloids \ {c} : d \in coins <=> d \in coins',
         c \in coins => c \in coins' \/ venue[c] # "resting",
         thread'[p] = t => Sound(p)' /\ Followed(c)'
  PROVE  IInv'
<1>1. LiveTypeOK /\ Tracked(c)
  BY DEF IInv
<1>2. ~listening => news' = {}
  BY <1>1 DEF LiveTypeOK
<1>3. LiveTypeOK' /\ thread'[p] = t /\ \A q \in Plugins \ {p} : thread'[q] = thread[q]
  BY <1>1, <1>2, Types, ThreadMoves
<1>4. Tracked(c)'
  BY <1>1, <1>3, QuietTracked
<1>5. QED BY <1>3, <1>4, OneOrder

LEMMA AnsweredKeeps ==
  ASSUME IInv, NEW p \in Plugins, NEW c \in Cloids, thread[p].cloid = c, Answered(p)
  PROVE  IInv'
<1> DEFINE s == Parsed(thread[p].state)
<1>1. Intent[c].plugin = p /\ up
  BY Carried DEF Answered
<1>2. LiveTypeOK /\ Sound(p) /\ thread[p].state \in Response
  BY Types, ThreadParts DEF IInv, Answered
<1>3. /\ thread[p].pc = "answer"
      /\ coins' = IF s = "resting" THEN coins \cup {c} ELSE coins
      /\ thread' = [thread EXCEPT ![p] = Holding("apply", c, s)]
      /\ UNCHANGED <<up, ledger, listening, news, venue, hit>>
  BY DEF Answered, Goto
<1>4. s \in {"resting", "filled", "rejected"}
  BY DEF Parsed
<1>5. /\ s = "rejected" => venue[c] = "rejected"
      /\ s = "filled" => venue[c] = "filled"
      /\ s = "resting" => Fated(c)
  BY <1>2, <1>3 DEF Sound, Parsed, Response
<1> DEFINE t == Holding("apply", c, s)
<1>6. t \in ThreadState /\ t.pc = "apply" /\ t.cloid = c /\ t.state = s
  BY <1>4, ThreadTypes
<1>7. Fated(c) => Fated(c)'
  BY <1>3 DEF Fated
<1>8. coins' \subseteq Cloids
  BY <1>2, <1>3, Types
<1>9. PICK r \in {"resting", "filled", "rejected"} : r = s
  BY <1>4
<1> HIDE DEF t, s
<1>10. ASSUME thread'[p] = t PROVE Sound(p)' /\ Followed(c)'
  <2>1. Sound(p)'
    BY <1>1, <1>3, <1>5, <1>6, <1>7, <1>9, <1>10 DEF Sound
  <2>2. Followed(c)'
    BY <1>6, <1>10 DEF Followed, InHand
  <2>3. QED BY <2>1, <2>2
<1>11. thread' = [thread EXCEPT ![p] = t]
  BY <1>3 DEF t
<1>12. QED BY <1>1, <1>2, <1>3, <1>6, <1>8, <1>10, <1>11, Types, QuietStep

LEMMA PlaceRaisesKeeps ==
  ASSUME IInv, NEW p \in Plugins, NEW c \in Cloids, thread[p].cloid = c, PlaceRaises(p)
  PROVE  IInv'
<1> DEFINE t == Holding("apply", c, "rejected")
<1>1. Intent[c].plugin = p /\ up
  BY Carried DEF PlaceRaises
<1>2. /\ thread' = [thread EXCEPT ![p] = t]
      /\ UNCHANGED <<up, ledger, coins, listening, news, venue>>
      /\ \/ venue[c] \in {Absent, "rejected"} /\ UNCHANGED hit
         \/ venue[c] \notin {Absent, "rejected"} /\ Strike({c}, "answer")
  BY DEF PlaceRaises, Goto
<1>3. LiveTypeOK
  BY DEF IInv
<1>4. t \in ThreadState /\ t.pc = "apply" /\ t.cloid = c /\ t.state = "rejected"
  BY ThreadTypes
<1>5. /\ hit' \in [Cloids -> SUBSET Disturbance] /\ hit[c] \subseteq hit'[c]
      /\ \A d \in Cloids \ {c} : hit'[d] = hit[d]
      /\ venue[c] \in {Absent, "rejected"} \/ "answer" \in hit'[c]
  <2>1. CASE UNCHANGED hit /\ venue[c] \in {Absent, "rejected"}
    BY <1>3, <2>1, Types
  <2>2. CASE Strike({c}, "answer")
    <3>1. "answer" \in Disturbance
      BY DEF Disturbance
    <3>2. /\ hit' \in [Cloids -> SUBSET Disturbance]
          /\ \A d \in Cloids : hit'[d] = hit[d] \cup (IF d \in {c} THEN {"answer"} ELSE {})
      BY <1>3, <2>2, <3>1, Struck
    <3>3. hit \in [Cloids -> SUBSET Disturbance]
      BY <1>3, Types
    <3> QED BY <3>2, <3>3
  <2>3. QED BY <1>2, <2>1, <2>2
<1> HIDE DEF t
<1>6. ASSUME thread'[p] = t PROVE Sound(p)' /\ Followed(c)'
  <2>1. Sound(p)'
    BY <1>1, <1>2, <1>4, <1>5, <1>6 DEF Sound
  <2>2. Followed(c)'
    BY <1>4, <1>6 DEF Followed, InHand
  <2>3. QED BY <2>1, <2>2
<1>7. QED BY <1>1, <1>2, <1>3, <1>4, <1>5, <1>6, Types, QuietStep

LEMMA AnswerGarbledKeeps ==
  ASSUME IInv, NEW p \in Plugins, NEW c \in Cloids, thread[p].cloid = c, AnswerGarbled(p)
  PROVE  IInv'
<1>1. Intent[c].plugin = p /\ up
  BY Carried DEF AnswerGarbled
<1>2. /\ LiveTypeOK /\ thread' = [thread EXCEPT ![p] = ThreadIdle]
      /\ UNCHANGED <<up, ledger, coins, listening, news, venue>>
      /\ Strike({c}, "garbled")
  BY DEF IInv, AnswerGarbled, Goto
<1>3. ThreadIdle \in ThreadState /\ ThreadIdle.pc = "idle"
  BY ThreadTypes
<1>4. /\ hit' \in [Cloids -> SUBSET Disturbance]
      /\ \A d \in Cloids : hit'[d] = hit[d] \cup (IF d \in {c} THEN {"garbled"} ELSE {})
  <2>1. "garbled" \in Disturbance
    BY DEF Disturbance
  <2> QED BY <1>2, <2>1, Struck
<1>5. hit[c] \subseteq hit'[c] /\ "garbled" \in hit'[c] /\ \A d \in Cloids \ {c} : hit'[d] = hit[d]
  BY <1>2, <1>4, Types
<1>6. ASSUME thread'[p] = ThreadIdle PROVE Sound(p)' /\ Followed(c)'
  BY <1>3, <1>5, <1>6 DEF Sound, Followed, Fated
<1>7. QED BY <1>1, <1>2, <1>3, <1>4, <1>5, <1>6, Types, QuietStep

LEMMA CancelKeeps ==
  ASSUME IInv, NEW p \in Plugins, NEW c \in Cloids, Cancel(p, c)
  PROVE  IInv'
<1> DEFINE t == At("ask", c)
<1>1. /\ Intent[c].plugin = p /\ up /\ thread[p] = ThreadIdle
      /\ thread' = [thread EXCEPT ![p] = t]
      /\ UNCHANGED <<up, ledger, coins, listening, news, venue, hit>>
  BY DEF Cancel, Goto
<1>2. LiveTypeOK
  BY DEF IInv
<1>3. t \in ThreadState /\ t.pc = "ask" /\ t.cloid = c
  BY ThreadTypes
<1>4. thread[p].pc = "idle"
  BY <1>1, ThreadTypes
<1>5. ~InHand(c)
  BY <1>1, <1>4, Carried DEF InHand
<1>6. Fated(c)
  BY <1>5 DEF IInv, Tracked, Followed
<1> HIDE DEF t
<1>7. ASSUME thread'[p] = t PROVE Sound(p)' /\ Followed(c)'
  <2>1. Fated(c)'
    BY <1>1, <1>6 DEF Fated
  <2>2. Sound(p)'
    BY <1>1, <1>3, <1>7, <2>1 DEF Sound
  <2>3. QED BY <2>1, <2>2 DEF Followed
<1>8. QED BY <1>1, <1>2, <1>3, <1>4, <1>7, Types, QuietStep

LEMMA ConfirmedKeeps ==
  ASSUME IInv, NEW p \in Plugins, NEW c \in Cloids, thread[p].cloid = c, Confirmed(p)
  PROVE  IInv'
<1>1. Intent[c].plugin = p /\ up
  BY Carried DEF Confirmed
<1>2. /\ LiveTypeOK /\ Sound(p)
      /\ thread[p].pc = "confirm"
      /\ UNCHANGED <<up, ledger, listening, news, venue, hit>>
  BY DEF IInv, Confirmed
<1>3. CASE /\ thread[p].state = "cancelled"
           /\ coins' = coins \ {c}
           /\ Goto(p, Holding("apply", c, "cancelled"))
  <2> DEFINE t == Holding("apply", c, "cancelled")
  <2>1. t \in ThreadState /\ t.pc = "apply" /\ t.cloid = c /\ t.state = "cancelled"
    BY ThreadTypes
  <2>2. venue[c] = "cancelled"
    BY <1>2, <1>3 DEF Sound
  <2>3. thread' = [thread EXCEPT ![p] = t]
    BY <1>3 DEF Goto
  <2>4. coins' \subseteq Cloids
    BY <1>2, <1>3, Types
  <2> HIDE DEF t
  <2>5. ASSUME thread'[p] = t PROVE Sound(p)' /\ Followed(c)'
    <3>1. Sound(p)'
      BY <1>1, <1>2, <2>1, <2>2, <2>5 DEF Sound
    <3>2. Followed(c)'
      BY <2>1, <2>5 DEF Followed, InHand
    <3>3. QED BY <3>1, <3>2
  <2>6. QED BY <1>1, <1>2, <1>3, <2>1, <2>2, <2>3, <2>4, <2>5, Types, QuietStep
<1>4. CASE /\ thread[p].state # "cancelled"
           /\ Goto(p, ThreadIdle)
           /\ UNCHANGED coins
  <2>1. ThreadIdle \in ThreadState /\ ThreadIdle.pc = "idle"
    BY ThreadTypes
  <2>2. Fated(c)'
    BY <1>2, <1>4 DEF Sound, Fated
  <2>3. ASSUME thread'[p] = ThreadIdle PROVE Sound(p)' /\ Followed(c)'
    BY <2>1, <2>2, <2>3 DEF Sound, Followed
  <2>4. thread' = [thread EXCEPT ![p] = ThreadIdle]
    BY <1>4 DEF Goto
  <2>5. QED BY <1>1, <1>2, <1>4, <2>1, <2>3, <2>4, Types, QuietStep
<1>5. QED BY <1>3, <1>4 DEF Confirmed

LEMMA CancelRaisesKeeps ==
  ASSUME IInv, NEW p \in Plugins, NEW c \in Cloids, thread[p].cloid = c, CancelRaises(p)
  PROVE  IInv'
<1>1. Intent[c].plugin = p /\ up
  BY Carried DEF CancelRaises
<1>2. /\ LiveTypeOK /\ Sound(p)
      /\ thread[p].pc \in {"ask", "confirm"}
      /\ thread' = [thread EXCEPT ![p] = ThreadIdle]
      /\ UNCHANGED <<up, ledger, coins, listening, news, venue>>
      /\ \/ thread[p].state = "cancelled" /\ Strike({c}, "confirm")
         \/ thread[p].state # "cancelled" /\ UNCHANGED hit
  BY DEF IInv, CancelRaises, Goto
<1>3. ThreadIdle \in ThreadState /\ ThreadIdle.pc = "idle"
  BY ThreadTypes
<1>4. /\ hit' \in [Cloids -> SUBSET Disturbance] /\ hit[c] \subseteq hit'[c]
      /\ \A d \in Cloids \ {c} : hit'[d] = hit[d]
      /\ "confirm" \in hit'[c] \/ (thread[p].state # "cancelled" /\ UNCHANGED hit)
  <2>1. CASE UNCHANGED hit /\ thread[p].state # "cancelled"
    BY <1>2, <2>1, Types
  <2>2. CASE Strike({c}, "confirm")
    <3>1. "confirm" \in Disturbance
      BY DEF Disturbance
    <3>2. /\ hit' \in [Cloids -> SUBSET Disturbance]
          /\ \A d \in Cloids : hit'[d] = hit[d] \cup (IF d \in {c} THEN {"confirm"} ELSE {})
      BY <1>2, <2>2, <3>1, Struck
    <3>3. QED BY <3>2
  <2>3. QED BY <1>2, <2>1, <2>2
<1>5. Fated(c)'
  <2>1. CASE "confirm" \in hit'[c]
    BY <2>1 DEF Fated
  <2>2. CASE thread[p].state # "cancelled" /\ UNCHANGED hit
    BY <1>2, <2>2 DEF Sound, Fated
  <2>3. QED BY <1>4, <2>1, <2>2
<1>6. ASSUME thread'[p] = ThreadIdle PROVE Sound(p)' /\ Followed(c)'
  BY <1>3, <1>5, <1>6 DEF Sound, Followed
<1>7. QED BY <1>1, <1>2, <1>3, <1>4, <1>6, Types, QuietStep

LEMMA VenueCancelsKeeps ==
  ASSUME IInv, NEW p \in Plugins, NEW c \in Cloids, thread[p].cloid = c, VenueCancels(p)
  PROVE  IInv'
<1>1. Intent[c].plugin = p /\ up
  BY Carried DEF VenueCancels
<1>2. /\ LiveTypeOK /\ Sound(p) /\ Tracked(c)
      /\ thread[p].pc = "ask"
      /\ UNCHANGED <<up, ledger, coins, listening, news, hit>>
  BY DEF IInv, VenueCancels
<1>3. CASE /\ venue[c] = "resting"
           /\ VenueDoes(c, "cancelled")
           /\ Goto(p, Holding("confirm", c, "cancelled"))
  <2> DEFINE t == Holding("confirm", c, "cancelled")
  <2>1. t \in ThreadState /\ t.pc = "confirm" /\ t.cloid = c /\ t.state = "cancelled"
    BY ThreadTypes
  <2>2. /\ thread' = [thread EXCEPT ![p] = t]
        /\ venue' = [venue EXCEPT ![c] = "cancelled"]
    BY <1>3 DEF Goto, VenueDoes
  <2>3. /\ venue'[c] = "cancelled" /\ \A d \in Cloids \ {c} : venue'[d] = venue[d]
        /\ venue' \in [Cloids -> OrderState \cup {Absent}]
    BY <1>2, <2>2, Types DEF OrderState, TerminalStates
  <2>4. ~listening => news' = {}
    BY <1>2 DEF LiveTypeOK
  <2> HIDE DEF t
  <2>5. LiveTypeOK' /\ thread'[p] = t /\ \A q \in Plugins \ {p} : thread'[q] = thread[q]
    BY <1>1, <1>2, <2>1, <2>2, <2>3, <2>4, Types, ThreadMoves
  <2>6. Sound(p)'
    BY <1>1, <2>1, <2>3, <2>5 DEF Sound
  <2>7. Tracked(c)'
    <3>1. InHand(c)'
      BY <2>1, <2>5 DEF InHand
    <3>2. Reported(c)' /\ Unsent(c)' /\ Truthful(c)'
      BY <1>2, <1>3, <2>3 DEF Tracked, Reported, Unsent, Counted, Truthful, Absent,
         OpenStates, TerminalStates
    <3>3. QED BY <2>3, <3>1, <3>2 DEF Tracked, Counted, Followed, Known
  <2>8. QED BY <1>1, <1>2, <2>3, <2>5, <2>6, <2>7, OneOrder
<1>4. CASE /\ venue[c] # "resting"
           /\ Goto(p, At("confirm", c))
           /\ UNCHANGED venue
  <2> DEFINE t == At("confirm", c)
  <2>1. t \in ThreadState /\ t.pc = "confirm" /\ t.cloid = c /\ t.state = Absent
    BY ThreadTypes
  <2>2. thread' = [thread EXCEPT ![p] = t]
    BY <1>4 DEF Goto
  <2>3. Fated(c)'
    BY <1>2, <1>4 DEF Sound, Fated
  <2> HIDE DEF t
  <2>4. ASSUME thread'[p] = t PROVE Sound(p)' /\ Followed(c)'
    BY <1>1, <2>1, <2>3, <2>4 DEF Sound, Followed, Absent
  <2>5. QED BY <1>1, <1>2, <1>4, <2>1, <2>2, <2>4, Types, QuietStep
<1>5. QED BY <1>3, <1>4 DEF VenueCancels

LEMMA ApplyKeeps ==
  ASSUME IInv, NEW p \in Plugins, NEW c \in Cloids, thread[p].cloid = c, Apply(p)
  PROVE  IInv'
<1>1. Intent[c].plugin = p /\ up
  BY Carried DEF Apply
<1>2. /\ LiveTypeOK /\ Sound(p) /\ Tracked(c)
      /\ thread[p].pc = "apply"
      /\ thread' = [thread EXCEPT ![p] = ThreadIdle]
      /\ UNCHANGED <<up, coins, listening, news, venue, hit>>
  BY DEF IInv, Apply, Goto
<1>3. PICK s \in {"resting", "filled", "cancelled", "rejected"} : s = thread[p].state
  BY <1>2, Types, ThreadParts
<1>4. /\ ledger' \in [Cloids -> OrderState \cup {Absent}]
      /\ \A d \in Cloids \ {c} : ledger'[d] = ledger[d]
      /\ ledger'[c] = ledger[c] \/ (ledger[c] \in OpenStates /\ ledger'[c] = s)
      /\ s # "resting" => ledger'[c] \notin OpenStates
  <2>1. ledger' = Applied(c, s)
    BY <1>3 DEF Apply
  <2>2. QED BY <1>2, <2>1, AppliedForwards
<1>5. /\ s = "rejected" => venue[c] \in {Absent, "rejected"} \/ "answer" \in hit[c]
      /\ s \in {"filled", "cancelled"} => venue[c] = s
      /\ s = "resting" => Fated(c) /\ c \in coins
  BY <1>2, <1>3 DEF Sound
<1>6. ThreadIdle \in ThreadState /\ ThreadIdle.pc = "idle"
  BY ThreadTypes
<1>7. LiveTypeOK' /\ thread'[p] = ThreadIdle /\ \A q \in Plugins \ {p} : thread'[q] = thread[q]
  <2>1. ~listening => news' = {}
    BY <1>2 DEF LiveTypeOK
  <2>2. QED BY <1>1, <1>2, <1>4, <1>6, <2>1, Types, ThreadMoves
<1>8. Sound(p)'
  BY <1>6, <1>7 DEF Sound
<1>9. Reported(c)' /\ Unsent(c)'
  BY <1>2, <1>4 DEF Tracked, Reported, Unsent, Absent
<1>10. Counted(c)'
  BY <1>2, <1>4, <1>5 DEF Tracked, Counted, Absent, OpenStates
<1>11. Truthful(c)'
  BY <1>2, <1>4, <1>5 DEF Tracked, Truthful, OpenStates, TerminalStates
<1>12. Followed(c)'
  <2>1. CASE s = "resting"
    BY <1>2, <1>4, <1>5, <2>1 DEF Followed, Fated
  <2>2. CASE s # "resting"
    BY <1>4, <2>2 DEF Followed, Fated
  <2>3. QED BY <2>1, <2>2
<1>13. Known(c)'
  BY <1>2, <1>4, <1>5 DEF Tracked, Known
<1>14. QED
  BY <1>1, <1>2, <1>4, <1>7, <1>8, <1>9, <1>10, <1>11, <1>12, <1>13, OneOrder DEF Tracked

-----------------------------------------------------------------------------
(* The steps of the venue and the stream.                                  *)

LEMMA WorldStep ==
  ASSUME IInv, NEW c \in Cloids, venue[c] # Absent,
         UNCHANGED <<up, thread, coins, listening>>,
         ledger' \in [Cloids -> OrderState \cup {Absent}],
         venue' \in [Cloids -> OrderState \cup {Absent}],
         hit' \in [Cloids -> SUBSET Disturbance],
         news' \subseteq Cloids, ~listening => news' = {},
         \A d \in Cloids \ {c} : /\ ledger'[d] = ledger[d] /\ venue'[d] = venue[d]
                                 /\ hit'[d] = hit[d]
                                 /\ d \in news <=> d \in news',
         venue'[c] = venue[c] \/ venue[c] = "resting",
         hit[c] \subseteq hit'[c],
         Fated(c) => Fated(c)',
         Reported(c)' /\ Unsent(c)' /\ Counted(c)' /\ Truthful(c)' /\ Known(c)'
  PROVE  IInv'
<1>1. PICK p \in Plugins : Intent[c].plugin = p
  BY Owner
<1>2. Sound(p) /\ Tracked(c) /\ LiveTypeOK
  BY DEF IInv
<1>3. LiveTypeOK'
  BY <1>2, LedgerWords DEF LiveTypeOK, Store!TypeOK
<1>4. ASSUME thread[p].pc # "idle", thread[p].cloid = c PROVE Sound(p)'
  BY <1>1, <1>2, <1>4 DEF Sound, Absent
<1>5. Tracked(c)'
  <2>1. InHand(c) => InHand(c)'
    BY DEF InHand
  <2>2. QED BY <1>2, <2>1 DEF Tracked, Followed
<1>6. QED BY <1>1, <1>3, <1>4, <1>5, OneOrder

LEMMA OnUserFillKeeps ==
  ASSUME IInv, NEW c \in Cloids, OnUserFill(c)
  PROVE  IInv'
<1>1. /\ LiveTypeOK /\ Tracked(c) /\ c \in news /\ news' = news \ {c}
      /\ ledger' = Applied(c, "filled")
      /\ UNCHANGED <<up, thread, coins, listening, venue, hit>>
  BY DEF IInv, OnUserFill
<1>2. /\ ledger' \in [Cloids -> OrderState \cup {Absent}]
      /\ \A d \in Cloids \ {c} : ledger'[d] = ledger[d]
      /\ ledger'[c] = ledger[c] \/ (ledger[c] \in OpenStates /\ ledger'[c] = "filled")
      /\ ledger'[c] \notin OpenStates
  BY <1>1, AppliedForwards
<1>3. venue[c] # Absent /\ (venue[c] = "filled" \/ "partial" \in hit[c])
  BY <1>1 DEF Tracked, Reported
<1>4. Fated(c)'
  BY <1>2 DEF Fated
<1>5. Reported(c)' /\ Unsent(c)' /\ Counted(c)' /\ Known(c)'
  BY <1>1, <1>2, <1>3 DEF Tracked, Reported, Unsent, Counted, Known, Absent
<1>6. Truthful(c)'
  BY <1>1, <1>2, <1>3 DEF Tracked, Truthful, OpenStates, TerminalStates
<1>7. news' \subseteq Cloids /\ (~listening => news' = {})
  BY <1>1, Types DEF LiveTypeOK
<1>8. QED BY <1>1, <1>2, <1>3, <1>4, <1>5, <1>6, <1>7, Types, WorldStep

LEMMA VenueFillsKeeps ==
  ASSUME IInv, NEW c \in Cloids, VenueFills(c)
  PROVE  IInv'
<1>1. /\ LiveTypeOK /\ Tracked(c) /\ venue[c] = "resting"
      /\ venue' = [venue EXCEPT ![c] = "filled"]
      /\ Announce(c)
      /\ UNCHANGED <<up, ledger, thread, coins, listening>>
  BY DEF IInv, VenueFills, VenueDoes
<1>2. /\ venue'[c] = "filled" /\ \A d \in Cloids \ {c} : venue'[d] = venue[d]
      /\ venue' \in [Cloids -> OrderState \cup {Absent}]
  BY <1>1, Types DEF OrderState, TerminalStates
<1>3. /\ hit' \in [Cloids -> SUBSET Disturbance]
      /\ \A d \in Cloids \ {c} : hit'[d] = hit[d] /\ (d \in news <=> d \in news')
      /\ news' \subseteq Cloids /\ (~listening => news' = {})
      /\ hit[c] \subseteq hit'[c]
      /\ c \in news' \/ "unheard" \in hit'[c]
  BY <1>1, Announced
<1>4. Fated(c)'
  BY <1>3 DEF Fated
<1>5. Reported(c)' /\ Unsent(c)' /\ Counted(c)' /\ Known(c)'
  BY <1>1, <1>2 DEF Tracked, Reported, Unsent, Counted, Known, Absent
<1>6. Truthful(c)'
  BY <1>1, <1>2, <1>3 DEF Tracked, Counted, Truthful, OpenStates, TerminalStates
<1>7. QED BY <1>1, <1>2, <1>3, <1>4, <1>5, <1>6, Types, WorldStep DEF Absent

LEMMA VenueFillsPartKeeps ==
  ASSUME IInv, NEW c \in Cloids, VenueFillsPart(c)
  PROVE  IInv'
<1>1. /\ LiveTypeOK /\ Tracked(c) /\ venue[c] = "resting" /\ listening
      /\ news' = news \cup {c} /\ Strike({c}, "partial")
      /\ UNCHANGED <<up, ledger, thread, coins, listening, venue>>
  BY DEF IInv, VenueFillsPart
<1>2. /\ hit' \in [Cloids -> SUBSET Disturbance]
      /\ \A d \in Cloids : hit'[d] = hit[d] \cup (IF d \in {c} THEN {"partial"} ELSE {})
  <2>1. "partial" \in Disturbance
    BY DEF Disturbance
  <2>2. QED BY <1>1, <2>1, Struck
<1>3. /\ "partial" \in hit'[c] /\ hit[c] \subseteq hit'[c]
      /\ \A d \in Cloids \ {c} : hit'[d] = hit[d]
  BY <1>2
<1>4. Fated(c)'
  BY <1>1 DEF Fated
<1>5. Reported(c)' /\ Unsent(c)' /\ Counted(c)' /\ Truthful(c)' /\ Known(c)'
  BY <1>1, <1>3 DEF Tracked, Reported, Unsent, Counted, Truthful, Known, Absent
<1>6. news' \subseteq Cloids /\ \A d \in Cloids \ {c} : d \in news <=> d \in news'
  BY <1>1, Types
<1>7. QED BY <1>1, <1>2, <1>3, <1>4, <1>5, <1>6, Types, WorldStep DEF Absent

LEMMA VenueDropsKeeps ==
  ASSUME IInv, NEW c \in Cloids, VenueDrops(c)
  PROVE  IInv'
<1>1. /\ LiveTypeOK /\ Tracked(c) /\ venue[c] = "resting"
      /\ venue' = [venue EXCEPT ![c] = "cancelled"]
      /\ Strike({c}, "venue")
      /\ UNCHANGED <<up, ledger, thread, coins, listening, news>>
  BY DEF IInv, VenueDrops, VenueDoes
<1>2. /\ venue'[c] = "cancelled" /\ \A d \in Cloids \ {c} : venue'[d] = venue[d]
      /\ venue' \in [Cloids -> OrderState \cup {Absent}]
  BY <1>1, Types DEF OrderState, TerminalStates
<1>3. /\ hit' \in [Cloids -> SUBSET Disturbance]
      /\ \A d \in Cloids : hit'[d] = hit[d] \cup (IF d \in {c} THEN {"venue"} ELSE {})
  <2>1. "venue" \in Disturbance
    BY DEF Disturbance
  <2>2. QED BY <1>1, <2>1, Struck
<1>4. /\ "venue" \in hit'[c] /\ hit[c] \subseteq hit'[c]
      /\ \A d \in Cloids \ {c} : hit'[d] = hit[d]
  BY <1>3
<1>5. Fated(c)'
  BY <1>4 DEF Fated
<1>6. Reported(c)' /\ Unsent(c)' /\ Counted(c)' /\ Known(c)'
  BY <1>1, <1>2, <1>4 DEF Tracked, Reported, Unsent, Counted, Known, Absent
<1>7. Truthful(c)'
  BY <1>1, <1>2, <1>4 DEF Tracked, Counted, Truthful, OpenStates, TerminalStates
<1>8. ~listening => news' = {}
  BY <1>1 DEF LiveTypeOK
<1>9. QED BY <1>1, <1>2, <1>3, <1>4, <1>5, <1>6, <1>7, <1>8, Types, WorldStep DEF Absent

LEMMA StreamDropsKeeps ==
  ASSUME IInv, StreamDrops
  PROVE  IInv'
<1>1. /\ LiveTypeOK /\ listening' = FALSE /\ news' = {} /\ Strike(news, "unheard")
      /\ UNCHANGED <<up, ledger, thread, coins, venue>>
  BY DEF IInv, StreamDrops
<1>2. /\ hit' \in [Cloids -> SUBSET Disturbance]
      /\ \A c \in Cloids : hit'[c] = hit[c] \cup (IF c \in news THEN {"unheard"} ELSE {})
  <2>1. "unheard" \in Disturbance
    BY DEF Disturbance
  <2>2. QED BY <1>1, <2>1, Struck
<1>3. \A c \in Cloids : hit[c] \subseteq hit'[c] /\ (c \in news => "unheard" \in hit'[c])
  BY <1>2
<1>4. LiveTypeOK'
  BY <1>1, <1>2, LedgerWords DEF LiveTypeOK, Store!TypeOK
<1>5. ASSUME NEW c \in Cloids, Fated(c) PROVE Fated(c)'
  <2>1. CASE c \in news
    BY <1>3, <2>1 DEF Fated
  <2>2. CASE c \notin news
    BY <1>1, <1>3, <1>5, <2>2 DEF Fated
  <2>3. QED BY <2>1, <2>2
<1>6. ASSUME NEW p \in Plugins PROVE Sound(p)'
  <2>1. Sound(p)
    BY DEF IInv
  <2>2. CASE thread[p].pc = "idle"
    BY <1>1, <2>2 DEF Sound
  <2>3. CASE thread[p].pc # "idle"
    <3>1. thread[p].cloid \in Cloids
      BY <2>3, Carried
    <3>2. QED BY <1>1, <1>3, <1>5, <2>1, <3>1 DEF Sound
  <2>4. QED BY <2>2, <2>3
<1>7. ASSUME NEW c \in Cloids PROVE Tracked(c)'
  <2>1. Tracked(c)
    BY DEF IInv
  <2>2. InHand(c) => InHand(c)'
    BY <1>1 DEF InHand
  <2>3. Followed(c)'
    BY <1>5, <2>1, <2>2 DEF Tracked, Followed
  <2>4. Reported(c)' /\ Unsent(c)' /\ Counted(c)' /\ Truthful(c)' /\ Known(c)'
    BY <1>1, <1>3, <2>1 DEF Tracked, Reported, Unsent, Counted, Truthful, Known
  <2>5. QED BY <2>3, <2>4 DEF Tracked
<1>8. QED BY <1>4, <1>6, <1>7 DEF IInv

LEMMA CrashKeeps ==
  ASSUME IInv, ProcessEnds
  PROVE  IInv'
<1>1. /\ LiveTypeOK /\ up' = FALSE /\ listening' = FALSE /\ news' = {} /\ coins' = {}
      /\ thread' = [p \in Plugins |-> ThreadIdle]
      /\ Strike(OpenIn(ledger), "restart")
      /\ UNCHANGED <<ledger, venue>>
  BY DEF IInv, ProcessEnds
<1>2. /\ hit' \in [Cloids -> SUBSET Disturbance]
      /\ \A c \in Cloids :
           hit'[c] = hit[c] \cup (IF c \in OpenIn(ledger) THEN {"restart"} ELSE {})
  <2>1. "restart" \in Disturbance
    BY DEF Disturbance
  <2>2. QED BY <1>1, <2>1, Struck
<1>3. \A c \in Cloids : /\ hit[c] \subseteq hit'[c]
                        /\ ledger[c] \in OpenStates => "restart" \in hit'[c]
  BY <1>2 DEF OpenIn
<1>4. LiveTypeOK'
  <2>1. thread' \in [Plugins -> ThreadState] /\ \A p \in Plugins : thread'[p] = ThreadIdle
    BY <1>1, ThreadTypes
  <2>2. QED BY <1>1, <1>2, <2>1, LedgerWords DEF LiveTypeOK, Store!TypeOK
<1>5. ASSUME NEW p \in Plugins PROVE Sound(p)'
  BY <1>1, ThreadTypes DEF Sound
<1>6. ASSUME NEW c \in Cloids PROVE Tracked(c)'
  <2>1. Tracked(c)
    BY DEF IInv
  <2>2. Followed(c)' /\ Known(c)'
    BY <1>1, <1>3 DEF Followed, Fated, Known, OpenStates
  <2>3. Reported(c)' /\ Unsent(c)' /\ Counted(c)' /\ Truthful(c)'
    BY <1>1, <1>3, <2>1 DEF Tracked, Reported, Unsent, Counted, Truthful
  <2>4. QED BY <2>2, <2>3 DEF Tracked
<1>7. QED BY <1>4, <1>5, <1>6 DEF IInv

\* A step that leaves all but up and listening alone, and drops no news.
LEMMA IdleKeeps ==
  ASSUME IInv, UNCHANGED <<ledger, thread, coins, news, venue, hit>>, LiveTypeOK'
  PROVE  IInv'
<1>1. \A c \in Cloids : Fated(c) => Fated(c)'
  BY DEF Fated
<1>2. ASSUME NEW p \in Plugins PROVE Sound(p)'
  BY DEF IInv, Sound, Fated
<1>3. ASSUME NEW c \in Cloids PROVE Tracked(c)'
  <2>1. InHand(c) => InHand(c)'
    BY DEF InHand
  <2>2. QED
    BY <1>1, <2>1 DEF IInv, Tracked, Followed, Reported, Unsent, Counted, Truthful, Known
<1>4. QED BY <1>2, <1>3 DEF IInv

-----------------------------------------------------------------------------
LEMMA InitInvariant == LiveInit => IInv
<1> SUFFICES ASSUME LiveInit PROVE IInv
  OBVIOUS
<1>1. LiveTypeOK
  BY LedgerWords, ThreadTypes DEF LiveInit, LiveTypeOK, Store!TypeOK
<1>2. ASSUME NEW p \in Plugins PROVE Sound(p)
  BY ThreadTypes DEF LiveInit, Sound
<1>3. ASSUME NEW c \in Cloids PROVE Tracked(c)
  BY DEF LiveInit, Tracked, Reported, Unsent, Counted, Truthful, Followed, Fated, Known,
     Absent, OpenStates, TerminalStates
<1>4. QED BY <1>1, <1>2, <1>3 DEF IInv

LEMMA ThreadStepKeeps ==
  ASSUME IInv, NEW p \in Plugins, ThreadStep(p)
  PROVE  IInv'
<1>1. thread[p].pc # "idle"
  BY DEF ThreadStep, VenueTakes, Answered, PlaceRaises, AnswerGarbled, Apply, VenueCancels,
     Confirmed, CancelRaises
<1>2. PICK c \in Cloids : thread[p].cloid = c
  BY <1>1, Carried
<1>3. CASE VenueTakes(p)
  BY <1>2, <1>3, VenueTakesKeeps
<1>4. CASE Answered(p)
  BY <1>2, <1>4, AnsweredKeeps
<1>5. CASE PlaceRaises(p)
  BY <1>2, <1>5, PlaceRaisesKeeps
<1>6. CASE Apply(p)
  BY <1>2, <1>6, ApplyKeeps
<1>7. CASE VenueCancels(p)
  BY <1>2, <1>7, VenueCancelsKeeps
<1>8. CASE Confirmed(p)
  BY <1>2, <1>8, ConfirmedKeeps
<1>9. CASE CancelRaises(p)
  BY <1>2, <1>9, CancelRaisesKeeps
<1>10. CASE AnswerGarbled(p)
  BY <1>2, <1>10, AnswerGarbledKeeps
<1>11. QED BY <1>3, <1>4, <1>5, <1>6, <1>7, <1>8, <1>9, <1>10 DEF ThreadStep

LEMMA NextInvariant == IInv /\ [LiveNext]_liveVars => IInv'
<1> SUFFICES ASSUME IInv, [LiveNext]_liveVars PROVE IInv'
  OBVIOUS
<1>1. CASE \E p \in Plugins : ThreadStep(p)
  BY <1>1, ThreadStepKeeps
<1>2. CASE \E p \in Plugins, c \in Cloids : Submit(p, c) \/ Cancel(p, c)
  BY <1>2, SubmitKeeps, CancelKeeps
<1>3. CASE \E c \in Cloids : OnUserFill(c) \/ VenueFills(c) \/ VenueFillsPart(c) \/ VenueDrops(c)
  BY <1>3, OnUserFillKeeps, VenueFillsKeeps, VenueFillsPartKeeps, VenueDropsKeeps
<1>4. CASE StreamDrops
  BY <1>4, StreamDropsKeeps
<1>5. CASE ProcessEnds
  BY <1>5, CrashKeeps
<1>6. CASE ProcessStarts
  <2>1. /\ LiveTypeOK /\ up' /\ listening'
        /\ UNCHANGED <<ledger, thread, coins, news, venue, hit>>
    BY <1>6 DEF IInv, ProcessStarts
  <2>2. LiveTypeOK'
    BY <1>6, <2>1, LedgerWords DEF LiveTypeOK, Store!TypeOK
  <2>3. QED BY <2>1, <2>2, IdleKeeps
<1>7. CASE UNCHANGED liveVars
  <2>1. UNCHANGED <<up, ledger, thread, coins, listening, news, venue, hit>>
    BY <1>7 DEF liveVars
  <2>2. LiveTypeOK'
    BY <2>1, LedgerWords DEF IInv, LiveTypeOK, Store!TypeOK
  <2>3. QED BY <2>1, <2>2, IdleKeeps
<1>8. QED BY <1>1, <1>2, <1>3, <1>4, <1>5, <1>6, <1>7 DEF LiveNext

LEMMA Invariant == LiveSpec => []IInv
BY InitInvariant, NextInvariant, PTL DEF LiveSpec

\* The variables of the live execution stay in their sets.
THEOREM TypeCorrect == LiveSpec => []LiveTypeOK
<1>1. IInv => LiveTypeOK
  BY DEF IInv
<1>2. QED BY <1>1, Invariant, PTL

\* However answers, fills, cancels and restarts interleave, only a lost answer to
\* place or a partial fill takes a working order out of the limits' numbers.
THEOREM LiveExposureCounted == LiveSpec => []ExposureCounted
<1>1. IInv => ExposureCounted
  BY DEF IInv, Tracked, Counted, ExposureCounted
<1>2. QED BY <1>1, Invariant, PTL

\* But for the same two, a final state in the store is the venue's.
THEOREM LiveLedgerTruthful == LiveSpec => []LedgerTruthful
<1>1. IInv => LedgerTruthful
  BY DEF IInv, Tracked, Truthful, LedgerTruthful
<1>2. QED BY <1>1, Invariant, PTL

\* An open order is followed, unless one of the five disturbances took the
\* messenger away.
THEOREM LiveFateComing == LiveSpec => []FateComing
<1>1. IInv => FateComing
  BY DEF IInv, Tracked, Followed, Fated, FateComing
<1>2. QED BY <1>1, Invariant, PTL

\* But for a restart, an order known to rest can be cancelled while it does.
THEOREM LiveCancellable == LiveSpec => []Cancellable
<1>1. IInv => Cancellable
  BY DEF IInv, Tracked, Known, Cancellable
<1>2. QED BY <1>1, Invariant, PTL
=============================================================================
