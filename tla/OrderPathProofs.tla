--------------------------- MODULE OrderPathProofs ---------------------------
(***************************************************************************)
(* The submission path implements the limited ledger and the rate window,  *)
(* so the limits hold for any number of plugins, orders, fills, cancels,   *)
(* failed writes and crashes; and what becomes of an order at the manager, *)
(* in the store and in its owner's eyes is one and the same.               *)
(*                                                                         *)
(* The numbers a submission is admitted by are old when the order is       *)
(* recorded.  What makes them good enough is that only the holder of the   *)
(* router's lock records, and everyone else can only take orders out of    *)
(* the open set: Admitted carries each check through to the reservation.   *)
(***************************************************************************)
EXTENDS OrderPath, OrdersProofs, SequenceTheorems, WellFoundedInduction

LockInv == \A p \in Plugins : thread[p].pc \in Critical <=> lock = p

ThreadInv ==
  \A p \in Plugins :
    /\ thread[p].pc # "idle" => thread[p].cloid \in Cloids
    /\ thread[p].pc = "apply" => thread[p].state \in OrderState
    /\ thread[p].pc = "idle" => thread[p] = ThreadIdle

Admitted ==
  \A p \in Plugins :
    /\ thread[p].pc \in {"notional", "reserve"} => BelowMaxOpen
    /\ \A c \in Cloids :
         thread[p].pc = "reserve" /\ thread[p].cloid = c => BelowMaxGross(c)

FeedInv ==
  /\ feed.pc = "notify" => feed.cur \in Cloids
  /\ feed.pc = "poll" => feed.coin \in Coins

IInv == TypeOK /\ LockInv /\ ThreadInv /\ Admitted /\ FeedInv

-----------------------------------------------------------------------------
(* Types of the pieces, and what an update does to the open set.           *)

LEMMA ThreadTypes ==
  /\ ThreadIdle \in ThreadStates /\ ThreadIdle.pc = "idle"
  /\ \A pc \in Critical, c \in Cloids :
       /\ At(pc, c) \in ThreadStates
       /\ At(pc, c).pc = pc /\ At(pc, c).cloid = c
  /\ \A c \in Cloids, s \in OrderState :
       /\ WithResult(c, s) \in ThreadStates
       /\ WithResult(c, s).pc = "apply"
       /\ WithResult(c, s).cloid = c /\ WithResult(c, s).state = s
BY DEF ThreadIdle, At, WithResult, ThreadStates, Critical, Checking

LEMMA FeedTypes ==
  /\ FeedIdle \in FeedStates /\ FeedIdle.pc = "idle"
  /\ \A out \in SUBSET Cloids : Emitting(out) \in FeedStates /\ Emitting(out).pc \in {"idle", "emit"}
BY DEF FeedIdle, Emitting, FeedStates

LEMMA LedgerCardinality == \A S : Ledger!Cardinality(S) = Cardinality(S)
BY DEF Ledger!Cardinality, Cardinality

LEMMA LedgerWords ==
  /\ Ledger!Absent = Absent
  /\ Ledger!OpenStates = OpenStates
  /\ Ledger!OrderState = OrderState
  /\ Ledger!Rank = Rank
  /\ Ledger!Open = Open
  /\ \A c \in Cloids : Ledger!Notional(c) = Notional(c)
BY DEF Ledger!Absent, Absent, Ledger!OpenStates, OpenStates, Ledger!TerminalStates,
       TerminalStates, Ledger!OrderState, OrderState, Ledger!Rank, Rank,
       Ledger!Open, Open, Ledger!OpenIn, OpenIn, Ledger!Notional, Notional

\* An update is an advance of the ledger or nothing, and only frees exposure.
LEMMA AppliedFrees ==
  ASSUME TypeOK, NEW c \in Cloids, NEW s \in OrderState, ledger' = Applied(c, s)
  PROVE  /\ ledger' \in [Cloids -> OrderState \cup {Absent}]
         /\ Open' \in SUBSET Open
         /\ Ledger!Advance(c, s) \/ UNCHANGED ledger
<1>1. CASE Ledger!Advances(c, s)
  <2>1. ledger' = [ledger EXCEPT ![c] = s]
    BY <1>1 DEF Applied
  <2>2. ledger[c] \in OpenStates
    BY <1>1, LedgerWords DEF Ledger!Advances
  <2> QED BY <1>1, <2>1, <2>2 DEF TypeOK, Open, OpenIn, Ledger!Advance
<1>2. CASE ~Ledger!Advances(c, s)
  BY <1>2 DEF Applied, TypeOK, Open, OpenIn
<1> QED BY <1>1, <1>2

\* What a check allowed stays allowed while the open set only shrinks.
LEMMA ChecksHold ==
  ASSUME Open' \in SUBSET Open
  PROVE  /\ BelowMaxOpen => BelowMaxOpen'
         /\ \A c \in Cloids : BelowMaxGross(c) => BelowMaxGross(c)'
<1>1. Open \in SUBSET Cloids /\ IsFiniteSet(Open)
  BY OpenFinite DEF Open
<1>2. Cardinality(Open') <= Cardinality(Open)
  BY <1>1, FS_Subset
<1>3. Cardinality(Open') \in Nat /\ Cardinality(Open) \in Nat
  BY <1>1, FS_Subset, FS_CardinalityType
<1>4. BelowMaxOpen => BelowMaxOpen'
  BY <1>2, <1>3, LimitsAssumption DEF BelowMaxOpen
<1>5. GrossOf[Open'] <= GrossOf[Open] /\ GrossOf[Open'] \in Nat /\ GrossOf[Open] \in Nat
  <2>1. Open' \in SUBSET Cloids
    BY <1>1
  <2> QED BY <1>1, <2>1, GrossMonotone, GrossAssumption
<1>6. ASSUME NEW c \in Cloids, BelowMaxGross(c) PROVE BelowMaxGross(c)'
  <2>1. Notional(c) \in Nat
    BY NotionalType
  <2>2. GrossOf[Open] + Notional(c) <= MaxGross => GrossOf[Open'] + Notional(c) <= MaxGross
    BY <1>5, <2>1, LimitsAssumption
  <2> QED BY <1>6, <2>2 DEF BelowMaxGross, Notional
<1> QED BY <1>4, <1>6

\* A step of plugin p alone, outside the checks, with the open set at most
\* shrinking, keeps what the invariant says of the threads.
LEMMA ThreadStepKeeps ==
  ASSUME IInv, NEW p \in Plugins, NEW new \in ThreadStates,
         thread' = [thread EXCEPT ![p] = new],
         Open' \in SUBSET Open,
         new.pc # "idle" => new.cloid \in Cloids,
         new.pc = "apply" => new.state \in OrderState,
         new.pc = "idle" => new = ThreadIdle,
         new.pc \in {"notional", "reserve"} => BelowMaxOpen',
         \A c \in Cloids : new.pc = "reserve" /\ new.cloid = c => BelowMaxGross(c)',
         new.pc \in Critical <=> lock' = p,
         \A q \in Plugins : q # p => (lock' = q <=> lock = q)
  PROVE  LockInv' /\ ThreadInv' /\ Admitted' /\ thread' \in [Plugins -> ThreadStates]
<1>1. thread \in [Plugins -> ThreadStates]
  BY DEF IInv, TypeOK
<1>2. thread'[p] = new /\ \A q \in Plugins : q # p => thread'[q] = thread[q]
  BY <1>1
<1>3. LockInv'
  BY <1>2 DEF IInv, LockInv
<1>4. ThreadInv'
  BY <1>2 DEF IInv, ThreadInv
<1>5. Admitted'
  <2>1. ASSUME NEW q \in Plugins, thread'[q].pc \in {"notional", "reserve"}
        PROVE  BelowMaxOpen'
    BY <1>2, <2>1, ChecksHold DEF IInv, Admitted
  <2>2. ASSUME NEW q \in Plugins, NEW c \in Cloids,
               thread'[q].pc = "reserve", thread'[q].cloid = c
        PROVE  BelowMaxGross(c)'
    <3>1. CASE q = p
      BY <1>2, <2>2, <3>1
    <3>2. CASE q # p
      BY <1>2, <2>2, <3>2, ChecksHold DEF IInv, Admitted
    <3> QED BY <3>1, <3>2
  <2> QED BY <2>1, <2>2 DEF Admitted
<1> QED BY <1>1, <1>3, <1>4, <1>5

\* A step that leaves every thread and the lock alone.
LEMMA OtherStepKeeps ==
  ASSUME IInv, UNCHANGED <<thread, lock>>, Open' \in SUBSET Open
  PROVE  LockInv' /\ ThreadInv' /\ Admitted' /\ thread' \in [Plugins -> ThreadStates]
<1>1. LockInv' /\ ThreadInv' /\ thread' \in [Plugins -> ThreadStates]
  BY DEF IInv, TypeOK, LockInv, ThreadInv
<1>2. Admitted'
  BY ChecksHold DEF IInv, Admitted
<1> QED BY <1>1, <1>2

\* The open set is a function of the ledger, so what leaves that alone keeps it.
LEMMA SameOpen == ledger' = ledger => Open' \in SUBSET Open
BY DEF Open, OpenIn

LEMMA LessThanPairs == \A x, y \in Nat : x < y => <<x, y>> \in OpToRel(<, Nat)
BY DEF OpToRel

LEMMA LeastElement ==
  ASSUME NEW S, NEW R, S \subseteq Nat, S # {}, IsWellFoundedOn(R, Nat)
  PROVE  \E x \in S : \A y \in S : ~(<<y, x>> \in R)
BY WFMin

\* A nonempty set of naturals has a least element.
LEMMA LeastNatural ==
  ASSUME NEW S \in SUBSET Nat, S # {}
  PROVE  \E x \in S : \A y \in S : x <= y
<1>0. S \subseteq Nat
  OBVIOUS
<1>1. PICK R : IsWellFoundedOn(R, Nat) /\ \A x, y \in Nat : x < y => <<x, y>> \in R
  BY NatLessThanWellFounded, LessThanPairs, Zenon
<1>2. PICK x \in S : \A y \in S : ~(<<y, x>> \in R)
  BY <1>0, <1>1, LeastElement
<1>3. \A y \in S : ~(y < x)
  BY <1>0, <1>1, <1>2, Zenon
<1> QED BY <1>0, <1>3

\* The first time that is still in the window exists, and Rate!Min returns it.
LEMMA MinOfNaturals ==
  ASSUME NEW S \in SUBSET Nat, S # {}
  PROVE  Rate!Min(S) \in S /\ \A x \in S : Rate!Min(S) <= x
BY LeastNatural DEF Rate!Min

\* _trim keeps a tail of the deque: it starts at the first time that is still
\* in the window, and everything before it has expired.
LEMMA TrimIsTail ==
  ASSUME NEW q \in Seq(Nat), NEW now \in Nat
  PROVE  \E k \in 0 .. Len(q) :
           /\ Rate!Trim(q, now) \in Seq(Nat)
           /\ Len(Rate!Trim(q, now)) = Len(q) - k
           /\ \A i \in 1 .. Len(q) - k : Rate!Trim(q, now)[i] = q[i + k]
           /\ \A i \in 1 .. k : q[i] + Window <= now
<1> DEFINE Fresh == {i \in 1 .. Len(q) : ~Rate!Expired(q[i], now)}
<1>1. Len(q) \in Nat /\ \A i \in 1 .. Len(q) : q[i] \in Nat
  OBVIOUS
<1>2. CASE Fresh = {}
  <2>1. Rate!Trim(q, now) = <<>>
    BY <1>2 DEF Rate!Trim
  <2>2. \A i \in 1 .. Len(q) : q[i] + Window <= now
    <3>1. \A i \in 1 .. Len(q) : Rate!Expired(q[i], now)
      BY <1>2
    <3> QED BY <1>1, <3>1, LimitsAssumption DEF Rate!Expired
  <2> WITNESS Len(q) \in 0 .. Len(q)
  <2> QED BY <1>1, <2>1, <2>2
<1>3. CASE Fresh # {}
  <2> DEFINE m == Rate!Min(Fresh)
  <2>1. m \in Fresh /\ \A i \in Fresh : m <= i
    <3>1. Fresh \in SUBSET Nat
      OBVIOUS
    <3> HIDE DEF Fresh
    <3> QED BY <1>3, <3>1, MinOfNaturals
  <2>2. Rate!Trim(q, now) = SubSeq(q, m, Len(q))
    BY <1>3 DEF Rate!Trim
  <2>3. m \in 1 .. Len(q)
    BY <2>1
  <2>4. \A i \in 1 .. m - 1 : q[i] + Window <= now
    <3> SUFFICES ASSUME NEW i \in 1 .. m - 1 PROVE q[i] + Window <= now
      OBVIOUS
    <3>1. i \in 1 .. Len(q) /\ i \notin Fresh
      <4> HIDE DEF m, Fresh
      <4> QED BY <1>1, <2>1, <2>3
    <3> QED BY <1>1, <3>1, LimitsAssumption DEF Rate!Expired
  <2> HIDE DEF m, Fresh
  <2>5. /\ SubSeq(q, m, Len(q)) \in Seq(Nat)
        /\ Len(SubSeq(q, m, Len(q))) = Len(q) - (m - 1)
        /\ \A i \in 1 .. Len(q) - (m - 1) : SubSeq(q, m, Len(q))[i] = q[i + (m - 1)]
    BY <1>1, <2>3
  <2>6. m - 1 \in 0 .. Len(q)
    BY <1>1, <2>3
  <2> QED BY <2>2, <2>4, <2>5, <2>6
<1> QED BY <1>2, <1>3

LEMMA TrimType ==
  ASSUME NEW q \in Seq(Nat), NEW now \in Nat PROVE Rate!Trim(q, now) \in Seq(Nat)
BY TrimIsTail

LEMMA TellType ==
  ASSUME TypeOK, NEW c \in Cloids, NEW s \in OrderState, Tell(c, s)
  PROVE  told' \in [Cloids -> SUBSET OrderState]
BY DEF TypeOK, Tell

-----------------------------------------------------------------------------
(* One lemma per action of submit and cancel.                              *)

\* What a refusal changes, whatever check it comes from.
LEMMA RefuseKeeps ==
  ASSUME IInv, NEW p \in Plugins, NEW c \in Cloids, Refuse(p, c),
         UNCHANGED ledger, lock \in {p, Free}
  PROVE  /\ LockInv' /\ ThreadInv' /\ Admitted'
         /\ thread' \in [Plugins -> ThreadStates]
         /\ told' \in [Cloids -> SUBSET OrderState]
         /\ lock' \in Plugins \cup {Free}
<1>1. lock' = Free /\ thread' = [thread EXCEPT ![p] = ThreadIdle]
  BY DEF Refuse
<1>2. \A q \in Plugins : q # p => (lock' = q <=> lock = q)
  BY <1>1, PathAssumption
<1>3. ThreadIdle.pc \in Critical <=> lock' = p
  BY <1>1, PathAssumption, ThreadTypes DEF Critical, Checking
<1>4. LockInv' /\ ThreadInv' /\ Admitted' /\ thread' \in [Plugins -> ThreadStates]
  BY <1>1, <1>2, <1>3, ThreadTypes, SameOpen, ThreadStepKeeps
<1>5. told' \in [Cloids -> SUBSET OrderState]
  BY TellType DEF Refuse, IInv, OrderState, TerminalStates
<1> QED BY <1>1, <1>4, <1>5

LEMMA SubmitKeeps ==
  ASSUME IInv, NEW p \in Plugins, NEW c \in Cloids, Submit(p, c) PROVE IInv'
<1>1. recent' \in Seq(Nat)
  BY TrimType DEF Submit, IInv, TypeOK
<1>2. /\ UNCHANGED <<storeVars, resting, mid, clock, log, feed, venue, lost>>
      /\ lock = Free /\ thread[p] = ThreadIdle /\ issued' = issued \cup {c}
  BY DEF Submit
<1>3. /\ LockInv' /\ ThreadInv' /\ Admitted'
      /\ thread' \in [Plugins -> ThreadStates]
      /\ told' \in [Cloids -> SUBSET OrderState]
      /\ lock' \in Plugins \cup {Free}
  <2>1. CASE Refuse(p, c)
    BY <1>2, <2>1, RefuseKeeps DEF storeVars
  <2>2. CASE /\ lock' = p
             /\ thread' = [thread EXCEPT ![p] = At("open", c)]
             /\ UNCHANGED told
    <3>1. /\ At("open", c) \in ThreadStates
          /\ At("open", c).pc = "open" /\ At("open", c).cloid = c
      BY ThreadTypes DEF Critical, Checking
    <3>2. At("open", c).pc \in Critical
      BY <3>1 DEF Critical, Checking
    <3>3. \A q \in Plugins : q # p => (lock' = q <=> lock = q)
      BY <1>2, <2>2, PathAssumption
    <3>4. LockInv' /\ ThreadInv' /\ Admitted' /\ thread' \in [Plugins -> ThreadStates]
      BY <1>2, <2>2, <3>1, <3>2, <3>3, SameOpen, ThreadStepKeeps DEF storeVars
    <3> QED BY <2>2, <3>4 DEF IInv, TypeOK
  <2> QED BY <2>1, <2>2 DEF Submit
<1>4. TypeOK'
  BY <1>1, <1>2, <1>3 DEF IInv, TypeOK, storeVars
<1>5. FeedInv'
  BY <1>2 DEF IInv, FeedInv
<1> QED BY <1>3, <1>4, <1>5 DEF IInv

\* The thread that is between two checks holds the lock, and carries an order.
LEMMA CriticalHolds ==
  ASSUME IInv, NEW p \in Plugins, thread[p].pc \in Critical
  PROVE  lock = p /\ thread[p].cloid \in Cloids
BY DEF IInv, LockInv, ThreadInv, Critical, Checking

\* A successful check moves the thread on.
LEMMA PassKeeps ==
  ASSUME IInv, NEW p \in Plugins, NEW pc \in Critical, thread[p].pc \in Critical,
         thread' = [thread EXCEPT ![p] = At(pc, thread[p].cloid)],
         Open' \in SUBSET Open, UNCHANGED lock,
         pc \in {"notional", "reserve"} => BelowMaxOpen',
         pc = "reserve" => BelowMaxGross(thread[p].cloid)
  PROVE  LockInv' /\ ThreadInv' /\ Admitted' /\ thread' \in [Plugins -> ThreadStates]
<1> DEFINE c == thread[p].cloid
<1>1. lock = p /\ c \in Cloids
  BY CriticalHolds
<1>2. At(pc, c) \in ThreadStates /\ At(pc, c).pc = pc /\ At(pc, c).cloid = c
  BY <1>1, ThreadTypes
<1>3. \A d \in Cloids : At(pc, c).pc = "reserve" /\ At(pc, c).cloid = d => BelowMaxGross(d)'
  BY <1>1, <1>2, ChecksHold
<1>4. At(pc, c).pc \in Critical <=> lock' = p
  BY <1>1, <1>2
<1>5. At(pc, c).pc \notin {"idle", "apply"}
  BY <1>2 DEF Critical, Checking
<1> HIDE DEF c
<1> QED BY <1>1, <1>2, <1>3, <1>4, <1>5, ThreadStepKeeps DEF c

LEMMA CheckOpenKeeps ==
  ASSUME IInv, NEW p \in Plugins, CheckOpen(p) PROVE IInv'
<1>1. /\ thread[p].pc = "open" /\ thread[p].pc \in Critical /\ "notional" \in Critical
      /\ UNCHANGED <<storeVars, rateVars, resting, mid, feed, issued, venue, lost>>
  BY DEF CheckOpen, Critical, Checking
<1>2. lock = p /\ thread[p].cloid \in Cloids
  BY <1>1, CriticalHolds
<1>3. /\ LockInv' /\ ThreadInv' /\ Admitted'
      /\ thread' \in [Plugins -> ThreadStates]
      /\ told' \in [Cloids -> SUBSET OrderState]
      /\ lock' \in Plugins \cup {Free}
  <2>1. CASE Refuse(p, thread[p].cloid)
    BY <1>1, <1>2, <2>1, RefuseKeeps DEF storeVars
  <2>2. CASE /\ BelowMaxOpen
             /\ thread' = [thread EXCEPT ![p] = At("notional", @.cloid)]
             /\ UNCHANGED <<lock, told>>
    <3>1. BelowMaxOpen'
      BY <1>1, <2>2, SameOpen, ChecksHold DEF storeVars
    <3>2. LockInv' /\ ThreadInv' /\ Admitted' /\ thread' \in [Plugins -> ThreadStates]
      BY <1>1, <2>2, <3>1, SameOpen, PassKeeps DEF storeVars
    <3> QED BY <2>2, <3>2 DEF IInv, TypeOK
  <2> QED BY <2>1, <2>2 DEF CheckOpen
<1>4. TypeOK'
  BY <1>1, <1>3 DEF IInv, TypeOK, storeVars, rateVars
<1>5. FeedInv'
  BY <1>1 DEF IInv, FeedInv
<1> QED BY <1>3, <1>4, <1>5 DEF IInv

LEMMA CheckNotionalKeeps ==
  ASSUME IInv, NEW p \in Plugins, CheckNotional(p) PROVE IInv'
<1>1. /\ thread[p].pc = "notional" /\ thread[p].pc \in Critical /\ "reserve" \in Critical
      /\ UNCHANGED <<storeVars, rateVars, resting, mid, feed, issued, venue, lost>>
  BY DEF CheckNotional, Critical, Checking
<1>2. lock = p /\ thread[p].cloid \in Cloids
  BY <1>1, CriticalHolds
<1>3. /\ LockInv' /\ ThreadInv' /\ Admitted'
      /\ thread' \in [Plugins -> ThreadStates]
      /\ told' \in [Cloids -> SUBSET OrderState]
      /\ lock' \in Plugins \cup {Free}
  <2>1. CASE Refuse(p, thread[p].cloid)
    BY <1>1, <1>2, <2>1, RefuseKeeps DEF storeVars
  <2>2. CASE /\ BelowMaxGross(thread[p].cloid)
             /\ thread' = [thread EXCEPT ![p] = At("reserve", @.cloid)]
             /\ UNCHANGED <<lock, told>>
    <3>1. BelowMaxOpen
      BY <1>1 DEF IInv, Admitted
    <3>2. BelowMaxOpen'
      BY <1>1, <3>1, SameOpen, ChecksHold DEF storeVars
    <3>3. LockInv' /\ ThreadInv' /\ Admitted' /\ thread' \in [Plugins -> ThreadStates]
      BY <1>1, <2>2, <3>2, SameOpen, PassKeeps DEF storeVars
    <3> QED BY <2>2, <3>3 DEF IInv, TypeOK
  <2> QED BY <2>1, <2>2 DEF CheckNotional
<1>4. TypeOK'
  BY <1>1, <1>3 DEF IInv, TypeOK, storeVars, rateVars
<1>5. FeedInv'
  BY <1>1 DEF IInv, FeedInv
<1> QED BY <1>3, <1>4, <1>5 DEF IInv

\* note_submission appends a time of the clock to each sequence of times.
LEMMA NoteType ==
  ASSUME TypeOK, NoteSubmission PROVE recent' \in Seq(Nat) /\ log' \in Seq(Nat)
<1>1. clock \in Nat /\ recent \in Seq(Nat) /\ log \in Seq(Nat)
  BY PathAssumption DEF TypeOK
<1> QED BY <1>1 DEF NoteSubmission

\* The reservation is the one step that adds an order, and the checks that
\* were made for it still hold then.
LEMMA ReserveRecords ==
  ASSUME IInv, NEW p \in Plugins, Reserve(p)
  PROVE  /\ ledger' \in [Cloids -> OrderState \cup {Absent}]
         /\ \/ UNCHANGED ledger
            \/ /\ Ledger!LimitedRecord(thread[p].cloid)
               /\ thread[p].cloid \in Cloids /\ thread[p].cloid \notin Open
               /\ Open' = Open \cup {thread[p].cloid}
<1> DEFINE c == thread[p].cloid
<1>1. c \in Cloids /\ thread[p].pc = "reserve"
  BY CriticalHolds DEF Reserve, Critical, Checking
<1>2. BelowMaxOpen /\ BelowMaxGross(c)
  BY <1>1 DEF IInv, Admitted
<1>3. CASE UNCHANGED ledger
  BY <1>3 DEF IInv, TypeOK
<1>4. CASE Ledger!Record(c)
  <2>1. ledger[c] = Absent /\ c \notin NaNOrders /\ ledger' = [ledger EXCEPT ![c] = "pending"]
    BY <1>4, LedgerWords DEF Ledger!Record
  <2>2. c \notin Open /\ Open' = Open \cup {c}
    BY <1>1, <2>1 DEF IInv, TypeOK, Open, OpenIn, OpenStates, Absent
  <2>3. Ledger!WithinLimits(c)
    <3>1. Cardinality(Ledger!Open) < MaxOpen
      BY <1>2, LedgerWords DEF BelowMaxOpen
    <3>4. Ledger!Cardinality(Ledger!Open) < MaxOpen
      BY <3>1, LedgerCardinality
    <3>2. Intent[c].reduceOnly \/ GrossOf[Open] + Notional(c) <= MaxGross
      BY <1>2, <2>1, Zenon DEF BelowMaxGross
    <3>3. Ledger!Notional(c) = Notional(c) /\ Ledger!Open = Open
      BY <1>1, LedgerWords
    <3> QED BY <3>4, <3>2, <3>3, Zenon DEF Ledger!WithinLimits
  <2>4. ledger' \in [Cloids -> OrderState \cup {Absent}]
    BY <1>1, <2>1 DEF IInv, TypeOK, OrderState, OpenStates
  <2> QED BY <1>1, <1>4, <2>2, <2>3, <2>4 DEF Ledger!LimitedRecord
<1> QED BY <1>3, <1>4 DEF Reserve

LEMMA ReserveKeeps ==
  ASSUME IInv, NEW p \in Plugins, Reserve(p) PROVE IInv'
<1> DEFINE c == thread[p].cloid
<1>1. /\ thread[p].pc = "reserve" /\ thread[p].pc \in Critical /\ "place" \in Critical
      /\ thread' = [thread EXCEPT ![p] = At("place", c)]
      /\ UNCHANGED <<status, resting, mid, lock, feed, historyVars, venue>>
      /\ NoteSubmission
  BY DEF Reserve, Critical, Checking
<1>2. lock = p /\ c \in Cloids
  BY <1>1, CriticalHolds
<1>3. /\ At("place", c) \in ThreadStates
      /\ At("place", c).pc = "place" /\ At("place", c).cloid = c
  BY <1>1, <1>2, ThreadTypes
<1>4. thread \in [Plugins -> ThreadStates]
  BY DEF IInv, TypeOK
<1>5. \A q \in Plugins : q # p => thread'[q] = thread[q] /\ thread[q].pc \notin Critical
  BY <1>1, <1>2, <1>4 DEF IInv, LockInv
<1>6. thread'[p] = At("place", c) /\ thread' \in [Plugins -> ThreadStates]
  BY <1>1, <1>3, <1>4
<1>7. LockInv'
  BY <1>1, <1>2, <1>3, <1>5, <1>6 DEF LockInv
<1>8. ThreadInv'
  BY <1>2, <1>3, <1>5, <1>6 DEF IInv, ThreadInv
<1>9. Admitted'
  BY <1>3, <1>5, <1>6 DEF Admitted, Critical, Checking
<1>10. TypeOK'
  BY <1>1, <1>6, ReserveRecords, NoteType DEF IInv, TypeOK, historyVars, NoteSubmission
<1>11. FeedInv'
  BY <1>1 DEF IInv, FeedInv
<1> QED BY <1>7, <1>8, <1>9, <1>10, <1>11 DEF IInv

\* The manager's answer releases the lock and leaves a result to apply.
LEMMA AnswerKeeps ==
  ASSUME IInv, NEW p \in Plugins, NEW s \in OrderState, thread[p].pc \in Critical,
         Answer(p, thread[p].cloid, s), UNCHANGED ledger
  PROVE  /\ LockInv' /\ ThreadInv' /\ Admitted'
         /\ thread' \in [Plugins -> ThreadStates]
         /\ venue' \in [Cloids -> OrderState \cup {Absent}]
         /\ lock' \in Plugins \cup {Free}
<1> DEFINE c == thread[p].cloid
<1>1. lock = p /\ c \in Cloids
  BY CriticalHolds
<1>2. /\ lock' = Free /\ thread' = [thread EXCEPT ![p] = WithResult(c, s)]
      /\ venue' = [venue EXCEPT ![c] = s]
  BY DEF Answer
<1>3. /\ WithResult(c, s) \in ThreadStates
      /\ WithResult(c, s).pc = "apply"
      /\ WithResult(c, s).cloid = c /\ WithResult(c, s).state = s
  BY <1>1, ThreadTypes
<1>4. WithResult(c, s).pc \in Critical <=> lock' = p
  BY <1>2, <1>3, PathAssumption DEF Critical, Checking
<1>5. \A q \in Plugins : q # p => (lock' = q <=> lock = q)
  BY <1>1, <1>2, PathAssumption
<1> HIDE DEF c
<1>6. LockInv' /\ ThreadInv' /\ Admitted' /\ thread' \in [Plugins -> ThreadStates]
  BY <1>1, <1>2, <1>3, <1>4, <1>5, SameOpen, ThreadStepKeeps
<1> QED BY <1>2, <1>6 DEF IInv, TypeOK

LEMMA PlaceKeeps ==
  ASSUME IInv, NEW p \in Plugins, Place(p) PROVE IInv'
<1>1. /\ thread[p].pc = "place" /\ thread[p].pc \in Critical /\ "rest" \in Critical
      /\ UNCHANGED <<storeVars, rateVars, resting, mid, feed, historyVars>>
  BY DEF Place, Critical, Checking
<1>2. /\ LockInv' /\ ThreadInv' /\ Admitted'
      /\ thread' \in [Plugins -> ThreadStates]
      /\ venue' \in [Cloids -> OrderState \cup {Absent}]
      /\ lock' \in Plugins \cup {Free}
  <2>1. CASE \E s \in {"rejected", "filled"} : Answer(p, thread[p].cloid, s)
    BY <1>1, <2>1, AnswerKeeps DEF storeVars, OrderState, TerminalStates
  <2>2. CASE /\ thread' = [thread EXCEPT ![p] = At("rest", thread[p].cloid)]
             /\ UNCHANGED <<venue, lock>>
    <3>1. LockInv' /\ ThreadInv' /\ Admitted' /\ thread' \in [Plugins -> ThreadStates]
      BY <1>1, <2>2, SameOpen, PassKeeps DEF storeVars
    <3> QED BY <2>2, <3>1 DEF IInv, TypeOK
  <2> QED BY <2>1, <2>2 DEF Place
<1>3. TypeOK'
  BY <1>1, <1>2 DEF IInv, TypeOK, storeVars, rateVars, historyVars
<1>4. FeedInv'
  BY <1>1 DEF IInv, FeedInv
<1> QED BY <1>2, <1>3, <1>4 DEF IInv

LEMMA RestKeeps ==
  ASSUME IInv, NEW p \in Plugins, Rest(p) PROVE IInv'
<1>1. /\ thread[p].pc \in Critical /\ resting' = resting \cup {thread[p].cloid}
      /\ Answer(p, thread[p].cloid, "resting")
      /\ UNCHANGED <<storeVars, rateVars, mid, feed, historyVars>>
  BY DEF Rest, Critical, Checking
<1>2. thread[p].cloid \in Cloids
  BY <1>1, CriticalHolds
<1>3. /\ LockInv' /\ ThreadInv' /\ Admitted'
      /\ thread' \in [Plugins -> ThreadStates]
      /\ venue' \in [Cloids -> OrderState \cup {Absent}]
      /\ lock' \in Plugins \cup {Free}
  BY <1>1, AnswerKeeps DEF storeVars, OrderState, OpenStates
<1>4. TypeOK'
  BY <1>1, <1>2, <1>3 DEF IInv, TypeOK, storeVars, rateVars, historyVars
<1>5. FeedInv'
  BY <1>1 DEF IInv, FeedInv
<1> QED BY <1>3, <1>4, <1>5 DEF IInv

\* The thread comes back: from the apply at the end, or out of it by an
\* exception, without the lock.
LEMMA ReturnKeeps ==
  ASSUME IInv, NEW p \in Plugins, thread[p].pc \in {"idle", "apply"},
         NEW new \in ThreadStates, thread' = [thread EXCEPT ![p] = new],
         new.pc = "idle" => new = ThreadIdle,
         new.pc = "apply" => new.cloid \in Cloids /\ new.state \in OrderState,
         new.pc \in {"idle", "apply"},
         UNCHANGED lock, Open' \in SUBSET Open
  PROVE  LockInv' /\ ThreadInv' /\ Admitted' /\ thread' \in [Plugins -> ThreadStates]
<1>1. new.pc \in Critical <=> lock' = p
  BY DEF IInv, LockInv, Critical, Checking
<1> QED BY <1>1, ThreadStepKeeps

LEMMA ApplyKeeps ==
  ASSUME IInv, NEW p \in Plugins, Apply(p) PROVE IInv'
<1> DEFINE c == thread[p].cloid
           s == thread[p].state
<1>1. /\ thread[p].pc = "apply" /\ ledger' = Applied(c, s) /\ Tell(c, s)
      /\ thread' = [thread EXCEPT ![p] = ThreadIdle]
      /\ UNCHANGED <<status, resting, mid, lock, rateVars, feed, issued, venue, lost>>
  BY DEF Apply
<1>2. c \in Cloids /\ s \in OrderState
  BY <1>1 DEF IInv, ThreadInv
<1> HIDE DEF c, s
<1>3. ledger' \in [Cloids -> OrderState \cup {Absent}] /\ Open' \in SUBSET Open
  BY <1>1, <1>2, AppliedFrees DEF IInv
<1>4. LockInv' /\ ThreadInv' /\ Admitted' /\ thread' \in [Plugins -> ThreadStates]
  BY <1>1, <1>3, ThreadTypes, ReturnKeeps
<1>5. told' \in [Cloids -> SUBSET OrderState]
  BY <1>1, <1>2, TellType DEF IInv
<1>6. TypeOK'
  BY <1>1, <1>3, <1>4, <1>5 DEF IInv, TypeOK, rateVars
<1>7. FeedInv'
  BY <1>1 DEF IInv, FeedInv
<1> QED BY <1>4, <1>6, <1>7 DEF IInv

LEMMA CancelKeeps ==
  ASSUME IInv, NEW p \in Plugins, NEW c \in Cloids, Cancel(p, c) PROVE IInv'
<1>1. /\ thread[p] = ThreadIdle /\ resting' = resting \ {c}
      /\ venue' = [venue EXCEPT ![c] = "cancelled"]
      /\ thread' = [thread EXCEPT ![p] = WithResult(c, "cancelled")]
      /\ UNCHANGED <<storeVars, rateVars, mid, lock, feed, historyVars>>
  BY DEF Cancel
<1>2. "cancelled" \in OrderState
  BY DEF OrderState, TerminalStates
<1>3. /\ WithResult(c, "cancelled") \in ThreadStates
      /\ WithResult(c, "cancelled").pc = "apply"
      /\ WithResult(c, "cancelled").cloid = c
      /\ WithResult(c, "cancelled").state = "cancelled"
  BY <1>2, ThreadTypes
<1> DEFINE new == WithResult(c, "cancelled")
<1>4. LockInv' /\ ThreadInv' /\ Admitted' /\ thread' \in [Plugins -> ThreadStates]
  <2>1. thread[p].pc \in {"idle", "apply"}
    BY <1>1, ThreadTypes
  <2>2. /\ new.pc \in {"idle", "apply"}
        /\ new.pc = "idle" => new = ThreadIdle
        /\ new.pc = "apply" => new.cloid \in Cloids /\ new.state \in OrderState
    BY <1>2, <1>3
  <2>3. UNCHANGED lock /\ Open' \in SUBSET Open
    BY <1>1, SameOpen DEF storeVars
  <2>4. new \in ThreadStates /\ thread' = [thread EXCEPT ![p] = new]
    BY <1>1, <1>3
  <2> HIDE DEF new
  <2> QED BY <2>1, <2>2, <2>3, <2>4, ReturnKeeps
<1>5. TypeOK'
  BY <1>1, <1>2, <1>4 DEF IInv, TypeOK, storeVars, rateVars, historyVars
<1>6. FeedInv'
  BY <1>1 DEF IInv, FeedInv
<1> QED BY <1>4, <1>5, <1>6 DEF IInv

-----------------------------------------------------------------------------
(* The feed thread and the clock leave the threads alone.                  *)

LEMMA NewMidKeeps ==
  ASSUME IInv, NEW coin \in Coins, NEW m \in Mids, NewMid(coin, m) PROVE IInv'
<1>1. /\ mid' = [mid EXCEPT ![coin] = m]
      /\ feed' = [FeedIdle EXCEPT !.pc = "poll", !.coin = coin]
      /\ UNCHANGED <<storeVars, resting, lock, rateVars, thread, historyVars, venue>>
  BY DEF NewMid
<1>2. feed' \in FeedStates /\ feed'.pc = "poll" /\ feed'.coin = coin
  BY <1>1 DEF FeedIdle, FeedStates
<1>3. LockInv' /\ ThreadInv' /\ Admitted'
  BY <1>1, SameOpen, OtherStepKeeps DEF storeVars
<1>4. TypeOK'
  BY <1>1, <1>2 DEF IInv, TypeOK, storeVars, rateVars, historyVars
<1>5. FeedInv'
  BY <1>2 DEF FeedInv
<1> QED BY <1>3, <1>4, <1>5 DEF IInv

LEMMA PollKeeps ==
  ASSUME IInv, Poll PROVE IInv'
<1> DEFINE filled == FilledBy(feed.coin, mid[feed.coin])
<1>1. /\ resting' = resting \ filled
      /\ venue' = [c \in Cloids |-> IF c \in filled THEN "filled" ELSE venue[c]]
      /\ feed' = Emitting(filled)
      /\ UNCHANGED <<storeVars, mid, lock, rateVars, thread, historyVars>>
  BY DEF Poll
<1>2. filled \in SUBSET Cloids
  BY DEF FilledBy, IInv, TypeOK
<1> HIDE DEF filled
<1>3. feed' \in FeedStates /\ feed'.pc \in {"idle", "emit"}
  BY <1>1, <1>2, FeedTypes
<1>4. LockInv' /\ ThreadInv' /\ Admitted'
  BY <1>1, SameOpen, OtherStepKeeps DEF storeVars
<1>5. TypeOK'
  BY <1>1, <1>3 DEF IInv, TypeOK, storeVars, rateVars, historyVars, OrderState, TerminalStates
<1>6. FeedInv'
  BY <1>3 DEF FeedInv
<1> QED BY <1>4, <1>5, <1>6 DEF IInv

LEMMA EmitKeeps ==
  ASSUME IInv, NEW c \in Cloids, Emit(c) PROVE IInv'
<1>1. /\ ledger' = Applied(c, "filled")
      /\ feed' = [feed EXCEPT !.pc = "notify", !.cur = c]
      /\ UNCHANGED <<status, resting, mid, lock, rateVars, thread, historyVars, venue>>
  BY DEF Emit
<1>2. feed' \in FeedStates /\ feed'.pc = "notify" /\ feed'.cur = c
  BY <1>1 DEF IInv, TypeOK, FeedStates
<1>3. ledger' \in [Cloids -> OrderState \cup {Absent}] /\ Open' \in SUBSET Open
  BY <1>1, AppliedFrees DEF IInv, OrderState, TerminalStates
<1>4. LockInv' /\ ThreadInv' /\ Admitted'
  BY <1>1, <1>3, OtherStepKeeps
<1>5. TypeOK'
  BY <1>1, <1>2, <1>3 DEF IInv, TypeOK, rateVars, historyVars
<1>6. FeedInv'
  BY <1>2 DEF FeedInv
<1> QED BY <1>4, <1>5, <1>6 DEF IInv

LEMMA NotifyKeeps ==
  ASSUME IInv, Notify PROVE IInv'
<1>1. /\ feed.pc = "notify" /\ feed' = Emitting(feed.out \ {feed.cur})
      /\ Tell(feed.cur, "filled") \/ UNCHANGED told
      /\ UNCHANGED <<storeVars, resting, mid, lock, rateVars, thread, issued, venue, lost>>
  BY DEF Notify
<1>2. feed.cur \in Cloids /\ feed.out \in SUBSET Cloids
  BY <1>1 DEF IInv, TypeOK, FeedStates, FeedInv
<1>3. feed' \in FeedStates /\ feed'.pc \in {"idle", "emit"}
  BY <1>1, <1>2, FeedTypes
<1>4. told' \in [Cloids -> SUBSET OrderState]
  BY <1>1, <1>2, TellType DEF IInv, TypeOK, OrderState, TerminalStates
<1>5. LockInv' /\ ThreadInv' /\ Admitted'
  BY <1>1, SameOpen, OtherStepKeeps DEF storeVars
<1>6. TypeOK'
  BY <1>1, <1>3, <1>4 DEF IInv, TypeOK, storeVars, rateVars
<1>7. FeedInv'
  BY <1>3 DEF FeedInv
<1> QED BY <1>5, <1>6, <1>7 DEF IInv

LEMMA TickClockKeeps ==
  ASSUME IInv, TickClock PROVE IInv'
<1>1. /\ clock' \in 0 .. MaxTime
      /\ UNCHANGED <<storeVars, resting, mid, lock, recent, thread, feed, log,
                     historyVars, venue>>
  BY PathAssumption DEF TickClock, IInv, TypeOK
<1>2. LockInv' /\ ThreadInv' /\ Admitted'
  BY <1>1, SameOpen, OtherStepKeeps DEF storeVars
<1> QED BY <1>1, <1>2 DEF IInv, TypeOK, FeedInv, storeVars, historyVars

-----------------------------------------------------------------------------
(* Exceptions, the closing of the store, and crashes.                      *)

LEMMA ReserveRaisesKeeps ==
  ASSUME IInv, NEW p \in Plugins, ReserveRaises(p) PROVE IInv'
<1>1. /\ thread[p].pc \in Critical /\ NoteSubmission
      /\ thread' = [thread EXCEPT ![p] = ThreadIdle] /\ lock' = Free
      /\ UNCHANGED <<storeVars, resting, mid, feed, historyVars, venue>>
  BY DEF ReserveRaises, Critical, Checking
<1>2. lock = p
  BY <1>1, CriticalHolds
<1>3. \A q \in Plugins : q # p => (lock' = q <=> lock = q)
  BY <1>1, <1>2, PathAssumption
<1>4. ThreadIdle.pc \in Critical <=> lock' = p
  BY <1>1, PathAssumption, ThreadTypes DEF Critical, Checking
<1>5. LockInv' /\ ThreadInv' /\ Admitted' /\ thread' \in [Plugins -> ThreadStates]
  BY <1>1, <1>3, <1>4, ThreadTypes, SameOpen, ThreadStepKeeps DEF storeVars
<1>6. TypeOK'
  BY <1>1, <1>5, NoteType DEF IInv, TypeOK, storeVars, historyVars, NoteSubmission
<1>7. FeedInv'
  BY <1>1 DEF IInv, FeedInv
<1> QED BY <1>5, <1>6, <1>7 DEF IInv

LEMMA ApplyRaisesKeeps ==
  ASSUME IInv, NEW p \in Plugins, ApplyRaises(p) PROVE IInv'
<1>1. /\ thread[p].pc = "apply" /\ lost' = lost \cup {thread[p].cloid}
      /\ thread' = [thread EXCEPT ![p] = ThreadIdle]
      /\ UNCHANGED <<storeVars, resting, mid, lock, rateVars, feed, issued, venue, told>>
  BY DEF ApplyRaises
<1>2. thread[p].cloid \in Cloids
  BY <1>1 DEF IInv, ThreadInv
<1>3. LockInv' /\ ThreadInv' /\ Admitted' /\ thread' \in [Plugins -> ThreadStates]
  BY <1>1, ThreadTypes, SameOpen, ReturnKeeps DEF storeVars
<1>4. TypeOK'
  BY <1>1, <1>2, <1>3 DEF IInv, TypeOK, storeVars, rateVars
<1>5. FeedInv'
  BY <1>1 DEF IInv, FeedInv
<1> QED BY <1>3, <1>4, <1>5 DEF IInv

LEMMA EmitRaisesKeeps ==
  ASSUME IInv, EmitRaises PROVE IInv'
<1>1. /\ feed' = FeedIdle /\ lost' = lost \cup feed.out
      /\ UNCHANGED <<storeVars, resting, mid, lock, rateVars, thread, issued, venue, told>>
  BY DEF EmitRaises
<1>2. feed.out \in SUBSET Cloids
  BY DEF IInv, TypeOK, FeedStates
<1>3. LockInv' /\ ThreadInv' /\ Admitted'
  BY <1>1, SameOpen, OtherStepKeeps DEF storeVars
<1>4. TypeOK'
  BY <1>1, <1>2, FeedTypes DEF IInv, TypeOK, storeVars, rateVars
<1>5. FeedInv'
  BY <1>1, FeedTypes DEF FeedInv
<1> QED BY <1>3, <1>4, <1>5 DEF IInv

LEMMA CloseRestartKeeps ==
  ASSUME IInv, Close \/ Restart PROVE IInv'
<1>1. /\ status' \in {"up", "closed", "down"}
      /\ UNCHANGED <<ledger, resting, mid, lock, rateVars, thread, historyVars, venue>>
      /\ feed' = feed \/ \E coin \in Coins : feed' = TickOf(coin)
  BY DEF Close, Restart
<1>2. LockInv' /\ ThreadInv' /\ Admitted'
  BY <1>1, SameOpen, OtherStepKeeps
<1>3. feed' \in FeedStates /\ FeedInv'
  BY <1>1 DEF IInv, TypeOK, FeedInv, TickOf, FeedStates
<1> QED BY <1>1, <1>2, <1>3 DEF IInv, TypeOK, rateVars, historyVars

\* Every thread is gone and nobody holds the lock.
NobodyInside == thread = [p \in Plugins |-> ThreadIdle] /\ lock = Free

LEMMA NobodyIn ==
  NobodyInside =>
    LockInv /\ ThreadInv /\ Admitted /\ thread \in [Plugins -> ThreadStates]
<1> SUFFICES ASSUME NobodyInside
             PROVE  LockInv /\ ThreadInv /\ Admitted /\ thread \in [Plugins -> ThreadStates]
  OBVIOUS
<1> USE DEF NobodyInside
<1>1. \A p \in Plugins : thread[p] = ThreadIdle /\ thread[p].pc = "idle"
  BY ThreadTypes
<1>2. LockInv
  BY <1>1, PathAssumption DEF LockInv, Critical, Checking
<1> QED BY <1>1, <1>2, ThreadTypes DEF ThreadInv, Admitted

LEMMA CrashKeeps ==
  ASSUME IInv, Crash PROVE IInv'
<1>1. /\ status' = "down" /\ resting' = {} /\ lock' = Free /\ recent' = <<>> /\ log' = <<>>
      /\ mid' = [coin \in Coins |-> NoMid] /\ feed' = FeedIdle
      /\ thread' = [p \in Plugins |-> ThreadIdle]
      /\ lost' = lost \cup Open \cup InFlight \cup feed.out
      /\ UNCHANGED <<ledger, clock, issued, venue, told>>
  BY DEF Crash
<1>2. Open \in SUBSET Cloids /\ InFlight \in SUBSET Cloids /\ feed.out \in SUBSET Cloids
  BY DEF Open, OpenIn, InFlight, IInv, TypeOK, FeedStates
<1>3. LockInv' /\ ThreadInv' /\ Admitted' /\ thread' \in [Plugins -> ThreadStates]
  <2>1. NobodyInside'
    BY <1>1 DEF NobodyInside
  <2>2. (NobodyInside =>
           LockInv /\ ThreadInv /\ Admitted /\ thread \in [Plugins -> ThreadStates])'
    BY NobodyIn, PTL
  <2> QED BY <2>1, <2>2
<1>4. TypeOK'
  BY <1>1, <1>2, <1>3, FeedTypes DEF IInv, TypeOK
<1>5. FeedInv'
  BY <1>1, FeedTypes DEF FeedInv
<1> QED BY <1>3, <1>4, <1>5 DEF IInv

LEMMA InitInv == Init => IInv
<1> SUFFICES ASSUME Init PROVE IInv
  OBVIOUS
<1> USE DEF Init
<1>1. LockInv /\ ThreadInv /\ Admitted /\ thread \in [Plugins -> ThreadStates]
  BY NobodyIn DEF NobodyInside
<1>2. TypeOK
  BY <1>1, FeedTypes, PathAssumption DEF TypeOK, OrderState
<1>3. FeedInv
  BY FeedTypes DEF FeedInv
<1> QED BY <1>1, <1>2, <1>3 DEF IInv

-----------------------------------------------------------------------------
LEMMA NextInv == IInv /\ [Next]_vars => IInv'
<1> SUFFICES ASSUME IInv, [Next]_vars PROVE IInv'
  OBVIOUS
<1>1. ASSUME NEW p \in Plugins, ThreadStep(p) PROVE IInv'
  BY <1>1, CheckOpenKeeps, CheckNotionalKeeps, ReserveKeeps, PlaceKeeps, RestKeeps,
     ApplyKeeps DEF ThreadStep
<1>2. CASE FeedStep
  BY <1>2, PollKeeps, EmitKeeps, NotifyKeeps DEF FeedStep
<1>3. CASE Input
  BY <1>3, SubmitKeeps, CancelKeeps, NewMidKeeps, TickClockKeeps DEF Input
<1>4. CASE Fault
  BY <1>4, ReserveRaisesKeeps, ApplyRaisesKeeps, EmitRaisesKeeps, CloseRestartKeeps,
     CrashKeeps DEF Fault
<1>5. CASE UNCHANGED vars
  <2>1. UNCHANGED <<thread, lock, ledger>>
    BY <1>5 DEF vars, storeVars
  <2>2. LockInv' /\ ThreadInv' /\ Admitted'
    BY <2>1, SameOpen, OtherStepKeeps
  <2> QED BY <1>5, <2>2 DEF vars, IInv, TypeOK, FeedInv
<1> QED BY <1>1, <1>2, <1>3, <1>4, <1>5 DEF Next, Normal

\* What the guard read still holds when the order is recorded: the lock keeps it
\* so (order_router.py:27-40).
THEOREM Invariance == Spec => []IInv
BY InitInv, NextInv, PTL DEF Spec

\* Every variable of the path keeps its type: in particular no thread carries
\* an order state or an order that does not exist (order_router.py:27-51).
THEOREM TypeCorrect == Spec => []TypeOK
<1>1. IInv => TypeOK
  BY DEF IInv
<1> QED BY <1>1, Invariance, PTL

-----------------------------------------------------------------------------
(* Every step is a step of the limited ledger, or leaves it alone.         *)

LEMMA AppliedRefines ==
  ASSUME TypeOK, NEW c \in Cloids, NEW s \in OrderState, ledger' = Applied(c, s)
  PROVE  [Ledger!LimitedNext]_ledger
BY AppliedFrees, LedgerWords DEF Ledger!LimitedNext

LEMMA StepRefines == IInv /\ [Next]_vars => [Ledger!LimitedNext]_ledger
<1> SUFFICES ASSUME IInv, [Next]_vars PROVE [Ledger!LimitedNext]_ledger
  OBVIOUS
<1>1. ASSUME NEW p \in Plugins, ThreadStep(p) PROVE [Ledger!LimitedNext]_ledger
  <2>1. CASE Reserve(p)
    BY <2>1, ReserveRecords DEF Ledger!LimitedNext
  <2>2. CASE Apply(p)
    <3>1. thread[p].cloid \in Cloids /\ thread[p].state \in OrderState
      BY <2>2 DEF Apply, IInv, ThreadInv
    <3> QED BY <2>2, <3>1, AppliedRefines DEF Apply, IInv
  <2>3. CASE CheckOpen(p) \/ CheckNotional(p) \/ Place(p) \/ Rest(p)
    BY <2>3 DEF CheckOpen, CheckNotional, Place, Rest, storeVars
  <2> QED BY <1>1, <2>1, <2>2, <2>3 DEF ThreadStep
<1>2. CASE FeedStep
  <2>1. ASSUME NEW c \in Cloids, Emit(c) PROVE [Ledger!LimitedNext]_ledger
    BY <2>1, AppliedRefines DEF Emit, IInv, OrderState, TerminalStates
  <2> QED BY <1>2, <2>1 DEF FeedStep, Poll, Notify, storeVars
<1>3. CASE Input
  BY <1>3 DEF Input, Submit, Cancel, NewMid, TickClock, storeVars
<1>4. CASE Fault
  BY <1>4 DEF Fault, ReserveRaises, ApplyRaises, EmitRaises, Close, Crash, Restart, storeVars
<1>5. CASE UNCHANGED vars
  BY <1>5 DEF vars
<1> QED BY <1>1, <1>2, <1>3, <1>4, <1>5 DEF Next, Normal

\* The path, with any number of plugins, orders, faults and feeds, implements
\* the limited ledger: every order that is recorded satisfies the limits at that
\* instant, and a recorded state only advances (order_router.py:27-51).
THEOREM PathImplementsLimitedLedger == Spec => ImplementsLimitedLedger
<1>1. Init => Ledger!Init
  BY LedgerWords DEF Init, Ledger!Init
<1> QED BY <1>1, Invariance, StepRefines, PTL
        DEF Spec, ImplementsLimitedLedger, Ledger!LimitedSpec

-----------------------------------------------------------------------------
(* The admission rule, checked once per order when it is recorded, keeps   *)
(* the limits true for ever: first of the ledger, then of the path.        *)

Reduce == {c \in Cloids : Intent[c].reduceOnly}

LedgerInv == ledger \in [Cloids -> OrderState \cup {Absent}] /\ LimitsHold

\* LimitsHold in the vocabulary of this module.
LEMMA LimitsWords ==
  LimitsHold <=> Cardinality(Open) <= MaxOpen /\ GrossOf[Open \ Reduce] <= MaxGross
BY LedgerWords, LedgerCardinality DEF LimitsHold, Ledger!LimitsHold, Ledger!ReduceOnly, Reduce

LEMMA LimitsWordsNext ==
  LimitsHold' <=> Cardinality(Open') <= MaxOpen /\ GrossOf[Open' \ Reduce] <= MaxGross
<1>1. (LimitsHold <=> Cardinality(Open) <= MaxOpen /\ GrossOf[Open \ Reduce] <= MaxGross)'
  BY LimitsWords, PTL
<1> QED BY <1>1 DEF Reduce

\* Recording an order that is within the limits keeps the limits.
LEMMA LimitedRecordKeeps ==
  ASSUME LedgerInv, NEW c \in Cloids, Ledger!LimitedRecord(c)
  PROVE  LedgerInv'
<1>1. ledger[c] = Absent /\ ledger' = [ledger EXCEPT ![c] = "pending"]
  BY LedgerWords DEF Ledger!LimitedRecord, Ledger!Record
<1>2. ledger' \in [Cloids -> OrderState \cup {Absent}]
  BY <1>1 DEF LedgerInv, OrderState, OpenStates
<1>3. c \notin Open /\ Open' = Open \cup {c}
  BY <1>1 DEF LedgerInv, Open, OpenIn, OpenStates, Absent
<1>4. Open \in SUBSET Cloids /\ Reduce \in SUBSET Cloids
  BY DEF Open, OpenIn, Reduce
<1>5. Cardinality(Open) < MaxOpen
  BY LedgerWords, LedgerCardinality DEF Ledger!LimitedRecord, Ledger!WithinLimits
<1>6. c \in Reduce \/ GrossOf[Open] + Notional(c) <= MaxGross
  <2>1. Intent[c].reduceOnly \/ GrossOf[Ledger!Open] + Ledger!Notional(c) <= MaxGross
    BY Zenon DEF Ledger!LimitedRecord, Ledger!WithinLimits
  <2>2. Ledger!Notional(c) = Notional(c) /\ Ledger!Open = Open
    BY LedgerWords
  <2> QED BY <2>1, <2>2, Zenon DEF Reduce
<1>7. Cardinality(Open) <= MaxOpen /\ GrossOf[Open \ Reduce] <= MaxGross
  BY LimitsWords DEF LedgerInv
<1>8. Cardinality(Open') <= MaxOpen /\ GrossOf[Open' \ Reduce] <= MaxGross
  BY <1>3, <1>4, <1>5, <1>6, <1>7, OneMoreFits, LimitsAssumption
<1> QED BY <1>2, <1>8, LimitsWordsNext DEF LedgerInv

\* An update can only free exposure.
LEMMA AdvanceKeeps ==
  ASSUME LedgerInv, NEW c \in Cloids, NEW s \in OrderState, Ledger!Advance(c, s)
  PROVE  LedgerInv'
<1>1. ledger[c] \in OpenStates /\ ledger' = [ledger EXCEPT ![c] = s]
  BY LedgerWords DEF Ledger!Advance, Ledger!Advances
<1>2. ledger' \in [Cloids -> OrderState \cup {Absent}]
  BY <1>1 DEF LedgerInv
<1>3. Open' \in SUBSET Open
  BY <1>1 DEF LedgerInv, Open, OpenIn
<1>4. Open \in SUBSET Cloids /\ Reduce \in SUBSET Cloids
  BY DEF Open, OpenIn, Reduce
<1>5. Cardinality(Open) <= MaxOpen /\ GrossOf[Open \ Reduce] <= MaxGross
  BY LimitsWords DEF LedgerInv
<1>6. Cardinality(Open') <= MaxOpen /\ GrossOf[Open' \ Reduce] <= MaxGross
  BY <1>3, <1>4, <1>5, FewerFit, LimitsAssumption
<1> QED BY <1>2, <1>6, LimitsWordsNext DEF LedgerInv

\* The limits hold of the ledger at every moment, for every set of orders, every
\* intent and every limit: it is enough to check an order against them when it is
\* recorded (risk_guard.py:43-61).
THEOREM LedgerKeepsLimits == ImplementsLimitedLedger => []LimitsHold
<1>1. Ledger!Init => LedgerInv
  <2> SUFFICES ASSUME Ledger!Init PROVE LedgerInv
    OBVIOUS
  <2>1. ledger = [c \in Cloids |-> Absent]
    BY LedgerWords DEF Ledger!Init
  <2>2. Open = {} /\ Open \ Reduce = {}
    BY <2>1 DEF Open, OpenIn, OpenStates, Absent
  <2>3. Cardinality({}) = 0 /\ GrossOf[{}] = 0
    BY FS_EmptySet, GrossAssumption
  <2> QED BY <2>1, <2>2, <2>3, LimitsWords, LimitsAssumption DEF LedgerInv
<1>2. LedgerInv /\ [Ledger!LimitedNext]_ledger => LedgerInv'
  <2>1. ASSUME LedgerInv, UNCHANGED ledger PROVE LedgerInv'
    BY <2>1, LimitsWords, LimitsWordsNext DEF LedgerInv, Open, OpenIn
  <2>2. ASSUME LedgerInv, Ledger!LimitedNext PROVE LedgerInv'
    BY <2>2, LedgerWords, LimitedRecordKeeps, AdvanceKeeps DEF Ledger!LimitedNext
  <2> QED BY <2>1, <2>2
<1>3. LedgerInv => LimitsHold
  BY DEF LedgerInv
<1> QED BY <1>1, <1>2, <1>3, PTL DEF ImplementsLimitedLedger, Ledger!LimitedSpec

\* And so of the path, whatever the interleaving of submissions, fills, cancels
\* and faults (risk_guard.py:43-61, order_router.py:31-38).
THEOREM LimitsAlwaysHold == Spec => []LimitsHold
BY PathImplementsLimitedLedger, LedgerKeepsLimits, PTL

-----------------------------------------------------------------------------
(* The path drives the rate window as RateWindow has it driven.            *)

\* A rate check has succeeded and what follows it is still to come.
RateAdmitted == \E p \in Plugins : thread[p].pc \in Checking

\* The lock makes that a statement about its holder.
LEMMA HolderAdmitted ==
  ASSUME IInv
  PROVE  /\ lock = Free => ~RateAdmitted
         /\ \A p \in Plugins : lock = p => (RateAdmitted <=> thread[p].pc \in Checking)
BY PathAssumption DEF IInv, LockInv, RateAdmitted, Critical

\* What a step of one thread does to it.
LEMMA StepAdmits ==
  ASSUME IInv, NEW p \in Plugins, NEW new, thread' = [thread EXCEPT ![p] = new]
  PROVE  /\ thread[p].pc \notin Checking /\ new.pc \notin Checking =>
              (RateAdmitted' <=> RateAdmitted)
         /\ lock \in {p, Free} => (RateAdmitted' <=> new.pc \in Checking)
<1>1. thread'[p] = new /\ \A q \in Plugins \ {p} : thread'[q] = thread[q]
  BY DEF IInv, TypeOK
<1>2. lock \in {p, Free} => \A q \in Plugins \ {p} : thread[q].pc \notin Checking
  BY PathAssumption DEF IInv, LockInv, Critical
<1> QED BY <1>1, <1>2 DEF RateAdmitted

\* The actions of the rate window, seen from the path.
LEMMA WindowSteps ==
  /\ (/\ ~RateAdmitted /\ recent' = Rate!Trim(recent, clock)
      /\ RateAdmitted' <=> Rate!UnderRate(recent')
      /\ UNCHANGED <<clock, log>>) => Rate!Check
  /\ RateAdmitted /\ ~RateAdmitted' /\ UNCHANGED rateVars => Rate!Decline
  /\ RateAdmitted /\ ~RateAdmitted' /\ NoteSubmission => Rate!Note
  /\ recent' = <<>> /\ log' = <<>> /\ ~RateAdmitted' /\ UNCHANGED clock => Rate!NewProcess
  /\ clock' = clock + 1 /\ UNCHANGED <<recent, log>> /\ (RateAdmitted' <=> RateAdmitted)
       => Rate!Tick
  /\ UNCHANGED rateVars /\ (RateAdmitted' <=> RateAdmitted) => UNCHANGED Rate!vars
<1>1. (/\ ~RateAdmitted /\ recent' = Rate!Trim(recent, clock)
       /\ RateAdmitted' <=> Rate!UnderRate(recent')
       /\ UNCHANGED <<clock, log>>) => Rate!Check
  <2> SUFFICES ASSUME ~RateAdmitted, recent' = Rate!Trim(recent, clock),
                      RateAdmitted' <=> Rate!UnderRate(recent'), UNCHANGED <<clock, log>>
               PROVE  Rate!Check
    BY Zenon
  <2>1. RateAdmitted' = Rate!UnderRate(recent')
    <3>1. RateAdmitted' \in BOOLEAN /\ Rate!UnderRate(recent') \in BOOLEAN
      BY DEF RateAdmitted, Rate!UnderRate
    <3>2. \A a, b \in BOOLEAN : (a <=> b) => a = b
      OBVIOUS
    <3> HIDE DEF RateAdmitted
    <3> QED BY <3>1, <3>2, Zenon
  <2> QED BY <2>1, Zenon DEF Rate!Check, RateAdmitted
<1>2. RateAdmitted /\ ~RateAdmitted' /\ UNCHANGED rateVars => Rate!Decline
  BY Zenon DEF Rate!Decline, RateAdmitted, rateVars
<1>3. RateAdmitted /\ ~RateAdmitted' /\ NoteSubmission => Rate!Note
  BY Zenon DEF Rate!Note, RateAdmitted, NoteSubmission
<1>4. recent' = <<>> /\ log' = <<>> /\ ~RateAdmitted' /\ UNCHANGED clock => Rate!NewProcess
  BY Zenon DEF Rate!NewProcess, RateAdmitted
<1>5. clock' = clock + 1 /\ UNCHANGED <<recent, log>> /\ (RateAdmitted' <=> RateAdmitted)
        => Rate!Tick
  BY Zenon DEF Rate!Tick, RateAdmitted
<1>6. UNCHANGED rateVars /\ (RateAdmitted' <=> RateAdmitted) => UNCHANGED Rate!vars
  BY Zenon DEF Rate!vars, RateAdmitted, rateVars
<1> QED BY <1>1, <1>2, <1>3, <1>4, <1>5, <1>6, Zenon

\* A step of one thread about the window: before, the lock was its own or free.
LEMMA CheckingStep ==
  ASSUME IInv, NEW p \in Plugins,
         \/ CheckOpen(p) \/ CheckNotional(p) \/ Reserve(p) \/ ReserveRaises(p)
         \/ \E c \in Cloids : Submit(p, c)
  PROVE  [Rate!Next]_Rate!vars
<1>1. ASSUME NEW c \in Cloids, Submit(p, c) PROVE Rate!Check
  <2>1. /\ lock = Free /\ recent' = Rate!Trim(recent, clock) /\ UNCHANGED <<clock, log>>
    BY <1>1 DEF Submit
  <2>2. CASE Rate!UnderRate(recent') /\ thread' = [thread EXCEPT ![p] = At("open", c)]
    <3>1. At("open", c).pc \in Checking
      BY ThreadTypes DEF Critical, Checking
    <3>2. RateAdmitted' /\ ~RateAdmitted
      BY <2>1, <2>2, <3>1, StepAdmits, HolderAdmitted
    <3> QED BY <2>1, <2>2, <3>2, WindowSteps
  <2>3. CASE ~Rate!UnderRate(recent') /\ thread' = [thread EXCEPT ![p] = ThreadIdle]
    <3>1. ThreadIdle.pc \notin Checking
      BY ThreadTypes DEF Checking
    <3>2. ~RateAdmitted' /\ ~RateAdmitted
      BY <2>1, <2>3, <3>1, StepAdmits, HolderAdmitted
    <3> QED BY <2>1, <2>3, <3>2, WindowSteps
  <2> QED BY <1>1, <2>2, <2>3 DEF Submit, Refuse
<1>2. ASSUME CheckOpen(p) \/ CheckNotional(p) \/ Reserve(p) \/ ReserveRaises(p)
      PROVE  Rate!Decline \/ Rate!Note \/ UNCHANGED Rate!vars
  <2>1. thread[p].pc \in Checking /\ thread[p].pc \in Critical
    BY <1>2 DEF CheckOpen, CheckNotional, Reserve, ReserveRaises, Critical, Checking
  <2>2. lock = p /\ thread[p].cloid \in Cloids /\ RateAdmitted
    BY <2>1, CriticalHolds, HolderAdmitted
  <2>3. CASE UNCHANGED rateVars /\ \E pc \in Checking :
               thread' = [thread EXCEPT ![p] = At(pc, thread[p].cloid)]
    <3>0. PICK pc \in Checking : thread' = [thread EXCEPT ![p] = At(pc, thread[p].cloid)]
      BY <2>3
    <3> DEFINE new == At(pc, thread[p].cloid)
    <3>1. new.pc \in Checking
      BY DEF At
    <3>2. thread' = [thread EXCEPT ![p] = new]
      BY <3>0
    <3> HIDE DEF new
    <3>3. RateAdmitted'
      BY <2>2, <3>1, <3>2, StepAdmits
    <3> QED BY <2>2, <2>3, <3>3, WindowSteps
  <2>4. CASE /\ UNCHANGED rateVars \/ NoteSubmission
             /\ \E new \in {ThreadIdle, At("place", thread[p].cloid)} :
                  thread' = [thread EXCEPT ![p] = new]
    <3>1. \A new \in {ThreadIdle, At("place", thread[p].cloid)} : new.pc \notin Checking
      BY <2>2, ThreadTypes DEF Critical, Checking
    <3>2. ~RateAdmitted'
      BY <2>2, <2>4, <3>1, StepAdmits
    <3> QED BY <2>2, <2>4, <3>2, WindowSteps
  <2> QED BY <1>2, <2>3, <2>4
          DEF CheckOpen, CheckNotional, Reserve, ReserveRaises, Refuse, Checking
<1> QED BY <1>1, <1>2 DEF Rate!Next

\* The threads outside the checks, and everyone else, do not touch the window.
LEMMA OtherThreadStep ==
  ASSUME IInv, NEW p \in Plugins,
         \/ Place(p) \/ Rest(p) \/ Apply(p) \/ ApplyRaises(p)
         \/ \E c \in Cloids : Cancel(p, c)
  PROVE  UNCHANGED Rate!vars
<1>1. thread[p].pc \notin Checking /\ UNCHANGED rateVars
  BY ThreadTypes DEF Place, Rest, Apply, ApplyRaises, Cancel, Checking
<1>2. \E new : thread' = [thread EXCEPT ![p] = new] /\ new.pc \notin Checking
  <2>1. \A s : WithResult(thread[p].cloid, s).pc \notin Checking
    BY DEF WithResult, Checking
  <2>2. \A c, s : WithResult(c, s).pc \notin Checking
    BY DEF WithResult, Checking
  <2>3. At("rest", thread[p].cloid).pc \notin Checking /\ ThreadIdle.pc \notin Checking
    BY DEF At, ThreadIdle, Checking
  <2> QED BY <2>1, <2>2, <2>3 DEF Place, Rest, Apply, ApplyRaises, Cancel, Answer
<1> QED BY <1>1, <1>2, StepAdmits, WindowSteps

LEMMA StepDrivesWindow == IInv /\ [Next]_vars => [Rate!Next]_Rate!vars
<1> SUFFICES ASSUME IInv, [Next]_vars PROVE [Rate!Next]_Rate!vars
  OBVIOUS
<1>1. ASSUME UNCHANGED thread PROVE RateAdmitted' <=> RateAdmitted
  BY <1>1 DEF RateAdmitted
<1>2. ASSUME UNCHANGED <<thread, rateVars>> PROVE UNCHANGED Rate!vars
  BY <1>1, <1>2, WindowSteps
<1>3. ASSUME NEW p \in Plugins, ThreadStep(p) PROVE [Rate!Next]_Rate!vars
  <2>1. CASE CheckOpen(p) \/ CheckNotional(p) \/ Reserve(p)
    BY <2>1, CheckingStep
  <2>2. CASE Place(p) \/ Rest(p) \/ Apply(p)
    BY <2>2, OtherThreadStep
  <2> QED BY <1>3, <2>1, <2>2 DEF ThreadStep
<1>4. CASE FeedStep
  BY <1>2, <1>4 DEF FeedStep, Poll, Emit, Notify
<1>5. CASE Input
  <2>1. CASE TickClock
    <3>1. clock' = clock + 1 /\ UNCHANGED <<recent, log, thread>>
      BY <2>1 DEF TickClock
    <3> QED BY <1>1, <3>1, WindowSteps DEF Rate!Next
  <2>2. ASSUME NEW coin \in Coins, NEW m \in Mids, NewMid(coin, m) PROVE UNCHANGED Rate!vars
    BY <1>2, <2>2 DEF NewMid
  <2>3. ASSUME NEW p \in Plugins, NEW c \in Cloids, Submit(p, c) PROVE [Rate!Next]_Rate!vars
    BY <2>3, CheckingStep
  <2>4. ASSUME NEW p \in Plugins, NEW c \in Cloids, Cancel(p, c) PROVE UNCHANGED Rate!vars
    BY <2>4, OtherThreadStep
  <2> QED BY <1>5, <2>1, <2>2, <2>3, <2>4 DEF Input
<1>6. CASE Fault
  <2>1. CASE Crash
    <3>1. recent' = <<>> /\ log' = <<>> /\ UNCHANGED clock /\ \A p \in Plugins : thread'[p] = ThreadIdle
      BY <2>1 DEF Crash
    <3>2. ~RateAdmitted'
      BY <3>1, ThreadTypes DEF RateAdmitted, Checking
    <3> QED BY <3>1, <3>2, WindowSteps DEF Rate!Next
  <2>2. CASE EmitRaises \/ Close \/ Restart
    BY <1>2, <2>2 DEF EmitRaises, Close, Restart
  <2>3. ASSUME NEW p \in Plugins, ReserveRaises(p) PROVE [Rate!Next]_Rate!vars
    BY <2>3, CheckingStep
  <2>4. ASSUME NEW p \in Plugins, ApplyRaises(p) PROVE UNCHANGED Rate!vars
    BY <2>4, OtherThreadStep
  <2> QED BY <1>6, <2>1, <2>2, <2>3, <2>4 DEF Fault
<1>7. CASE UNCHANGED vars
  BY <1>2, <1>7 DEF vars, rateVars
<1> QED BY <1>3, <1>4, <1>5, <1>6, <1>7 DEF Next, Normal

\* The path uses the rate window as RateWindow describes: one check at a time,
\* and a note only after a successful check (order_router.py:31-37,
\* risk_guard.py:41-70).
THEOREM PathDrivesRateWindow == Spec => ImplementsRateWindow
<1>1. Init => Rate!Init
  <2> SUFFICES ASSUME Init PROVE Rate!Init
    OBVIOUS
  <2>1. ~\E p \in Plugins : thread[p].pc \in Checking
    BY ThreadTypes DEF Init, Checking
  <2> QED BY <2>1, Zenon DEF Init, Rate!Init
<1> QED BY <1>1, Invariance, StepDrivesWindow, PTL DEF Spec, ImplementsRateWindow, Rate!Spec

-----------------------------------------------------------------------------
(* The window itself.  RateBound speaks of the history and the code only   *)
(* of the deque, so the invariant ties the two: the deque is the tail of   *)
(* the history, what was trimmed off has expired for good (the clock never *)
(* goes back), and between a successful check and its note there is a free *)
(* place.                                                                  *)

Gone == Len(log) - Len(recent)

WindowType == clock \in Nat /\ recent \in Seq(Nat) /\ log \in Seq(Nat)

WindowInv ==
  /\ WindowType
  /\ Gone \in Nat
  /\ \A i \in 1 .. Len(recent) : recent[i] = log[i + Gone]
  /\ \A i \in 1 .. Gone : log[i] + Window <= clock
  /\ Len(recent) <= MaxRate
  /\ RateAdmitted => Len(recent) < MaxRate
  /\ Rate!RateBound

\* With nothing noted yet there is nothing to bound.
EmptyWindow == clock \in Nat /\ recent = <<>> /\ log = <<>> /\ ~RateAdmitted

LEMMA EmptyInv == EmptyWindow => WindowInv
<1> SUFFICES ASSUME EmptyWindow PROVE WindowInv
  OBVIOUS
<1>1. Len(recent) = 0 /\ Len(log) = 0
  BY DEF EmptyWindow
<1>2. WindowType
  BY DEF WindowType, EmptyWindow
<1>3. Gone = 0
  BY <1>1 DEF Gone
<1>4. Rate!RateBound
  BY <1>1 DEF Rate!RateBound
<1> QED BY <1>1, <1>2, <1>3, <1>4, LimitsAssumption DEF WindowInv, EmptyWindow

LEMMA WindowInit == Rate!Init => WindowInv
<1>1. Rate!Init => clock = 0 /\ recent = <<>> /\ log = <<>> /\ ~RateAdmitted
  BY Zenon DEF Rate!Init, RateAdmitted
<1> QED BY <1>1, EmptyInv DEF EmptyWindow

\* The steps of the window, said of the threads that stand between its check
\* and its note.
LEMMA WindowActions ==
  /\ Rate!Tick => clock' = clock + 1 /\ UNCHANGED <<recent, log>> /\ (RateAdmitted' <=> RateAdmitted)
  /\ Rate!Check => /\ recent' = Rate!Trim(recent, clock) /\ UNCHANGED <<clock, log>>
                   /\ RateAdmitted' <=> Rate!UnderRate(recent')
  /\ Rate!Decline => UNCHANGED <<clock, recent, log>> /\ ~RateAdmitted'
  /\ Rate!Note => /\ RateAdmitted /\ ~RateAdmitted' /\ UNCHANGED clock
                  /\ recent' = Append(recent, clock) /\ log' = Append(log, clock)
  /\ Rate!NewProcess => recent' = <<>> /\ log' = <<>> /\ UNCHANGED clock /\ ~RateAdmitted'
  /\ UNCHANGED Rate!vars => UNCHANGED <<clock, recent, log>> /\ (RateAdmitted' <=> RateAdmitted)
<1>1. Rate!Tick => RateAdmitted' = RateAdmitted
  BY Zenon DEF Rate!Tick, RateAdmitted
<1>2. Rate!Check => RateAdmitted' = Rate!UnderRate(recent')
  BY Zenon DEF Rate!Check, RateAdmitted
<1>3. (Rate!Decline \/ Rate!Note \/ Rate!NewProcess) => RateAdmitted' = FALSE
  BY Zenon DEF Rate!Decline, Rate!Note, Rate!NewProcess, RateAdmitted
<1>4. UNCHANGED Rate!vars => RateAdmitted' = RateAdmitted
  BY Zenon DEF Rate!vars, RateAdmitted
<1>5. Rate!Note => RateAdmitted
  BY Zenon DEF Rate!Note, RateAdmitted
<1>6. /\ Rate!Tick => clock' = clock + 1 /\ UNCHANGED <<recent, log>>
      /\ Rate!Check => recent' = Rate!Trim(recent, clock) /\ UNCHANGED <<clock, log>>
      /\ Rate!Decline => UNCHANGED <<clock, recent, log>>
      /\ Rate!Note => recent' = Append(recent, clock) /\ log' = Append(log, clock) /\ UNCHANGED clock
      /\ Rate!NewProcess => recent' = <<>> /\ log' = <<>> /\ UNCHANGED clock
      /\ UNCHANGED Rate!vars => UNCHANGED <<clock, recent, log>>
  BY Zenon DEF Rate!Tick, Rate!Check, Rate!Decline, Rate!Note, Rate!NewProcess, Rate!vars
<1> HIDE DEF RateAdmitted
<1> QED BY <1>1, <1>2, <1>3, <1>4, <1>5, <1>6

LEMMA WindowTick == ASSUME WindowInv, Rate!Tick PROVE WindowInv'
<1>0. clock' = clock + 1 /\ UNCHANGED <<recent, log>> /\ (RateAdmitted' <=> RateAdmitted)
  BY WindowActions
<1>1. Gone' = Gone
  BY <1>0 DEF Gone
<1>2. \A i \in 1 .. Gone : log[i] \in Nat
  BY DEF WindowInv, WindowType, Gone
<1> QED BY <1>0, <1>1, <1>2, LimitsAssumption DEF WindowInv, WindowType, Rate!RateBound

LEMMA WindowCheck == ASSUME WindowInv, Rate!Check PROVE WindowInv'
<1>0. /\ recent' = Rate!Trim(recent, clock) /\ clock' = clock /\ log' = log
      /\ RateAdmitted' <=> Rate!UnderRate(recent')
  BY WindowActions
<1>1. /\ recent \in Seq(Nat) /\ log \in Seq(Nat) /\ clock \in Nat
      /\ Len(recent) \in Nat /\ Len(log) \in Nat /\ MaxRate \in Nat
  BY LimitsAssumption DEF WindowInv, WindowType
<1>2. PICK k \in 0 .. Len(recent) :
        /\ recent' \in Seq(Nat)
        /\ Len(recent') = Len(recent) - k
        /\ \A i \in 1 .. Len(recent) - k : recent'[i] = recent[i + k]
        /\ \A i \in 1 .. k : recent[i] + Window <= clock
  BY <1>0, <1>1, TrimIsTail
<1>3. Gone' = Gone + k /\ Gone' \in Nat
  BY <1>0, <1>1, <1>2 DEF Gone, WindowInv
<1>4. \A i \in 1 .. Len(recent') : recent'[i] = log[i + Gone']
  BY <1>0, <1>1, <1>2, <1>3 DEF WindowInv
<1>5. \A i \in 1 .. Gone' : log[i] + Window <= clock
  <2> SUFFICES ASSUME NEW i \in 1 .. Gone' PROVE log[i] + Window <= clock
    OBVIOUS
  <2>1. CASE i <= Gone
    BY <1>1, <1>3, <2>1 DEF WindowInv
  <2>2. CASE i > Gone
    <3>1. i - Gone \in 1 .. k /\ i - Gone \in 1 .. Len(recent) /\ (i - Gone) + Gone = i
      BY <1>1, <1>2, <1>3, <2>2 DEF WindowInv
    <3> QED BY <1>2, <3>1 DEF WindowInv
  <2> QED BY <1>3, <2>1, <2>2 DEF WindowInv
<1>6. Len(recent') <= MaxRate /\ (RateAdmitted' => Len(recent') < MaxRate)
  <2>1. Len(recent') <= MaxRate
    BY <1>1, <1>2 DEF WindowInv
  <2>2. RateAdmitted' => Len(recent') < MaxRate
    BY <1>0 DEF Rate!UnderRate
  <2> QED BY <2>1, <2>2
<1> QED BY <1>0, <1>1, <1>2, <1>3, <1>4, <1>5, <1>6 DEF WindowInv, WindowType, Rate!RateBound

LEMMA WindowNote == ASSUME WindowInv, Rate!Note PROVE WindowInv'
<1>0. /\ RateAdmitted /\ ~RateAdmitted' /\ clock' = clock
      /\ recent' = Append(recent, clock) /\ log' = Append(log, clock)
  BY WindowActions
<1>1. /\ recent \in Seq(Nat) /\ log \in Seq(Nat) /\ clock \in Nat
      /\ Len(recent) \in Nat /\ Len(log) \in Nat /\ MaxRate \in Nat
      /\ Len(recent) < MaxRate
  BY <1>0, LimitsAssumption DEF WindowInv, WindowType
<1>2. /\ recent' \in Seq(Nat) /\ Len(recent') = Len(recent) + 1
      /\ recent'[Len(recent) + 1] = clock
      /\ \A i \in 1 .. Len(recent) : recent'[i] = recent[i]
  BY <1>0, <1>1
<1>3. /\ log' \in Seq(Nat) /\ Len(log') = Len(log) + 1
      /\ log'[Len(log) + 1] = clock
      /\ \A i \in 1 .. Len(log) : log'[i] = log[i]
  BY <1>0, <1>1
<1>4. Gone' = Gone /\ Gone \in Nat
  BY <1>1, <1>2, <1>3 DEF Gone, WindowInv
<1>5. \A i \in 1 .. Len(recent') : recent'[i] = log'[i + Gone']
  <2> SUFFICES ASSUME NEW i \in 1 .. Len(recent') PROVE recent'[i] = log'[i + Gone']
    OBVIOUS
  <2>1. CASE i <= Len(recent)
    <3>1. i \in 1 .. Len(recent) /\ i + Gone \in 1 .. Len(log)
      BY <1>1, <1>4, <2>1 DEF Gone
    <3> QED BY <1>2, <1>3, <1>4, <3>1 DEF WindowInv
  <2>2. CASE i = Len(recent) + 1
    <3>1. i + Gone' = Len(log) + 1
      BY <1>0, <1>1, <1>4, <2>2 DEF Gone
    <3> QED BY <1>2, <1>3, <2>2, <3>1
  <2>3. i <= Len(recent) \/ i = Len(recent) + 1
    BY <1>1, <1>2
  <2> QED BY <2>1, <2>2, <2>3
<1>6. \A i \in 1 .. Gone' : log'[i] + Window <= clock
  BY <1>0, <1>1, <1>3, <1>4 DEF WindowInv, Gone
<1>7. Rate!RateBound'
  <2>0. Len(log') = Len(log) + 1
    BY <1>3
  <2> SUFFICES ASSUME NEW i \in 1 .. (Len(log) + 1), i + MaxRate <= Len(log) + 1
               PROVE  log'[i + MaxRate] - log'[i] >= Window
    BY <2>0 DEF Rate!RateBound
  <2>1. CASE i + MaxRate <= Len(log)
    <3>1. i \in 1 .. Len(log) /\ i + MaxRate \in 1 .. Len(log)
      BY <1>1, <1>3, <2>1
    <3> QED BY <1>3, <2>1, <3>1 DEF WindowInv, Rate!RateBound
  <2>2. CASE ~(i + MaxRate <= Len(log))
    <3>0. i + MaxRate = Len(log) + 1
      <4>1. i + MaxRate \in Int /\ Len(log) \in Int
        BY <1>1
      <4>2. \A a, b \in Int : a <= b + 1 /\ ~(a <= b) => a = b + 1
        OBVIOUS
      <4> QED BY <2>2, <4>1, <4>2
    <3>1. i \in 1 .. Gone /\ i \in 1 .. Len(log)
      BY <1>1, <3>0 DEF Gone
    <3>2. log[i] + Window <= clock /\ log[i] \in Nat
      BY <1>1, <3>1 DEF WindowInv
    <3>3. log'[i + MaxRate] = clock /\ log'[i] = log[i]
      BY <1>3, <3>0, <3>1
    <3>4. clock - log[i] >= Window
      <4>1. clock \in Int /\ log[i] \in Int /\ Window \in Int
        BY <1>1, <3>2, LimitsAssumption
      <4>2. \A a, b, w \in Int : a + w <= b => b - a >= w
        OBVIOUS
      <4> QED BY <3>2, <4>1, <4>2
    <3> QED BY <3>3, <3>4
  <2> QED BY <2>1, <2>2
<1>8. WindowType'
  BY <1>0, <1>1, <1>2, <1>3 DEF WindowType
<1>9. Len(recent') <= MaxRate
  BY <1>1, <1>2
<1> QED BY <1>0, <1>4, <1>5, <1>6, <1>7, <1>8, <1>9 DEF WindowInv

LEMMA WindowNewProcess == ASSUME WindowInv, Rate!NewProcess PROVE WindowInv'
<1>1. EmptyWindow'
  BY WindowActions DEF WindowInv, WindowType, EmptyWindow
<1>2. (EmptyWindow => WindowInv)'
  BY EmptyInv, PTL
<1> QED BY <1>1, <1>2

LEMMA WindowOther ==
  ASSUME WindowInv, Rate!Decline \/ UNCHANGED Rate!vars PROVE WindowInv'
<1>1. UNCHANGED <<clock, recent, log>> /\ (RateAdmitted' => RateAdmitted)
  BY WindowActions
<1> QED BY <1>1 DEF WindowInv, WindowType, Gone, Rate!RateBound

\* The strengthened invariant of the rate window.
THEOREM WindowInvariance == Rate!Spec => []WindowInv
<1>1. WindowInv /\ [Rate!Next]_Rate!vars => WindowInv'
  BY WindowTick, WindowCheck, WindowNote, WindowNewProcess,
     WindowOther DEF Rate!Next
<1> QED BY <1>1, WindowInit, PTL DEF Rate!Spec

\* At most MaxRate submissions in any window of the process's life
\* (risk_guard.py:41-70).
THEOREM WindowBounded == Rate!Spec => []Rate!RateBound
<1>1. WindowInv => Rate!RateBound
  BY DEF WindowInv
<1> QED BY <1>1, WindowInvariance, PTL

\* Across all plugins no second sees more submissions than the limit, with the
\* clock running between the check and the note, and refusals, exceptions and
\* crashes anywhere (risk_guard.py:45-70, order_router.py:31-37).
THEOREM RateIsBounded == Spec => []RateBound
<1>1. Rate!RateBound => RateBound
  BY DEF RateBound, Rate!RateBound
<1> QED BY <1>1, WindowBounded, PathDrivesRateWindow, PTL DEF ImplementsRateWindow

-----------------------------------------------------------------------------
(* What becomes of an order.  The invariant above is about the limits;     *)
(* this one follows each order from hand to hand.  An order is only ever   *)
(* in the thread of its own plugin, so a step of that thread or of the     *)
(* feed concerns the one order, and leaves the others Undisturbed.         *)

\* The thread of the plugin that owns the order, and what it does with it.
Hand(c) == thread[Intent[c].plugin]
HeldAt(c, pcs) == Hand(c).pc \in pcs /\ Hand(c).cloid = c
Holds(c) == HeldAt(c, Critical \cup {"apply"})
Answered(c, states) == HeldAt(c, {"apply"}) /\ Hand(c).state \in states

\* Each thread carries an order of its own plugin, and one that was issued.
Owned ==
  \A p \in Plugins : thread[p].pc # "idle" =>
    Intent[thread[p].cloid].plugin = p /\ thread[p].cloid \in issued

\* Up to the reservation neither store nor manager has heard of the order.
Unsent(c) ==
  c \notin issued \/ HeldAt(c, Checking) => ledger[c] = Absent /\ venue[c] = Absent

\* During the placement the store has it as pending, the manager not yet.
Placing(c) ==
  HeldAt(c, {"place", "rest"}) =>
    venue[c] = Absent /\ (ledger[c] = "pending" \/ c \in NaNOrders)

\* A result in the thread's hands is what the manager did, except that the
\* feed may have filled the order since it came to rest.
Result(c) ==
  HeldAt(c, {"apply"}) =>
    /\ Hand(c).state \in {"resting", "filled", "cancelled", "rejected"}
    /\ venue[c] = Hand(c).state \/ (Hand(c).state = "resting" /\ venue[c] = "filled")

\* The manager only knows orders the store has recorded.
Recorded(c) ==
  /\ c \in NaNOrders => ledger[c] = Absent
  /\ venue[c] # Absent => ledger[c] # Absent \/ c \in NaNOrders

Counted(c) ==
  c \in resting => venue[c] = "resting" /\ (ledger[c] \in OpenStates \/ c \in NaNOrders)

\* What the feed has in hand is filled, and recorded before it is told.
Delivered(c) ==
  /\ c \in feed.out => venue[c] = "filled" /\ feed.pc \in {"emit", "notify"}
  /\ feed.pc = "notify" /\ feed.cur = c =>
       c \in feed.out /\ ledger[c] \in {"filled", Absent}

Truthful(c) == ledger[c] \in TerminalStates => ledger[c] = venue[c]

\* An open order is on its way: a thread that will not forget it has it.
Followed(c) ==
  ledger[c] \in OpenStates =>
    \/ c \in resting \/ c \in feed.out \/ c \in lost
    \/ HeldAt(c, {"place", "rest"}) \/ Answered(c, TerminalStates)

Durable(c) ==
  c \notin NaNOrders => \A s \in told[c] \cap {"filled", "cancelled"} : ledger[c] = s

Heard(c) ==
  ledger[c] \in TerminalStates =>
    \/ ledger[c] \in told[c] \/ c \in feed.out \/ c \in lost
    \/ Answered(c, {ledger[c]})

Tracked(c) ==
  /\ Unsent(c) /\ Placing(c) /\ Result(c) /\ Recorded(c) /\ Counted(c)
  /\ Delivered(c) /\ Truthful(c) /\ Followed(c) /\ Durable(c) /\ Heard(c)

FateInv == Owned /\ \A c \in Cloids : Tracked(c)

\* A step that leaves the order where it is: what was true of it stays true.
SameOrder(c) ==
  /\ ledger'[c] = ledger[c] /\ venue'[c] = venue[c] /\ told'[c] = told[c]
  /\ c \in resting' <=> c \in resting
  /\ c \in feed'.out <=> c \in feed.out
  /\ c \in feed.out => feed'.pc \in {"emit", "notify"}
  /\ feed'.pc = "notify" /\ feed'.cur = c => feed.pc = "notify" /\ feed.cur = c
  /\ c \in issued => c \in issued'
  /\ c \in lost => c \in lost'
  /\ Holds(c) \/ Holds(c)' => Hand(c)' = Hand(c)

LEMMA Undisturbed ==
  ASSUME NEW c \in Cloids, Tracked(c), SameOrder(c) PROVE Tracked(c)'
<1>1. \A pcs \in SUBSET (Critical \cup {"apply"}) : HeldAt(c, pcs)' <=> HeldAt(c, pcs)
  BY DEF SameOrder, Holds, HeldAt, Hand
<1>2. /\ HeldAt(c, Checking)' <=> HeldAt(c, Checking)
      /\ HeldAt(c, {"place", "rest"})' <=> HeldAt(c, {"place", "rest"})
      /\ HeldAt(c, {"apply"})' <=> HeldAt(c, {"apply"})
  BY <1>1 DEF Critical
<1>3. HeldAt(c, {"apply"}) => Hand(c)' = Hand(c)
  BY DEF SameOrder, Holds, HeldAt
<1>4. \A states : Answered(c, states)' <=> Answered(c, states)
  BY <1>2, <1>3 DEF Answered
<1>5. Unsent(c)' /\ Placing(c)' /\ Recorded(c)' /\ Counted(c)' /\ Truthful(c)' /\ Durable(c)'
  BY <1>2 DEF SameOrder, Tracked, Unsent, Placing, Recorded, Counted, Truthful, Durable
<1>6. Result(c)'
  BY <1>2, <1>3 DEF SameOrder, Tracked, Result
<1>7. Delivered(c)'
  BY DEF SameOrder, Tracked, Delivered
<1>8. Followed(c)' /\ Heard(c)'
  BY <1>2, <1>4 DEF SameOrder, Tracked, Followed, Heard
<1> QED BY <1>5, <1>6, <1>7, <1>8 DEF Tracked

\* A step of plugin p's thread about its order c.
LEMMA OwnStep ==
  ASSUME IInv, FateInv, NEW p \in Plugins, NEW c \in Cloids, Intent[c].plugin = p,
         NEW new \in ThreadStates, thread' = [thread EXCEPT ![p] = new],
         thread[p].pc # "idle" => thread[p].cloid = c,
         new.pc # "idle" => new.cloid = c /\ c \in issued',
         \A d \in Cloids \ {c} :
           /\ ledger'[d] = ledger[d] /\ venue'[d] = venue[d] /\ told'[d] = told[d]
           /\ d \in resting' <=> d \in resting,
         UNCHANGED feed, issued \subseteq issued', lost \subseteq lost',
         Tracked(c)'
  PROVE  FateInv'
<1>1. thread \in [Plugins -> ThreadStates]
  BY DEF IInv, TypeOK
<1>2. thread'[p] = new /\ \A q \in Plugins \ {p} : thread'[q] = thread[q]
  BY <1>1
<1>3. Owned'
  BY <1>2 DEF FateInv, Owned
<1>4. ASSUME NEW d \in Cloids, d # c PROVE Tracked(d)'
  <2>1. Holds(d) \/ Holds(d)' => Hand(d)' = Hand(d)
    <3>1. CASE Intent[d].plugin = p
      <4>1. Hand(d) = thread[p] /\ Hand(d)' = new
        BY <1>2, <3>1 DEF Hand
      <4>2. ~Holds(d) /\ ~Holds(d)'
        BY <1>4, <4>1 DEF Holds, HeldAt, Critical, Checking
      <4> QED BY <4>2
    <3>2. CASE Intent[d].plugin # p
      BY <1>2, <3>2, IntentAssumption DEF Hand, OrderIntent
    <3> QED BY <3>1, <3>2
  <2>2. d \in feed.out => feed.pc \in {"emit", "notify"}
    BY DEF FateInv, Tracked, Delivered
  <2>3. SameOrder(d)
    BY <1>4, <2>1, <2>2 DEF SameOrder
  <2> QED BY <2>3, Undisturbed DEF FateInv
<1> QED BY <1>3, <1>4 DEF FateInv

\* A step that leaves the threads alone keeps who owns what.
LEMMA SameOwners ==
  ASSUME Owned, UNCHANGED thread, issued \subseteq issued' PROVE Owned'
BY DEF Owned

\* What a thread has in hand is an order of its plugin.
LEMMA InHandIsOwn ==
  ASSUME IInv, FateInv, NEW p \in Plugins, thread[p].pc # "idle"
  PROVE  /\ thread[p].cloid \in Cloids /\ thread[p].cloid \in issued
         /\ Intent[thread[p].cloid].plugin = p /\ Hand(thread[p].cloid) = thread[p]
         /\ Tracked(thread[p].cloid)
BY DEF IInv, ThreadInv, FateInv, Owned, Hand

\* Up to the reservation: the checks, their refusals, and an exception from
\* the reservation itself.
LEMMA BeforeReserve ==
  ASSUME IInv, FateInv, NEW p \in Plugins, NEW c \in Cloids, Intent[c].plugin = p,
         \/ thread[p].pc = "idle" /\ c \notin issued
         \/ thread[p].pc \in Checking /\ thread[p].cloid = c,
         NEW new \in {ThreadIdle, At("open", c), At("notional", c), At("reserve", c)},
         thread' = [thread EXCEPT ![p] = new], issued' = issued \cup {c},
         Tell(c, "rejected") \/ UNCHANGED told,
         UNCHANGED <<ledger, venue, resting, feed, lost>>
  PROVE  FateInv'
<1>1. /\ new \in ThreadStates
      /\ new.pc # "idle" => new.pc \in Checking /\ new.cloid = c
  BY ThreadTypes DEF Critical, Checking
<1>2. told \in [Cloids -> SUBSET OrderState] /\ thread \in [Plugins -> ThreadStates]
  BY DEF IInv, TypeOK
<1>3. /\ told'[c] \cap {"filled", "cancelled"} = told[c] \cap {"filled", "cancelled"}
      /\ \A d \in Cloids \ {c} : told'[d] = told[d]
  BY <1>2 DEF Tell
<1>4. Hand(c)' = new /\ new.pc \notin {"place", "rest", "apply"}
  BY <1>1, <1>2 DEF Hand, Checking
<1>5. ledger[c] = Absent /\ venue[c] = Absent /\ Tracked(c)
  BY DEF FateInv, Tracked, Unsent, Hand, HeldAt
<1>6. ledger'[c] = Absent /\ venue'[c] = Absent /\ c \notin resting' /\ c \notin feed'.out
  BY <1>5 DEF Tracked, Counted, Delivered, Absent
<1>7. Tracked(c)'
  <2>1. Unsent(c)' /\ Placing(c)' /\ Result(c)' /\ Recorded(c)' /\ Counted(c)'
    BY <1>4, <1>6 DEF Unsent, Placing, Result, Recorded, Counted, HeldAt
  <2>2. Delivered(c)'
    BY <1>5 DEF Tracked, Delivered
  <2>3. Truthful(c)' /\ Followed(c)' /\ Heard(c)'
    BY <1>6 DEF Truthful, Followed, Heard, OpenStates, TerminalStates, Absent
  <2>4. Durable(c)'
    BY <1>3, <1>5 DEF Tracked, Durable
  <2> QED BY <2>1, <2>2, <2>3, <2>4 DEF Tracked
<1>8. thread[p].pc # "idle" => thread[p].cloid = c
  BY DEF Checking
<1> QED BY <1>1, <1>3, <1>7, <1>8, OwnStep

LEMMA SubmitFate ==
  ASSUME IInv, FateInv, NEW p \in Plugins, NEW c \in Cloids, Submit(p, c) PROVE FateInv'
<1>1. /\ thread[p].pc = "idle" /\ Intent[c].plugin = p /\ c \notin issued
      /\ issued' = issued \cup {c} /\ UNCHANGED <<ledger, venue, resting, feed, lost>>
  BY ThreadTypes DEF Submit, storeVars
<1>2. PICK new \in {ThreadIdle, At("open", c)} :
        /\ thread' = [thread EXCEPT ![p] = new]
        /\ Tell(c, "rejected") \/ UNCHANGED told
  BY DEF Submit, Refuse
<1> QED BY <1>1, <1>2, BeforeReserve

LEMMA ChecksFate ==
  ASSUME IInv, FateInv, NEW p \in Plugins,
         CheckOpen(p) \/ CheckNotional(p) \/ ReserveRaises(p)
  PROVE  FateInv'
<1> DEFINE c == thread[p].cloid
<1>1. /\ thread[p].pc \in Checking /\ UNCHANGED <<ledger, venue, resting, feed, issued, lost>>
  BY DEF CheckOpen, CheckNotional, ReserveRaises, Checking, storeVars, historyVars
<1>2. c \in Cloids /\ c \in issued /\ Intent[c].plugin = p
  BY <1>1, InHandIsOwn DEF Checking
<1>3. PICK new \in {ThreadIdle, At("notional", c), At("reserve", c)} :
        /\ thread' = [thread EXCEPT ![p] = new]
        /\ Tell(c, "rejected") \/ UNCHANGED told
  BY DEF CheckOpen, CheckNotional, ReserveRaises, Refuse, historyVars
<1>4. issued' = issued \cup {c}
  BY <1>1, <1>2
<1>5. thread[p].pc \in Checking /\ thread[p].cloid = c
  BY <1>1
<1> HIDE DEF c
<1> QED BY <1>1, <1>2, <1>3, <1>4, <1>5, BeforeReserve

LEMMA ReserveFate ==
  ASSUME IInv, FateInv, NEW p \in Plugins, NEW c \in Cloids, thread[p].cloid = c, Reserve(p)
  PROVE  FateInv'
<1> DEFINE new == At("place", c)
<1>1. /\ thread[p].pc = "reserve" /\ thread' = [thread EXCEPT ![p] = new]
      /\ Ledger!Record(c) \/ (c \in NaNOrders /\ UNCHANGED ledger)
      /\ UNCHANGED <<resting, feed, historyVars, venue>>
  BY DEF Reserve
<1>2. /\ c \in issued /\ Intent[c].plugin = p
      /\ Hand(c) = thread[p] /\ Tracked(c)
  BY <1>1, InHandIsOwn
<1>3. new \in ThreadStates /\ new.pc = "place" /\ new.cloid = c
  BY ThreadTypes DEF Critical, Checking
<1> HIDE DEF new
<1>4. thread \in [Plugins -> ThreadStates] /\ ledger \in [Cloids -> OrderState \cup {Absent}]
  BY DEF IInv, TypeOK
<1>5. Hand(c)' = new
  BY <1>1, <1>2, <1>4 DEF Hand
<1>6. ledger[c] = Absent /\ venue[c] = Absent
  BY <1>1, <1>2 DEF Tracked, Unsent, HeldAt, Checking
<1>7. /\ \/ ledger'[c] = "pending" /\ c \notin NaNOrders
         \/ ledger'[c] = Absent /\ c \in NaNOrders
      /\ \A d \in Cloids \ {c} : ledger'[d] = ledger[d]
  BY <1>1, <1>4, <1>6 DEF Ledger!Record
<1>8. Tracked(c)'
  <2>1. c \in issued' /\ c \notin resting' /\ c \notin feed'.out /\ venue'[c] = Absent
    BY <1>1, <1>2, <1>6 DEF Tracked, Counted, Delivered, Absent, historyVars
  <2>2. Unsent(c)' /\ Placing(c)' /\ Result(c)' /\ Recorded(c)' /\ Counted(c)'
    BY <1>3, <1>5, <1>7, <2>1 DEF Unsent, Placing, Result, Recorded, Counted, HeldAt, Checking
  <2>3. Delivered(c)'
    BY <1>1, <1>2, <2>1 DEF Tracked, Delivered
  <2>4. Truthful(c)' /\ Heard(c)'
    BY <1>7 DEF Truthful, Heard, TerminalStates, Absent
  <2>5. Followed(c)'
    BY <1>3, <1>5 DEF Followed, HeldAt
  <2>6. Durable(c)'
    BY <1>1, <1>2, <1>6 DEF Tracked, Durable, historyVars, Absent
  <2> QED BY <2>2, <2>3, <2>4, <2>5, <2>6 DEF Tracked
<1> QED BY <1>1, <1>2, <1>3, <1>7, <1>8, OwnStep DEF historyVars

\* Between the reservation and the manager's answer.
LEMMA PlacingParts ==
  ASSUME IInv, FateInv, NEW p \in Plugins, NEW c \in Cloids, thread[p].cloid = c,
         thread[p].pc \in {"place", "rest"}
  PROVE  /\ c \in issued /\ Intent[c].plugin = p /\ Tracked(c)
         /\ venue[c] = Absent /\ c \notin resting /\ c \notin feed.out
         /\ \/ ledger[c] = "pending" /\ c \notin NaNOrders
            \/ ledger[c] = Absent /\ c \in NaNOrders
<1>1. c \in issued /\ Intent[c].plugin = p /\ Hand(c) = thread[p] /\ Tracked(c)
  BY InHandIsOwn
<1>2. venue[c] = Absent /\ (ledger[c] = "pending" \/ c \in NaNOrders)
  BY <1>1 DEF Tracked, Placing, HeldAt
<1>3. c \in NaNOrders => ledger[c] = Absent
  BY <1>1 DEF Tracked, Recorded
<1>4. c \notin resting /\ c \notin feed.out
  BY <1>1, <1>2 DEF Tracked, Counted, Delivered, Absent
<1> QED BY <1>1, <1>2, <1>3, <1>4

LEMMA AnswerFate ==
  ASSUME IInv, FateInv, NEW p \in Plugins, NEW c \in Cloids, thread[p].cloid = c,
         thread[p].pc \in {"place", "rest"},
         NEW s \in {"rejected", "filled", "resting"}, Answer(p, c, s),
         resting' = IF s = "resting" THEN resting \cup {c} ELSE resting,
         UNCHANGED <<ledger, feed, historyVars>>
  PROVE  FateInv'
<1> DEFINE new == WithResult(c, s)
<1>1. /\ venue' = [venue EXCEPT ![c] = s] /\ thread' = [thread EXCEPT ![p] = new]
      /\ UNCHANGED <<issued, told, lost>>
  BY DEF Answer, historyVars
<1>2. /\ new \in ThreadStates /\ new.pc = "apply" /\ new.cloid = c /\ new.state = s
  BY ThreadTypes DEF OrderState, OpenStates, TerminalStates
<1> HIDE DEF new
<1>3. /\ thread \in [Plugins -> ThreadStates]
      /\ venue \in [Cloids -> OrderState \cup {Absent}]
  BY DEF IInv, TypeOK
<1>4. /\ venue'[c] = s /\ \A d \in Cloids \ {c} : venue'[d] = venue[d]
  BY <1>1, <1>3
<1>5. Hand(c)' = new
  BY <1>1, <1>3, PlacingParts DEF Hand
<1>6. Tracked(c)'
  <2>1. c \in issued' /\ c \notin feed'.out /\ ledger'[c] \notin TerminalStates
    BY <1>1, PlacingParts DEF TerminalStates, Absent
  <2>2. Unsent(c)' /\ Placing(c)' /\ Result(c)'
    BY <1>2, <1>4, <1>5, <2>1 DEF Unsent, Placing, Result, HeldAt, Checking
  <2>3. Recorded(c)' /\ Counted(c)'
    BY <1>4, PlacingParts DEF Recorded, Counted, OpenStates, Absent
  <2>4. Delivered(c)'
    BY PlacingParts DEF Tracked, Delivered
  <2>5. Followed(c)'
    BY <1>2, <1>5 DEF Followed, Answered, HeldAt, TerminalStates
  <2>6. Truthful(c)' /\ Heard(c)'
    BY <2>1 DEF Truthful, Heard
  <2>7. Durable(c)'
    <3>1. Tracked(c)
      BY PlacingParts
    <3>2. ledger' = ledger /\ told' = told
      BY <1>1
    <3> QED BY <3>1, <3>2 DEF Tracked, Durable
  <2> QED BY <2>2, <2>3, <2>4, <2>5, <2>6, <2>7 DEF Tracked
<1>7. \A d \in Cloids \ {c} : d \in resting' <=> d \in resting
  OBVIOUS
<1> QED BY <1>1, <1>2, <1>4, <1>6, <1>7, PlacingParts, OwnStep

LEMMA PlaceFate ==
  ASSUME IInv, FateInv, NEW p \in Plugins, NEW c \in Cloids, thread[p].cloid = c, Place(p)
  PROVE  FateInv'
<1>1. thread[p].pc = "place" /\ UNCHANGED <<ledger, resting, feed, issued, told, lost>>
  BY DEF Place, storeVars, historyVars
<1>2. ASSUME NEW s \in {"rejected", "filled"}, Answer(p, c, s) PROVE FateInv'
  BY <1>1, <1>2, AnswerFate DEF historyVars
<1>3. CASE UNCHANGED venue /\ thread' = [thread EXCEPT ![p] = At("rest", c)]
  <2> DEFINE new == At("rest", c)
  <2>1. new \in ThreadStates /\ new.pc = "rest" /\ new.cloid = c
    BY ThreadTypes DEF Critical, Checking
  <2> HIDE DEF new
  <2>2. thread \in [Plugins -> ThreadStates] /\ thread' = [thread EXCEPT ![p] = new]
    BY <1>3 DEF IInv, TypeOK, new
  <2>3. Hand(c)' = new
    BY <1>1, <2>2, PlacingParts DEF Hand
  <2>4. Tracked(c)'
    <3>1. c \in issued' /\ c \notin resting' /\ venue'[c] = Absent
      BY <1>1, <1>3, PlacingParts
    <3>2. Unsent(c)' /\ Placing(c)' /\ Result(c)' /\ Recorded(c)' /\ Counted(c)' /\ Followed(c)'
      BY <1>1, <2>1, <2>3, <3>1, PlacingParts
         DEF Unsent, Placing, Result, Recorded, Counted, Followed, HeldAt, Checking, Absent
    <3>3. Tracked(c) /\ ledger'[c] = ledger[c] /\ told'[c] = told[c] /\ feed' = feed
      BY <1>1, PlacingParts
    <3>5. Delivered(c)' /\ Durable(c)'
      BY <1>1, <1>3, <3>3 DEF Tracked, Delivered, Durable
    <3>4. Truthful(c)' /\ Heard(c)'
      BY <1>1, PlacingParts DEF Truthful, Heard, TerminalStates, Absent
    <3> QED BY <3>2, <3>4, <3>5 DEF Tracked
  <2>5. Intent[c].plugin = p /\ c \in issued
    BY <1>1, PlacingParts
  <2> QED BY <1>1, <1>3, <2>1, <2>2, <2>4, <2>5, OwnStep
<1> QED BY <1>2, <1>3 DEF Place

LEMMA RestFate ==
  ASSUME IInv, FateInv, NEW p \in Plugins, NEW c \in Cloids, thread[p].cloid = c, Rest(p)
  PROVE  FateInv'
<1>1. /\ thread[p].pc = "rest" /\ resting' = resting \cup {c} /\ Answer(p, c, "resting")
      /\ UNCHANGED <<ledger, feed, historyVars>>
  BY DEF Rest, storeVars
<1> QED BY <1>1, AnswerFate

\* The thread lets go of the order: with the result applied and its owner
\* told, or by the exception the update raised.
LEMMA ReturnFate ==
  ASSUME IInv, FateInv, NEW p \in Plugins, NEW c \in Cloids, thread[p].cloid = c,
         Apply(p) \/ ApplyRaises(p)
  PROVE  FateInv'
<1>1. /\ thread[p].pc = "apply" /\ thread' = [thread EXCEPT ![p] = ThreadIdle]
      /\ UNCHANGED <<venue, resting, feed, issued>>
  BY DEF Apply, ApplyRaises
<1>2. c \in issued /\ Intent[c].plugin = p /\ Hand(c) = thread[p] /\ Tracked(c)
  BY <1>1, InHandIsOwn
<1>3. /\ thread \in [Plugins -> ThreadStates] /\ told \in [Cloids -> SUBSET OrderState]
      /\ ledger \in [Cloids -> OrderState \cup {Absent}]
  BY DEF IInv, TypeOK
<1>4. Hand(c)' = ThreadIdle /\ ThreadIdle.pc = "idle"
  BY <1>1, <1>2, <1>3, ThreadTypes DEF Hand
<1>5. PICK s \in {"resting", "filled", "cancelled", "rejected"} :
        /\ Hand(c).state = s
        /\ venue[c] = s \/ (s = "resting" /\ venue[c] = "filled")
  BY <1>1, <1>2 DEF Tracked, Result, HeldAt
<1>6. \/ /\ ledger' = Applied(c, s) /\ told' = [told EXCEPT ![c] = @ \cup {s}]
         /\ UNCHANGED lost
      \/ /\ UNCHANGED <<ledger, told>> /\ lost' = lost \cup {c}
  BY <1>2, <1>5 DEF Apply, ApplyRaises, Tell, storeVars
<1>7. /\ ledger'[c] = ledger[c] \/ (ledger[c] \in OpenStates /\ ledger'[c] = s)
      /\ \/ /\ s # "resting" => ledger'[c] \notin OpenStates
            /\ told'[c] = told[c] \cup {s}
         \/ ledger'[c] = ledger[c] /\ told'[c] = told[c] /\ c \in lost'
      /\ \A d \in Cloids \ {c} : ledger'[d] = ledger[d] /\ told'[d] = told[d]
  <2>1. CASE ledger' = Applied(c, s) /\ told' = [told EXCEPT ![c] = @ \cup {s}]
    <3>1. /\ ledger'[c] = ledger[c] \/ (ledger[c] \in OpenStates /\ ledger'[c] = s)
          /\ s # "resting" => ledger'[c] \notin OpenStates
          /\ \A d \in Cloids \ {c} : ledger'[d] = ledger[d]
      BY <1>3, <2>1, LedgerWords
         DEF Applied, Ledger!Advances, Rank, OrderState, OpenStates, TerminalStates
    <3> QED BY <1>3, <2>1, <3>1
  <2>2. CASE UNCHANGED <<ledger, told>> /\ lost' = lost \cup {c}
    BY <2>2
  <2> QED BY <1>6, <2>1, <2>2
<1>8. lost \subseteq lost' /\ issued \subseteq issued'
  BY <1>1, <1>6
<1>9. Tracked(c)'
  <2>1. Unsent(c)' /\ Placing(c)' /\ Result(c)'
    BY <1>1, <1>2, <1>4 DEF Unsent, Placing, Result, HeldAt, Checking
  <2>2. Recorded(c)'
    BY <1>1, <1>2, <1>7 DEF Tracked, Recorded, OpenStates, Absent
  <2>3. Counted(c)'
    BY <1>1, <1>2, <1>5, <1>7 DEF Tracked, Counted, OpenStates
  <2>4. Delivered(c)'
    BY <1>1, <1>2, <1>7 DEF Tracked, Delivered, OpenStates, Absent
  <2>5. Truthful(c)'
    BY <1>1, <1>2, <1>5, <1>7 DEF Tracked, Truthful, TerminalStates
  <2>6. Followed(c)'
    BY <1>1, <1>2, <1>5, <1>7, <1>8
       DEF Tracked, Followed, Answered, HeldAt, TerminalStates
  <2>7. Durable(c)'
    <3>1. c \notin NaNOrders => ledger[c] # Absent
      BY <1>2, <1>5 DEF Tracked, Recorded, Absent
    <3>3. ledger[c] # Absent /\ ledger[c] \notin OpenStates => ledger[c] \in TerminalStates
      BY <1>3 DEF OrderState
    <3>2. c \notin NaNOrders /\ ledger[c] \notin OpenStates => ledger[c] = venue[c]
      BY <1>2, <3>1, <3>3 DEF Tracked, Truthful
    <3>4. Durable(c)
      BY <1>2 DEF Tracked
    <3>5. CASE told'[c] = told[c] \cup {s} /\ (s # "resting" => ledger'[c] \notin OpenStates)
      <4>1. ledger[c] \in OpenStates => told[c] \cap {"filled", "cancelled"} = {} \/ c \in NaNOrders
        BY <3>4 DEF Durable, OpenStates
      <4>2. c \notin NaNOrders /\ s \in {"filled", "cancelled"} => ledger'[c] = s
        BY <1>5, <1>7, <3>2, <3>5
      <4> QED BY <1>7, <3>4, <3>5, <4>1, <4>2 DEF Durable
    <3>6. CASE ledger'[c] = ledger[c] /\ told'[c] = told[c]
      BY <3>4, <3>6 DEF Durable
    <3> QED BY <1>7, <3>5, <3>6
  <2>8. Heard(c)'
    BY <1>1, <1>2, <1>5, <1>7, <1>8 DEF Tracked, Heard, Answered
  <2> QED BY <2>1, <2>2, <2>3, <2>4, <2>5, <2>6, <2>7, <2>8 DEF Tracked
<1>10. \A d \in Cloids \ {c} :
         /\ ledger'[d] = ledger[d] /\ venue'[d] = venue[d] /\ told'[d] = told[d]
         /\ d \in resting' <=> d \in resting
  BY <1>1, <1>7
<1>11. ThreadIdle \in ThreadStates /\ Intent[c].plugin = p
  BY <1>2, ThreadTypes
<1> QED BY <1>1, <1>4, <1>8, <1>9, <1>10, <1>11, OwnStep

\* The manager drops a working order, and the thread has a result again.
LEMMA CancelFate ==
  ASSUME IInv, FateInv, NEW p \in Plugins, NEW c \in Cloids, Cancel(p, c) PROVE FateInv'
<1> DEFINE new == WithResult(c, "cancelled")
<1>1. /\ thread[p].pc = "idle" /\ Intent[c].plugin = p /\ c \in resting
      /\ resting' = resting \ {c} /\ venue' = [venue EXCEPT ![c] = "cancelled"]
      /\ thread' = [thread EXCEPT ![p] = new]
      /\ UNCHANGED <<ledger, feed, issued, told, lost>>
  BY ThreadTypes DEF Cancel, storeVars, historyVars
<1>2. /\ new \in ThreadStates /\ new.pc = "apply" /\ new.cloid = c /\ new.state = "cancelled"
  BY ThreadTypes DEF OrderState, OpenStates, TerminalStates
<1> HIDE DEF new
<1>3. /\ thread \in [Plugins -> ThreadStates]
      /\ venue \in [Cloids -> OrderState \cup {Absent}]
  BY DEF IInv, TypeOK
<1>4. venue'[c] = "cancelled" /\ \A d \in Cloids \ {c} : venue'[d] = venue[d]
  BY <1>1, <1>3
<1>5. Hand(c)' = new
  BY <1>1, <1>3 DEF Hand
<1>6. /\ Tracked(c) /\ venue[c] = "resting" /\ c \notin feed.out
      /\ ledger[c] \in OpenStates \/ c \in NaNOrders
  BY <1>1 DEF FateInv, Tracked, Counted, Delivered
<1>7. c \in issued /\ ledger[c] \notin TerminalStates
  BY <1>6 DEF Tracked, Unsent, Recorded, OpenStates, TerminalStates, Absent
<1>8. Tracked(c)'
  <2>1. Unsent(c)' /\ Placing(c)' /\ Result(c)' /\ Counted(c)'
    BY <1>1, <1>2, <1>4, <1>5, <1>7 DEF Unsent, Placing, Result, Counted, HeldAt, Checking
  <2>2. Recorded(c)' /\ Durable(c)'
    BY <1>1, <1>6 DEF Tracked, Recorded, Durable, Absent
  <2>3. Delivered(c)'
    BY <1>1, <1>6 DEF Tracked, Delivered
  <2>4. Followed(c)'
    BY <1>2, <1>5 DEF Followed, Answered, HeldAt, TerminalStates
  <2>5. Truthful(c)' /\ Heard(c)'
    BY <1>1, <1>7 DEF Truthful, Heard
  <2> QED BY <2>1, <2>2, <2>3, <2>4, <2>5 DEF Tracked
<1> QED BY <1>1, <1>2, <1>4, <1>7, <1>8, OwnStep

-----------------------------------------------------------------------------
(* The feed takes the orders a mid fills out of the manager, and hands     *)
(* each on to the store and then to its owner.                             *)

LEMMA EmittingParts ==
  \A out : /\ Emitting(out).out = out
           /\ Emitting(out).pc = IF out = {} THEN "idle" ELSE "emit"
BY DEF Emitting, FeedIdle

LEMMA NewMidFate ==
  ASSUME IInv, FateInv, NEW coin \in Coins, NEW m \in Mids, NewMid(coin, m) PROVE FateInv'
<1>1. /\ feed = FeedIdle \/ feed = TickOf(coin)
      /\ feed' = [FeedIdle EXCEPT !.pc = "poll", !.coin = coin]
      /\ UNCHANGED <<ledger, resting, thread, issued, told, lost, venue>>
  BY DEF NewMid, storeVars, historyVars
<1>2. feed.out = {} /\ feed'.out = {} /\ feed'.pc = "poll"
  BY <1>1 DEF FeedIdle, TickOf
<1>3. \A c \in Cloids : SameOrder(c)
  BY <1>1, <1>2 DEF SameOrder, Hand
<1> QED BY <1>1, <1>3, Undisturbed, SameOwners DEF FateInv

LEMMA PollFate ==
  ASSUME IInv, FateInv, Poll PROVE FateInv'
<1>1. PICK filled \in SUBSET Cloids : filled = FilledBy(feed.coin, mid[feed.coin])
  BY DEF FilledBy, IInv, TypeOK
<1>2. /\ feed.pc = "poll" /\ resting' = resting \ filled /\ filled \subseteq resting
      /\ venue' = [c \in Cloids |-> IF c \in filled THEN "filled" ELSE venue[c]]
      /\ feed' = Emitting(filled)
      /\ UNCHANGED <<ledger, thread, issued, told, lost>>
  BY <1>1 DEF Poll, FilledBy, storeVars, historyVars
<1>3. feed'.out = filled /\ feed'.pc = IF filled = {} THEN "idle" ELSE "emit"
  BY <1>2, EmittingParts
<1>4. \A c \in Cloids : Tracked(c) /\ c \notin feed.out
  BY <1>2 DEF FateInv, Tracked, Delivered
<1>5. ASSUME NEW c \in Cloids, c \notin filled PROVE Tracked(c)'
  <2>1. SameOrder(c)
    BY <1>2, <1>3, <1>4, <1>5 DEF SameOrder, Hand
  <2> QED BY <1>4, <2>1, Undisturbed
<1>6. ASSUME NEW c \in filled PROVE Tracked(c)'
  <2>1. Tracked(c) /\ venue[c] = "resting" /\ (ledger[c] \in OpenStates \/ c \in NaNOrders)
    BY <1>2, <1>4 DEF Tracked, Counted
  <2>2. /\ venue'[c] = "filled" /\ c \notin resting' /\ c \in feed'.out
        /\ feed'.pc = "emit" /\ ledger'[c] = ledger[c] /\ ledger[c] \notin TerminalStates
    BY <1>2, <1>3, <2>1 DEF Tracked, Recorded, OpenStates, TerminalStates, Absent
  <2>3. Unsent(c)' /\ Placing(c)' /\ Result(c)'
    BY <1>2, <2>1, <2>2 DEF Tracked, Unsent, Placing, Result, HeldAt, Hand, Absent
  <2>4. Recorded(c)' /\ Counted(c)' /\ Delivered(c)' /\ Durable(c)'
    BY <1>2, <2>1, <2>2 DEF Tracked, Recorded, Counted, Delivered, Durable, Absent
  <2>5. Truthful(c)' /\ Followed(c)' /\ Heard(c)'
    BY <2>2 DEF Truthful, Followed, Heard
  <2> QED BY <2>3, <2>4, <2>5 DEF Tracked
<1>7. Owned'
  BY <1>2, SameOwners DEF FateInv
<1> QED BY <1>5, <1>6, <1>7 DEF FateInv

LEMMA EmitFate ==
  ASSUME IInv, FateInv, NEW c \in Cloids, Emit(c) PROVE FateInv'
<1>1. /\ feed.pc = "emit" /\ c \in feed.out /\ ledger' = Applied(c, "filled")
      /\ feed' = [feed EXCEPT !.pc = "notify", !.cur = c]
      /\ UNCHANGED <<resting, thread, issued, told, lost, venue>>
  BY DEF Emit, historyVars
<1>2. ledger \in [Cloids -> OrderState \cup {Absent}] /\ feed \in FeedStates
  BY DEF IInv, TypeOK
<1>3. feed'.pc = "notify" /\ feed'.cur = c /\ feed'.out = feed.out
  BY <1>1, <1>2 DEF FeedStates
<1>4. /\ ledger'[c] = ledger[c] \/ (ledger[c] \in OpenStates /\ ledger'[c] = "filled")
      /\ ledger'[c] \notin OpenStates
      /\ \A d \in Cloids \ {c} : ledger'[d] = ledger[d]
  BY <1>1, <1>2, LedgerWords
     DEF Applied, Ledger!Advances, Rank, OrderState, OpenStates, TerminalStates
<1>5. ASSUME NEW d \in Cloids, d # c PROVE Tracked(d)'
  <2>1. SameOrder(d)
    BY <1>1, <1>3, <1>4, <1>5 DEF SameOrder, Hand
  <2> QED BY <2>1, Undisturbed DEF FateInv
<1>6. Tracked(c)'
  <2>1. Tracked(c) /\ venue[c] = "filled" /\ c \notin resting
    BY <1>1 DEF FateInv, Tracked, Delivered, Counted
  <2>2. Unsent(c)' /\ Placing(c)' /\ Result(c)'
    BY <1>1, <2>1 DEF Tracked, Unsent, Placing, Result, HeldAt, Hand, Absent
  <2>3. Recorded(c)' /\ Counted(c)'
    BY <1>1, <1>4, <2>1 DEF Tracked, Recorded, Counted, OpenStates, Absent
  <2>4. ledger'[c] \in {"filled", Absent}
    BY <1>2, <1>4, <2>1 DEF Tracked, Truthful, OrderState
  <2>5. Delivered(c)'
    BY <1>1, <1>3, <2>1, <2>4 DEF Delivered
  <2>6. Truthful(c)' /\ Followed(c)' /\ Heard(c)'
    BY <1>1, <1>3, <1>4, <2>1, <2>4 DEF Truthful, Followed, Heard, TerminalStates, Absent
  <2>7. Durable(c)'
    BY <1>1, <1>4, <2>1 DEF Tracked, Durable, OpenStates
  <2> QED BY <2>2, <2>3, <2>5, <2>6, <2>7 DEF Tracked
<1>7. Owned'
  BY <1>1, SameOwners DEF FateInv
<1> QED BY <1>5, <1>6, <1>7 DEF FateInv

LEMMA NotifyFate ==
  ASSUME IInv, FateInv, NEW c \in Cloids, feed.cur = c, Notify PROVE FateInv'
<1>1. /\ feed.pc = "notify" /\ feed' = Emitting(feed.out \ {c})
      /\ \/ ledger[c] # Absent /\ told' = [told EXCEPT ![c] = @ \cup {"filled"}]
         \/ ledger[c] = Absent /\ told' = told
      /\ UNCHANGED <<ledger, resting, thread, issued, lost, venue>>
  BY DEF Notify, Tell, storeVars
<1>2. told \in [Cloids -> SUBSET OrderState]
  BY DEF IInv, TypeOK
<1>3. /\ feed'.out = feed.out \ {c}
      /\ feed'.pc = IF feed.out \ {c} = {} THEN "idle" ELSE "emit"
  BY <1>1, EmittingParts
<1>4. ASSUME NEW d \in Cloids, d # c PROVE Tracked(d)'
  <2>1. SameOrder(d)
    BY <1>1, <1>2, <1>3, <1>4 DEF SameOrder, Hand
  <2> QED BY <2>1, Undisturbed DEF FateInv
<1>5. Tracked(c)'
  <2>1. /\ Tracked(c) /\ venue[c] = "filled" /\ c \notin resting
        /\ ledger[c] \in {"filled", Absent}
    BY <1>1 DEF FateInv, Tracked, Delivered, Counted
  <2>2. Unsent(c)' /\ Placing(c)' /\ Result(c)' /\ Recorded(c)' /\ Counted(c)'
    BY <1>1, <2>1
       DEF Tracked, Unsent, Placing, Result, Recorded, Counted, HeldAt, Hand
  <2>3. Delivered(c)'
    BY <1>3 DEF Delivered
  <2>4. Truthful(c)' /\ Followed(c)'
    BY <1>1, <2>1 DEF Truthful, Followed, OpenStates, TerminalStates, Absent
  <2>5. Heard(c)'
    BY <1>1, <1>2, <2>1 DEF Heard, TerminalStates, Absent
  <2>6. Durable(c)'
    BY <1>1, <1>2, <2>1 DEF Tracked, Durable
  <2> QED BY <2>2, <2>3, <2>4, <2>5, <2>6 DEF Tracked
<1>6. Owned'
  BY <1>1, SameOwners DEF FateInv
<1> QED BY <1>4, <1>5, <1>6 DEF FateInv

\* The fills the exception takes from the feed are lost, and counted as lost.
LEMMA EmitRaisesFate ==
  ASSUME IInv, FateInv, EmitRaises PROVE FateInv'
<1>1. /\ feed' = FeedIdle /\ lost' = lost \cup feed.out
      /\ UNCHANGED <<ledger, resting, thread, issued, venue, told>>
  BY DEF EmitRaises, storeVars
<1>2. feed'.out = {} /\ feed'.pc = "idle"
  BY <1>1 DEF FeedIdle
<1>3. ASSUME NEW c \in Cloids PROVE Tracked(c)'
  <2>1. Tracked(c) /\ c \notin feed'.out
    BY <1>2 DEF FateInv
  <2>2. Unsent(c)' /\ Placing(c)' /\ Result(c)' /\ Recorded(c)' /\ Counted(c)'
    BY <1>1, <2>1
       DEF Tracked, Unsent, Placing, Result, Recorded, Counted, HeldAt, Hand
  <2>3. Delivered(c)' /\ Truthful(c)' /\ Durable(c)'
    BY <1>1, <1>2, <2>1 DEF Tracked, Delivered, Truthful, Durable
  <2>4. Followed(c)' /\ Heard(c)'
    BY <1>1, <2>1 DEF Tracked, Followed, Heard, Answered, HeldAt, Hand
  <2> QED BY <2>2, <2>3, <2>4 DEF Tracked
<1>4. Owned'
  BY <1>1, SameOwners DEF FateInv
<1> QED BY <1>3, <1>4 DEF FateInv

-----------------------------------------------------------------------------
(* The clock, the closing of the store and a restart concern no order; a   *)
(* crash takes every order from whoever has it, and the store keeps it.    *)

LEMMA OtherFate ==
  ASSUME IInv, FateInv, TickClock \/ Close \/ Restart \/ UNCHANGED vars PROVE FateInv'
<1>1. /\ UNCHANGED <<ledger, resting, thread, issued, venue, told, lost>>
      /\ feed' = feed \/ (feed = FeedIdle /\ \E coin \in Coins : feed' = TickOf(coin))
  BY DEF TickClock, Close, Restart, vars, storeVars, historyVars
<1>2. feed' = feed \/ (feed.out = {} /\ feed'.out = {} /\ feed'.pc = "tick")
  BY <1>1 DEF FeedIdle, TickOf
<1>3. ASSUME NEW c \in Cloids PROVE SameOrder(c)
  BY <1>1, <1>2 DEF SameOrder, Hand, FateInv, Tracked, Delivered
<1> QED BY <1>1, <1>3, Undisturbed, SameOwners DEF FateInv

LEMMA CrashFate ==
  ASSUME IInv, FateInv, Crash PROVE FateInv'
<1>1. /\ resting' = {} /\ feed' = FeedIdle /\ thread' = [p \in Plugins |-> ThreadIdle]
      /\ lost' = lost \cup Open \cup InFlight \cup feed.out
      /\ UNCHANGED <<ledger, issued, venue, told>>
  BY DEF Crash
<1>2. feed'.out = {} /\ feed'.pc = "idle"
  BY <1>1 DEF FeedIdle
<1>3. \A p \in Plugins : thread'[p].pc = "idle"
  BY <1>1, ThreadTypes
<1>4. ASSUME NEW c \in Cloids PROVE Tracked(c)'
  <2>1. Tracked(c) /\ c \notin resting' /\ c \notin feed'.out
    BY <1>1, <1>2 DEF FateInv
  <2>2. Intent[c].plugin \in Plugins
    BY IntentAssumption DEF OrderIntent
  <2>3. Hand(c)'.pc = "idle"
    BY <1>3, <2>2 DEF Hand
  <2>4. Unsent(c)' /\ Placing(c)' /\ Result(c)' /\ Recorded(c)' /\ Counted(c)'
    BY <1>1, <2>1, <2>3
       DEF Tracked, Unsent, Placing, Result, Recorded, Counted, HeldAt, Checking
  <2>5. Delivered(c)' /\ Truthful(c)' /\ Durable(c)'
    BY <1>1, <1>2, <2>1 DEF Tracked, Delivered, Truthful, Durable
  <2>6. Followed(c)'
    BY <1>1 DEF Followed, Open, OpenIn
  <2>7. Heard(c)'
    <3>1. Answered(c, {ledger[c]}) => c \in InFlight
      BY <2>2 DEF Answered, HeldAt, Hand, InFlight
    <3> QED BY <1>1, <2>1, <3>1 DEF Tracked, Heard
  <2> QED BY <2>4, <2>5, <2>6, <2>7 DEF Tracked
<1>5. Owned'
  BY <1>3 DEF Owned
<1> QED BY <1>4, <1>5 DEF FateInv

LEMMA InitFate == Init => FateInv
<1> SUFFICES ASSUME Init PROVE FateInv
  OBVIOUS
<1>1. /\ ledger = [c \in Cloids |-> Absent] /\ venue = [c \in Cloids |-> Absent]
      /\ told = [c \in Cloids |-> {}] /\ thread = [p \in Plugins |-> ThreadIdle]
      /\ resting = {} /\ feed = FeedIdle /\ issued = {}
  BY DEF Init
<1>2. feed.out = {} /\ feed.pc = "idle" /\ \A p \in Plugins : thread[p].pc = "idle"
  BY <1>1, ThreadTypes DEF FeedIdle
<1>3. ASSUME NEW c \in Cloids PROVE Tracked(c)
  <2>1. ledger[c] = Absent /\ venue[c] = Absent /\ told[c] = {}
    BY <1>1
  <2>2. Hand(c).pc = "idle"
    BY <1>2, IntentAssumption DEF Hand, OrderIntent
  <2>3. Unsent(c) /\ Placing(c) /\ Result(c) /\ Recorded(c) /\ Counted(c)
    BY <1>1, <2>1, <2>2 DEF Unsent, Placing, Result, Recorded, Counted, HeldAt
  <2>4. Delivered(c) /\ Truthful(c) /\ Durable(c) /\ Followed(c) /\ Heard(c)
    BY <1>2, <2>1
       DEF Delivered, Truthful, Durable, Followed, Heard, OpenStates, TerminalStates, Absent
  <2> QED BY <2>3, <2>4 DEF Tracked
<1>4. Owned
  BY <1>2 DEF Owned
<1> QED BY <1>3, <1>4 DEF FateInv

LEMMA NextFate == IInv /\ FateInv /\ [Next]_vars => FateInv'
<1> SUFFICES ASSUME IInv, FateInv, [Next]_vars PROVE FateInv'
  OBVIOUS
<1>1. ASSUME NEW p \in Plugins, ThreadStep(p) PROVE FateInv'
  <2>1. CASE CheckOpen(p) \/ CheckNotional(p)
    BY <2>1, ChecksFate
  <2>2. CASE Reserve(p) \/ Place(p) \/ Rest(p) \/ Apply(p)
    <3>1. thread[p].pc # "idle"
      BY <2>2 DEF Reserve, Place, Rest, Apply
    <3>2. PICK c \in Cloids : thread[p].cloid = c
      BY <3>1, InHandIsOwn
    <3> QED BY <2>2, <3>2, ReserveFate, PlaceFate, RestFate, ReturnFate
  <2> QED BY <1>1, <2>1, <2>2 DEF ThreadStep
<1>2. CASE FeedStep
  <2>1. CASE Notify
    <3>1. PICK c \in Cloids : feed.cur = c
      BY <2>1 DEF Notify, IInv, FeedInv
    <3> QED BY <2>1, <3>1, NotifyFate
  <2> QED BY <1>2, <2>1, PollFate, EmitFate DEF FeedStep
<1>3. CASE Input
  BY <1>3, SubmitFate, CancelFate, NewMidFate, OtherFate DEF Input
<1>4. CASE Fault
  <2>1. ASSUME NEW p \in Plugins, ApplyRaises(p) PROVE FateInv'
    <3>1. PICK c \in Cloids : thread[p].cloid = c
      BY <2>1, InHandIsOwn DEF ApplyRaises
    <3> QED BY <2>1, <3>1, ReturnFate
  <2> QED BY <1>4, <2>1, ChecksFate, EmitRaisesFate, OtherFate, CrashFate DEF Fault
<1>5. CASE UNCHANGED vars
  BY <1>5, OtherFate
<1> QED BY <1>1, <1>2, <1>3, <1>4, <1>5 DEF Next, Normal

\* Of each order, what the manager did with it, what the store says, what its owner
\* has heard and what is under way between them agree (order_router.py:37-51,
\* order_manager.py:75-104, core.py:191-198).
THEOREM FateInvariance == Spec => []FateInv
BY Invariance, InitFate, NextFate, PTL DEF Spec

\* What the store records as final is what the manager did with the order:
\* no order of results, fills and cancels records the wrong end
\* (order_store.py:19-21, order_router.py:43-49, order_manager.py:85-104).
THEOREM FinalStatesAreTrue == Spec => []LedgerTruthful
<1>1. FateInv => LedgerTruthful
  BY DEF FateInv, Tracked, Truthful, LedgerTruthful
<1> QED BY <1>1, FateInvariance, PTL

\* No open order is forgotten: someone has it, the manager works it, or an
\* exception or a crash took it (order_router.py:38-43, core.py:193).
THEOREM NoSlotLeaks == Spec => []Accounted
<1>1. FateInv => Accounted
  <2> SUFFICES ASSUME FateInv, NEW c \in Open
               PROVE  InHand(c) \/ c \in resting \/ c \in lost
    BY DEF Accounted
  <2>1. c \in Cloids /\ Followed(c) /\ ledger[c] \in OpenStates /\ Intent[c].plugin \in Plugins
    BY IntentAssumption DEF Open, OpenIn, FateInv, Tracked, OrderIntent
  <2>2. Hand(c).cloid = c => c \in InFlight
    BY <2>1 DEF Hand, InFlight
  <2> QED BY <2>1, <2>2 DEF Followed, HeldAt, Answered, InHand
<1> QED BY <1>1, FateInvariance, PTL

\* Every order that works at the manager is counted by the limits, except
\* one whose NaN size kept it out of the store (order_store.py:14-16,
\* order_router.py:37-43).
THEOREM WorkingIsCounted == Spec => [](resting \ NaNOrders \subseteq Open)
<1>1. IInv /\ FateInv => resting \ NaNOrders \subseteq Open
  BY DEF IInv, TypeOK, FateInv, Tracked, Counted, Open, OpenIn
<1> QED BY <1>1, Invariance, FateInvariance, PTL

\* With no NaN among the sizes every working order is counted: it is reserved in
\* the store before it is sent and stays open there until the manager is done with
\* it (order_store.py:14-16, order_router.py:37-43).
THEOREM ExposureIsCounted ==
  ASSUME NaNOrders = {} PROVE Spec => []ExposureCounted
<1>1. resting \ NaNOrders \subseteq Open => ExposureCounted
  BY DEF ExposureCounted
<1> QED BY <1>1, WorkingIsCounted, PTL

\* With no NaN among the sizes, what the owner hears of a fill or a cancel is
\* durable, and what is durable it has heard, will hear, or an exception or a
\* crash kept from it (core.py:191-198, order_router.py:43-50).
THEOREM OwnersAreInformed ==
  ASSUME NaNOrders = {} PROVE Spec => []OwnerInformed
<1>1. FateInv => OwnerInformed
  <2> SUFFICES ASSUME FateInv, NEW c \in Cloids
               PROVE  /\ \A s \in told[c] \cap {"filled", "cancelled"} : ledger[c] = s
                      /\ ledger[c] \in TerminalStates =>
                           ledger[c] \in told[c] \/ InHand(c) \/ c \in lost
    BY DEF OwnerInformed
  <2>1. Durable(c) /\ Heard(c) /\ Intent[c].plugin \in Plugins
    BY IntentAssumption DEF FateInv, Tracked, OrderIntent
  <2>2. Hand(c).cloid = c => c \in InFlight
    BY <2>1 DEF Hand, InFlight
  <2> QED BY <2>1, <2>2 DEF Durable, Heard, HeldAt, Answered, InHand
<1> QED BY <1>1, FateInvariance, PTL
=============================================================================
