-------------------------- MODULE OrderStoreProofs --------------------------
(***************************************************************************)
(* Proofs about OrderStore for every set of orders and every intent.       *)
(*                                                                         *)
(* WriteThrough is not inductive: it says nothing of the states in which   *)
(* the lock is held.  InFlight says what memory and disk look like between *)
(* the two halves of a write, and is what each second half restores        *)
(* WriteThrough from.                                                      *)
(***************************************************************************)
EXTENDS OrderStore, OrdersProofs

\* What memory holds of one order when no write to it is under way.
Agree(c) == mem[c] = IF db[c].state \in OpenStates THEN db[c] ELSE NoRow

Written(c) ==
  \/ op = Recording(c)
  \/ \E r \in Results(c) : op = Applying(c, r)

InFlight(c) ==
  /\ op = Recording(c) => mem[c] = NoRow /\ db[c] = PendingRow
  /\ \A r \in Results(c) : op = Applying(c, r) =>
       /\ mem[c].state \in OpenStates
       /\ Rank[r.state] > Rank[mem[c].state]
       /\ db[c] = Merge(mem[c], r)
  /\ ~Written(c) => Agree(c)

IInv ==
  /\ TypeOK
  /\ status = "down" => op = Idle
  /\ \A c \in Cloids : db[c].state = Absent => db[c] = NoRow
  /\ status # "down" => /\ gross = GrossOf[OpenRows(mem)]
                        /\ \A c \in Cloids : InFlight(c)

-----------------------------------------------------------------------------
(* Types, and when two operations are the same.                            *)

LEMMA RowTypes ==
  /\ NoRow \in Row /\ PendingRow \in Row
  /\ \A c \in Cloids : \A r \in Results(c) :
       /\ r.state \in OrderState \ {"pending"}
       /\ r.oid \in Oids \cup {NoOid}
       /\ r.filled \in Nat
       /\ \A row \in Row : Merge(row, r) \in Row
<1>1. NoRow \in Row /\ PendingRow \in Row
  BY DEF NoRow, PendingRow, Row, OrderState, OpenStates, Absent
<1>2. ASSUME NEW c \in Cloids, NEW r \in Results(c)
      PROVE  /\ r.state \in OrderState \ {"pending"}
             /\ r.oid \in Oids \cup {NoOid}
             /\ r.filled \in Nat
  BY <1>2, IntentAssumption
     DEF Results, OrderState, OpenStates, TerminalStates, OrderIntent
<1>3. ASSUME NEW c \in Cloids, NEW r \in Results(c), NEW row \in Row
      PROVE  Merge(row, r) \in Row
  BY <1>2 DEF Merge, Row
<1> QED BY <1>1, <1>2, <1>3

LEMMA OpsDiffer ==
  /\ \A c \in Cloids : ~(Idle = Recording(c))
  /\ \A c \in Cloids : \A r \in Results(c) : ~(Idle = Applying(c, r))
  /\ \A c, d \in Cloids : \A r \in Results(d) : ~(Recording(c) = Applying(d, r))
  /\ \A c, d \in Cloids : Recording(c) = Recording(d) => c = d
  /\ \A c, d \in Cloids : \A r \in Results(c), s \in Results(d) :
       Applying(c, r) = Applying(d, s) => c = d /\ r = s
<1>1. Idle.kind = "idle"
  BY DEF Idle
<1>2. \A c \in Cloids : Recording(c).kind = "record" /\ Recording(c).cloid = c
  BY DEF Recording
<1>3. \A c \in Cloids : \A r \in Results(c) :
        /\ Applying(c, r).kind = "apply"
        /\ Applying(c, r).cloid = c
        /\ Applying(c, r).result = r
  BY DEF Applying
<1> QED BY <1>1, <1>2, <1>3

LEMMA OpTypes ==
  /\ Idle \in Ops
  /\ \A c \in Cloids : Recording(c) \in Ops
  /\ \A c \in Cloids : \A r \in Results(c) : Applying(c, r) \in Ops
BY DEF Ops

\* What _rebuild_open reads back.
LEMMA RebuiltFacts ==
  ASSUME db \in [Cloids -> Row]
  PROVE  /\ Rebuilt(db) \in [Cloids -> Row]
         /\ OpenRows(Rebuilt(db)) = OpenRows(db)
         /\ \A c \in Cloids : Rebuilt(db)[c] = IF db[c].state \in OpenStates THEN db[c] ELSE NoRow
<1>1. \A c \in Cloids : c \in OpenRows(db) <=> db[c].state \in OpenStates
  BY DEF OpenRows, OpenIn, States
<1>2. \A c \in Cloids : Rebuilt(db)[c] = IF db[c].state \in OpenStates THEN db[c] ELSE NoRow
  BY <1>1 DEF Rebuilt
<1>3. Rebuilt(db) \in [Cloids -> Row]
  BY RowTypes DEF Rebuilt
<1>4. NoRow.state \notin OpenStates
  BY DEF NoRow, OpenStates, Absent
<1>5. OpenRows(Rebuilt(db)) = OpenRows(db)
  BY <1>2, <1>4 DEF OpenRows, OpenIn, States
<1> QED BY <1>2, <1>3, <1>5
-----------------------------------------------------------------------------
(* The inductive invariant.                                                *)

LEMMA InitInv == Init => IInv
<1> SUFFICES ASSUME Init PROVE IInv
  OBVIOUS
<1> USE DEF Init
<1>1. TypeOK
  BY RowTypes, OpTypes DEF TypeOK
<1>2. OpenRows(mem) = {}
  BY DEF OpenRows, OpenIn, States, NoRow, OpenStates, Absent
<1>3. gross = GrossOf[OpenRows(mem)]
  BY <1>2, GrossAssumption
<1>4. \A c \in Cloids : InFlight(c)
  BY OpsDiffer DEF InFlight, Agree, NoRow, OpenStates, Absent
<1> QED BY <1>1, <1>3, <1>4 DEF IInv

\* A step that is about order c leaves every other order as it was.
LEMMA Untouched ==
  ASSUME NEW c \in Cloids, NEW d \in Cloids, d # c, InFlight(d), ~Written(d),
         ~Written(d)', mem'[d] = mem[d], db'[d] = db[d]
  PROVE  InFlight(d)'
BY DEF InFlight, Written, Agree

LEMMA RecordCommitInv ==
  ASSUME IInv, NEW c \in Cloids, RecordCommit(c) PROVE IInv'
<1> USE DEF RecordCommit, LockFree
<1>1. TypeOK'
  BY RowTypes, OpTypes DEF IInv, TypeOK
<1>2. gross' = GrossOf[OpenRows(mem)]'
  BY DEF IInv, OpenRows, OpenIn, States
<1>3. db'[c] = PendingRow /\ \A d \in Cloids : d # c => db'[d] = db[d]
  BY DEF IInv, TypeOK
<1>4. mem[c] = NoRow
  BY OpsDiffer DEF IInv, InFlight, Written, Agree, NoRow, OpenStates, Absent
<1>5. ASSUME NEW d \in Cloids PROVE InFlight(d)'
  <2>1. CASE d = c
    BY <1>3, <1>4, <2>1, OpsDiffer DEF InFlight, Written
  <2>2. CASE d # c
    BY <1>3, <2>2, OpsDiffer, Untouched DEF IInv, Written
  <2> QED BY <2>1, <2>2
<1>6. \A d \in Cloids : db'[d].state = Absent => db'[d] = NoRow
  BY <1>3 DEF IInv, PendingRow, Absent
<1> QED BY <1>1, <1>2, <1>5, <1>6 DEF IInv

LEMMA RecordTrackInv ==
  ASSUME IInv, NEW c \in Cloids, RecordTrack(c) PROVE IInv'
<1> USE DEF RecordTrack
<1>0. status # "down"
  BY OpsDiffer DEF IInv
<1>1. TypeOK'
  BY RowTypes, OpTypes, NotionalType DEF IInv, TypeOK
<1>2. mem[c] = NoRow /\ db[c] = PendingRow
  BY <1>0 DEF IInv, InFlight
<1>3. mem'[c] = PendingRow /\ \A d \in Cloids : d # c => mem'[d] = mem[d]
  BY DEF IInv, TypeOK
<1>4. c \notin OpenRows(mem) /\ OpenRows(mem)' = OpenRows(mem) \cup {c}
  BY <1>2, <1>3 DEF OpenRows, OpenIn, States, NoRow, PendingRow, OpenStates, Absent
<1>5. gross' = GrossOf[OpenRows(mem)]'
  BY <1>0, <1>4, GrossAdd, OpenFinite DEF IInv, OpenRows
<1>6. ASSUME NEW d \in Cloids PROVE InFlight(d)'
  <2>1. CASE d = c
    BY <1>2, <1>3, <2>1, OpsDiffer DEF InFlight, Written, Agree, PendingRow, OpenStates
  <2>2. CASE d # c
    BY <1>0, <1>3, <2>2, OpsDiffer, Untouched DEF IInv, Written
  <2> QED BY <2>1, <2>2
<1> QED BY <1>0, <1>1, <1>5, <1>6 DEF IInv

LEMMA ApplyCommitInv ==
  ASSUME IInv, NEW c \in Cloids, NEW r \in Results(c), ApplyCommit(c, r)
  PROVE  IInv'
<1> USE DEF ApplyCommit, LockFree
<1>1. TypeOK'
  BY RowTypes, OpTypes DEF IInv, TypeOK
<1>2. gross' = GrossOf[OpenRows(mem)]'
  BY DEF IInv, OpenRows, OpenIn, States
<1>3. db'[c] = Merge(db[c], r) /\ \A d \in Cloids : d # c => db'[d] = db[d]
  BY DEF IInv, TypeOK
<1>4. mem[c] = db[c] /\ mem[c].state \in OpenStates /\ Rank[r.state] > Rank[mem[c].state]
  BY OpsDiffer DEF IInv, InFlight, Written, Agree, Advances, NoRow
<1>5. ASSUME NEW d \in Cloids PROVE InFlight(d)'
  <2>1. CASE d = c
    BY <1>3, <1>4, <2>1, OpsDiffer DEF InFlight, Written
  <2>2. CASE d # c
    BY <1>3, <2>2, OpsDiffer, Untouched DEF IInv, Written
  <2> QED BY <2>1, <2>2
<1>6. \A d \in Cloids : db'[d].state = Absent => db'[d] = NoRow
  <2>1. Merge(db[c], r).state # Absent
    BY RowTypes DEF Merge, OrderState, OpenStates, TerminalStates, Absent
  <2> QED BY <1>3, <2>1 DEF IInv
<1> QED BY <1>1, <1>2, <1>5, <1>6 DEF IInv

LEMMA ApplyEvictInv ==
  ASSUME IInv, NEW c \in Cloids, NEW r \in Results(c), ApplyEvict(c, r)
  PROVE  IInv'
<1> USE DEF ApplyEvict
<1>0. status # "down"
  BY OpsDiffer DEF IInv
<1>1. TypeOK'
  BY RowTypes, OpTypes, NotionalType DEF IInv, TypeOK
<1>2. mem[c].state \in OpenStates /\ db[c] = Merge(mem[c], r)
  BY <1>0 DEF IInv, InFlight
<1>3. mem'[c] = NoRow /\ \A d \in Cloids : d # c => mem'[d] = mem[d]
  BY DEF IInv, TypeOK
<1>4. c \in OpenRows(mem) /\ OpenRows(mem)' = OpenRows(mem) \ {c}
  BY <1>2, <1>3 DEF OpenRows, OpenIn, States, NoRow, OpenStates, Absent
<1>5. gross' = GrossOf[OpenRows(mem)]'
  BY <1>0, <1>4, GrossRemove, OpenFinite DEF IInv, OpenRows
<1>6. db[c].state \notin OpenStates
  BY <1>2, RowTypes, RankFacts DEF Merge
<1>7. ASSUME NEW d \in Cloids PROVE InFlight(d)'
  <2>1. CASE d = c
    BY <1>3, <1>6, <2>1, OpsDiffer DEF InFlight, Written, Agree
  <2>2. CASE d # c
    BY <1>0, <1>3, <2>2, OpsDiffer, Untouched DEF IInv, Written
  <2> QED BY <2>1, <2>2
<1> QED BY <1>0, <1>1, <1>5, <1>7 DEF IInv

LEMMA ApplyUpdateInv ==
  ASSUME IInv, NEW c \in Cloids, NEW r \in Results(c), ApplyUpdate(c, r)
  PROVE  IInv'
<1> USE DEF ApplyUpdate
<1>0. status # "down"
  BY OpsDiffer DEF IInv
<1>1. TypeOK'
  BY RowTypes, OpTypes DEF IInv, TypeOK
<1>2. mem[c].state \in OpenStates /\ db[c] = Merge(mem[c], r)
  BY <1>0 DEF IInv, InFlight
<1>3. mem'[c] = Merge(mem[c], r) /\ \A d \in Cloids : d # c => mem'[d] = mem[d]
  BY DEF IInv, TypeOK
<1>4. mem'[c].state \in OpenStates
  BY <1>3, RowTypes, RankFacts DEF Merge
<1>5. OpenRows(mem)' = OpenRows(mem)
  BY <1>2, <1>3, <1>4 DEF OpenRows, OpenIn, States
<1>6. gross' = GrossOf[OpenRows(mem)]'
  BY <1>0, <1>5 DEF IInv
<1>7. ASSUME NEW d \in Cloids PROVE InFlight(d)'
  <2>1. CASE d = c
    BY <1>2, <1>3, <1>4, <2>1, OpsDiffer DEF InFlight, Written, Agree
  <2>2. CASE d # c
    BY <1>0, <1>3, <2>2, OpsDiffer, Untouched DEF IInv, Written
  <2> QED BY <2>1, <2>2
<1> QED BY <1>0, <1>1, <1>6, <1>7 DEF IInv

LEMMA RestartInv == ASSUME IInv, Restart PROVE IInv'
<1> USE DEF Restart
<1>1. db \in [Cloids -> Row] /\ op = Idle
  BY DEF IInv, TypeOK
<1>2. mem' \in [Cloids -> Row] /\ OpenRows(mem)' = OpenRows(db)
  BY <1>1, RebuiltFacts DEF OpenRows, OpenIn, States
<1>3. gross' = GrossOf[OpenRows(mem)]' /\ gross' \in Int
  BY <1>2, OpenFinite, GrossAssumption DEF OpenRows
<1>4. \A c \in Cloids : InFlight(c)'
  BY <1>1, RebuiltFacts, OpsDiffer DEF InFlight, Agree
<1> QED BY <1>2, <1>3, <1>4 DEF IInv, TypeOK

LEMMA ProcessInv == ASSUME IInv, Close \/ Crash PROVE IInv'
<1>1. CASE Close
  <2>1. \A c \in Cloids : InFlight(c)' <=> InFlight(c)
    BY <1>1 DEF Close, InFlight, Written, Agree
  <2>2. OpenRows(mem)' = OpenRows(mem)
    BY <1>1 DEF Close, OpenRows, OpenIn, States
  <2> QED BY <1>1, <2>1, <2>2 DEF Close, IInv, TypeOK
<1>2. CASE Crash
  BY <1>2, RowTypes, OpTypes DEF Crash, IInv, TypeOK
<1> QED BY <1>1, <1>2

LEMMA StutterInv == ASSUME IInv, UNCHANGED vars PROVE IInv'
<1>1. \A c \in Cloids : InFlight(c)' <=> InFlight(c)
  BY DEF vars, InFlight, Written, Agree
<1>2. OpenRows(mem)' = OpenRows(mem)
  BY DEF vars, OpenRows, OpenIn, States
<1> QED BY <1>1, <1>2 DEF vars, IInv, TypeOK

LEMMA StepInv == IInv /\ [Next]_vars => IInv'
BY RecordCommitInv, RecordTrackInv, ApplyCommitInv, ApplyEvictInv, ApplyUpdateInv,
   RestartInv, ProcessInv, StutterInv DEF Next

\* The strengthened invariant of the store.
THEOREM Invariance == Spec => []IInv
BY InitInv, StepInv, PTL DEF Spec

\* Types are kept (the row, operation and counter types of order_store.py).
THEOREM TypeCorrect == Spec => []TypeOK
<1>1. IInv => TypeOK
  BY DEF IInv
<1> QED BY <1>1, Invariance, PTL

\* Memory is the open part of the disk whenever a caller can look, for any
\* number of orders, updates, crashes and restarts (order_store.py:14-16).
THEOREM StoreWritesThrough == Spec => []WriteThrough
<1>1. IInv => WriteThrough
  <2> SUFFICES ASSUME IInv, LockFree, status # "down"
               PROVE  /\ mem = Rebuilt(db)
                      /\ open_count = Cardinality(OpenRows(db))
                      /\ gross_notional = GrossOf[OpenRows(db)]
                      /\ \A c \in Cloids : get(c) = db[c]
    BY DEF WriteThrough
  <2>1. db \in [Cloids -> Row] /\ mem \in [Cloids -> Row]
    BY DEF IInv, TypeOK
  <2>2. \A c \in Cloids : Agree(c)
    BY OpsDiffer DEF IInv, InFlight, Written, LockFree
  <2>3. mem = Rebuilt(db)
    BY <2>1, <2>2, RebuiltFacts DEF Agree
  <2>4. OpenRows(mem) = OpenRows(db)
    BY <2>1, <2>3, RebuiltFacts
  <2>5. \A c \in Cloids : get(c) = db[c]
    BY <2>2, OpsDiffer DEF get, Agree, IInv, NoRow, OpenStates, Absent
  <2> QED BY <2>3, <2>4, <2>5 DEF IInv, open_count, gross_notional
<1> QED BY <1>1, Invariance, PTL

-----------------------------------------------------------------------------
(* What a step does to the disk, and the two step properties.              *)

LEMMA DiskStep ==
  ASSUME IInv, [Next]_vars
  PROVE  \/ UNCHANGED db
         \/ \E c \in Cloids : /\ db[c] = NoRow /\ c \notin NaNOrders
                             /\ db' = [db EXCEPT ![c] = PendingRow]
         \/ \E c \in Cloids : \E r \in Results(c) :
              /\ db[c].state \in OpenStates
              /\ Rank[r.state] > Rank[db[c].state]
              /\ db' = [db EXCEPT ![c] = Merge(db[c], r)]
<1>1. CASE UNCHANGED vars
  BY <1>1 DEF vars
<1>2. ASSUME NEW c \in Cloids, RecordCommit(c)
      PROVE  /\ db[c] = NoRow /\ c \notin NaNOrders
             /\ db' = [db EXCEPT ![c] = PendingRow]
  BY <1>2 DEF RecordCommit
<1>3. ASSUME NEW c \in Cloids, NEW r \in Results(c), ApplyCommit(c, r)
      PROVE  /\ db[c].state \in OpenStates
             /\ Rank[r.state] > Rank[db[c].state]
             /\ db' = [db EXCEPT ![c] = Merge(db[c], r)]
  <2>1. mem[c] = db[c] /\ db[c].state \in OpenStates
    BY <1>3, OpsDiffer
       DEF ApplyCommit, LockFree, IInv, InFlight, Written, Agree, Advances, NoRow
  <2> QED BY <1>3, <2>1 DEF ApplyCommit, Advances
<1>4. ASSUME NEW c \in Cloids, RecordTrack(c) PROVE UNCHANGED db
  BY <1>4 DEF RecordTrack
<1>5. ASSUME NEW c \in Cloids, NEW r \in Results(c), ApplyEvict(c, r) \/ ApplyUpdate(c, r)
      PROVE  UNCHANGED db
  BY <1>5 DEF ApplyEvict, ApplyUpdate
<1>6. CASE Close \/ Crash \/ Restart
  BY <1>6 DEF Close, Crash, Restart
<1> QED BY <1>1, <1>2, <1>3, <1>4, <1>5, <1>6 DEF Next

\* A row on disk only ever advances (order_store.py:19-21).
THEOREM DiskAdvances == Spec => RowsAdvance
<1> DEFINE Forward(c) ==
      db'[c] # db[c] =>
        /\ db[c].state \notin TerminalStates
        /\ db'[c].state # Absent
        /\ db[c].state # Absent => Rank[db'[c].state] > Rank[db[c].state]
        /\ db'[c].filled >= db[c].filled
        /\ db[c].oid # NoOid => db'[c].oid # NoOid
<1>1. ASSUME IInv, [Next]_vars, NEW d \in Cloids PROVE Forward(d)
  <2>0. db \in [Cloids -> Row]
    BY <1>1 DEF IInv, TypeOK
  <2>1. CASE UNCHANGED db
    BY <2>1
  <2>2. ASSUME NEW c \in Cloids, db[c] = NoRow, db' = [db EXCEPT ![c] = PendingRow]
        PROVE  Forward(d)
    BY <2>0, <2>2 DEF NoRow, PendingRow, TerminalStates, Absent
  <2>3. ASSUME NEW c \in Cloids, NEW r \in Results(c), db[c].state \in OpenStates,
               Rank[r.state] > Rank[db[c].state],
               db' = [db EXCEPT ![c] = Merge(db[c], r)]
        PROVE  Forward(d)
    <3>1. CASE d # c
      BY <2>0, <2>3, <3>1
    <3>2. CASE d = c
      <4>1. db'[c] = Merge(db[c], r)
        BY <2>0, <2>3
      <4>2. r.state \in OrderState /\ r.filled \in Nat /\ db[c].filled \in Nat
        BY <2>0, RowTypes DEF Row
      <4>3. db[c].state \notin TerminalStates /\ r.state # Absent
        BY <2>3, <4>2 DEF OrderState, OpenStates, TerminalStates, Absent
      <4> QED BY <2>3, <3>2, <4>1, <4>2, <4>3 DEF Merge
    <3> QED BY <3>1, <3>2
  <2> QED BY <1>1, <2>1, <2>2, <2>3, DiskStep
<1>2. IInv /\ [Next]_vars => [\A c \in Cloids : Forward(c)]_vars
  BY <1>1
<1> QED BY <1>2, Invariance, PTL DEF Spec, RowsAdvance

\* The ledger speaks the vocabulary of the store.
LEMMA SameVocabulary ==
  /\ Ledger!Absent = Absent
  /\ Ledger!OpenStates = OpenStates
  /\ Ledger!OrderState = OrderState
  /\ Ledger!Rank = Rank
BY DEF Ledger!Absent, Absent, Ledger!OpenStates, OpenStates, Ledger!TerminalStates,
       TerminalStates, Ledger!OrderState, OrderState, Ledger!Rank, Rank

\* The store with its lock, its memory layer and its crashes implements the
\* one-layer ledger.
THEOREM StoreImplementsLedger == Spec => ImplementsLedger
<1>1. Init => Ledger!Init
  BY SameVocabulary DEF Init, Ledger!Init, States, NoRow
<1>2. ASSUME IInv, [Next]_vars PROVE [Ledger!Next]_(States(db))
  <2>0. db \in [Cloids -> Row]
    BY <1>2 DEF IInv, TypeOK
  <2>1. CASE UNCHANGED db
    BY <2>1 DEF States
  <2>2. ASSUME NEW c \in Cloids, db[c] = NoRow, c \notin NaNOrders,
               db' = [db EXCEPT ![c] = PendingRow]
        PROVE  Ledger!Record(c)
    <3>1. States(db)' = [States(db) EXCEPT ![c] = "pending"]
      BY <2>0, <2>2 DEF States, PendingRow
    <3> QED BY <2>2, <3>1, SameVocabulary DEF Ledger!Record, States, NoRow
  <2>3. ASSUME NEW c \in Cloids, NEW r \in Results(c), db[c].state \in OpenStates,
               Rank[r.state] > Rank[db[c].state],
               db' = [db EXCEPT ![c] = Merge(db[c], r)]
        PROVE  r.state \in OrderState /\ Ledger!Advance(c, r.state)
    <3>1. States(db)' = [States(db) EXCEPT ![c] = r.state]
      BY <2>0, <2>3 DEF States, Merge
    <3> QED BY <2>3, <3>1, RowTypes, SameVocabulary DEF Ledger!Advance, Ledger!Advances, States
  <2> QED BY <1>2, <2>1, <2>2, <2>3, DiskStep, SameVocabulary DEF Ledger!Next
<1> QED BY <1>1, <1>2, Invariance, PTL DEF Spec, ImplementsLedger, Ledger!Spec
=============================================================================
