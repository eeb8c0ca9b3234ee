------------------------------ MODULE OrderStore ------------------------------
(***************************************************************************)
(* services/order_store.py: one SQLite row per order, and in memory the    *)
(* rows of the open orders with their running gross notional.  Both are    *)
(* written under one lock, the database first, so a write is two steps of  *)
(* the lock's holder: commit, then memory.  The process may die between    *)
(* them.  What the methods do without changing anything (an early return,  *)
(* a statement that raises, a read) is a stuttering step here.             *)
(***************************************************************************)
EXTENDS Orders

CONSTANT Oids          \* venue order ids

ASSUME OidsAssumption == Oids \subseteq Nat \ {0}

VARIABLES
  status,   \* "up", "closed" (connection closed, process alive) or "down"
  db,       \* cloid -> its row on disk
  mem,      \* cloid -> its row in _open
  gross,    \* _gross_notional
  op        \* what the holder of _lock has committed but not yet put in memory

vars == <<status, db, mem, gross, op>>

NoOid == 0

Row == [state : OrderState \cup {Absent}, oid : Oids \cup {NoOid}, filled : Nat]
NoRow == [state |-> Absent, oid |-> NoOid, filled |-> 0]
PendingRow == [state |-> "pending", oid |-> NoOid, filled |-> 0]

\* The OrderResults the managers and the router build for order c: rejections
\* and cancels carry no oid, a live fill may be partial and may lack its oid.
Results(c) ==
  [state : {"rejected", "cancelled"}, oid : {NoOid}, filled : {0}]
    \cup [state : {"resting"}, oid : Oids, filled : {0}]
    \cup [state : {"filled"}, oid : Oids \cup {NoOid}, filled : 1 .. Intent[c].sz]

Idle == [kind |-> "idle"]
Recording(c) == [kind |-> "record", cloid |-> c]
Applying(c, r) == [kind |-> "apply", cloid |-> c, result |-> r]
Ops == {Idle} \cup {Recording(c) : c \in Cloids}
              \cup UNION {{Applying(c, r) : r \in Results(c)} : c \in Cloids}

States(rows) == [c \in Cloids |-> rows[c].state]
OpenRows(rows) == OpenIn(States(rows))

LockFree == op = Idle

Init ==
  /\ status = "up"
  /\ db = [c \in Cloids |-> NoRow]
  /\ mem = [c \in Cloids |-> NoRow]
  /\ gross = 0
  /\ op = Idle

-----------------------------------------------------------------------------
(* record_pending: INSERT OR IGNORE skips an existing cloid, and also a    *)
(* NaN, which SQLite stores as NULL in a NOT NULL column.                  *)

\* Mutant of RecordCommit: INSERT OR REPLACE.
RecordReplacing(c) ==
  /\ status = "up" /\ LockFree
  /\ c \notin NaNOrders
  /\ db' = [db EXCEPT ![c] = PendingRow]
  /\ op' = Recording(c)
  /\ UNCHANGED <<status, mem, gross>>

RecordCommit(c) ==
  /\ status = "up" /\ LockFree
  /\ db[c] = NoRow /\ c \notin NaNOrders
  /\ db' = [db EXCEPT ![c] = PendingRow]
  /\ op' = Recording(c)
  /\ UNCHANGED <<status, mem, gross>>

RecordTrack(c) ==
  /\ op = Recording(c)
  /\ mem' = [mem EXCEPT ![c] = PendingRow]
  /\ gross' = gross + Notional(c)
  /\ op' = Idle
  /\ UNCHANGED <<status, db>>

-----------------------------------------------------------------------------
(* apply                                                                   *)

\* No row in memory: unknown or already terminal.  No higher rank: a
\* regression or a duplicate.
Advances(row, result) ==
  /\ row.state # Absent
  /\ Rank[result.state] > Rank[row.state]

\* Mutant of Merge: oid = ? without the COALESCE.
MergeForgettingOid(row, result) ==
  [result EXCEPT !.filled = IF @ > row.filled THEN @ ELSE row.filled]

\* Mutant of Merge: filled_sz as what is left instead of what is filled.
MergeRemaining(row, result) == [result EXCEPT !.filled = row.filled - @]

\* oid = COALESCE(?, oid), filled_sz = MAX(filled_sz, ?)
Merge(row, result) ==
  [state  |-> result.state,
   oid    |-> IF result.oid = NoOid THEN row.oid ELSE result.oid,
   filled |-> IF result.filled > row.filled THEN result.filled ELSE row.filled]

ApplyCommit(c, r) ==
  /\ status = "up" /\ LockFree
  /\ Advances(mem[c], r)
  /\ db' = [db EXCEPT ![c] = Merge(db[c], r)]
  /\ op' = Applying(c, r)
  /\ UNCHANGED <<status, mem, gross>>

ApplyEvict(c, r) ==
  /\ op = Applying(c, r)
  /\ Rank[r.state] = 2
  /\ gross' = gross - Notional(c)
  /\ mem' = [mem EXCEPT ![c] = NoRow]
  /\ op' = Idle
  /\ UNCHANGED <<status, db>>

ApplyUpdate(c, r) ==
  /\ op = Applying(c, r)
  /\ Rank[r.state] < 2
  /\ mem' = [mem EXCEPT ![c] = Merge(mem[c], r)]
  /\ op' = Idle
  /\ UNCHANGED <<status, db, gross>>

-----------------------------------------------------------------------------
(* The connection and the process.                                         *)

Close ==
  /\ status = "up" /\ LockFree
  /\ status' = "closed"
  /\ UNCHANGED <<db, mem, gross, op>>

\* The process ends, in the middle of a write or not: only the disk is left.
Crash ==
  /\ status # "down"
  /\ status' = "down"
  /\ mem' = [c \in Cloids |-> NoRow]
  /\ gross' = 0
  /\ op' = Idle
  /\ UNCHANGED db

\* Mutant of Rebuilt: the resting orders are forgotten.
RebuiltPendingOnly(rows) ==
  [c \in Cloids |-> IF rows[c].state = "pending" THEN rows[c] ELSE NoRow]

\* _rebuild_open: SELECT the rows in an open state.
Rebuilt(rows) == [c \in Cloids |-> IF c \in OpenRows(rows) THEN rows[c] ELSE NoRow]

Restart ==
  /\ status = "down"
  /\ status' = "up"
  /\ mem' = Rebuilt(db)
  /\ gross' = GrossOf[OpenRows(db)]
  /\ UNCHANGED <<db, op>>

Next ==
  \/ \E c \in Cloids :
       \/ RecordCommit(c)
       \/ RecordTrack(c)
       \/ \E r \in Results(c) :
            ApplyCommit(c, r) \/ ApplyEvict(c, r) \/ ApplyUpdate(c, r)
  \/ Close
  \/ Crash
  \/ Restart

Spec == Init /\ [][Next]_vars

-----------------------------------------------------------------------------
(* The reads.  All of them take the lock, so they run only when LockFree.  *)

get(c) == IF mem[c].state # Absent THEN mem[c] ELSE db[c]
open_count == Cardinality(OpenRows(mem))
gross_notional == gross

TypeOK ==
  /\ status \in {"up", "closed", "down"}
  /\ db \in [Cloids -> Row]
  /\ mem \in [Cloids -> Row]
  /\ gross \in Int
  /\ op \in Ops

\* Whenever a caller can read, memory is exactly the open part of the disk,
\* the two numbers the risk guard reads are those of the disk's open orders,
\* and get answers with the disk's row: after any mix of writes, duplicate
\* and late updates, crashes between the two halves of a write, and restarts
\* (order_store.py:14-16, 115-173, 210-219).
WriteThrough ==
  LockFree /\ status # "down" =>
    /\ mem = Rebuilt(db)
    /\ open_count = Cardinality(OpenRows(db))
    /\ gross_notional = GrossOf[OpenRows(db)]
    /\ \A c \in Cloids : get(c) = db[c]

\* No step, restarts included, takes a row on disk back: a terminal row is
\* final, a row never disappears, its filled size never shrinks and its oid
\* is never forgotten (order_store.py:19-21).
RowsAdvance ==
  [][\A c \in Cloids : db'[c] # db[c] =>
       /\ db[c].state \notin TerminalStates
       /\ db'[c].state # Absent
       /\ db[c].state # Absent => Rank[db'[c].state] > Rank[db[c].state]
       /\ db'[c].filled >= db[c].filled
       /\ db[c].oid # NoOid => db'[c].oid # NoOid]_vars

Ledger == INSTANCE OrderLedger WITH ledger <- States(db)

\* The two-layer store implements the one-layer ledger: an update decided by
\* looking at memory is the update the durable state allows.
ImplementsLedger == Ledger!Spec
=============================================================================
