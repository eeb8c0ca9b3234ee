----------------------------- MODULE RateWindow -----------------------------
(***************************************************************************)
(* The orders-per-second limit of services/risk_guard.py: a deque of the   *)
(* submission times of the last second.  check and note_submission each    *)
(* read the monotonic clock for themselves, so time passes between them.   *)
(* The submission path serialises them under one lock: after an admission  *)
(* comes its note, or a rejection by another limit, or the end of the      *)
(* process.  The window lives in memory only, so a new process starts with *)
(* an empty one; log is the history of the present process.                *)
(***************************************************************************)
EXTENDS Limits, Sequences, FiniteSetsExt

VARIABLES
  clock,    \* time.monotonic()
  recent,   \* RiskGuard._recent
  admitted, \* TRUE between a successful rate check and what follows it
  log       \* every submission time noted since the process started

vars == <<clock, recent, admitted, log>>

TypeOK ==
  /\ clock \in Nat
  /\ recent \in Seq(Nat)
  /\ admitted \in BOOLEAN
  /\ log \in Seq(Nat)

Init == clock = 0 /\ recent = <<>> /\ admitted = FALSE /\ log = <<>>

\* Mutant of Expired: the window is a tick short.
ExpiredEarly(t, now) == t <= now - Window + 1

Expired(t, now) == t <= now - Window

\* Mutant of Trim: one expired time empties the deque.
TrimAll(q, now) == IF q # <<>> /\ Expired(q[1], now) THEN <<>> ELSE q

\* _trim: pop from the left up to the first time that has not expired.
Trim(q, now) ==
  LET Fresh == {i \in 1 .. Len(q) : ~Expired(q[i], now)}
  IN  IF Fresh = {} THEN <<>> ELSE SubSeq(q, Min(Fresh), Len(q))

\* Mutant of UnderRate: > instead of >= in the rejection.
UpToRate(q) == Len(q) <= MaxRate

UnderRate(q) == Len(q) < MaxRate

Tick ==
  /\ clock' = clock + 1
  /\ UNCHANGED <<recent, admitted, log>>

\* check, as far as the rate limit: it trims the window either way.
Check ==
  /\ ~admitted
  /\ recent' = Trim(recent, clock)
  /\ admitted' = UnderRate(recent')
  /\ UNCHANGED <<clock, log>>

\* Another limit rejects the order, or its submission ends in an exception.
Decline ==
  /\ admitted
  /\ admitted' = FALSE
  /\ UNCHANGED <<clock, recent, log>>

\* note_submission
Note ==
  /\ admitted
  /\ recent' = Append(recent, clock)
  /\ log' = Append(log, clock)
  /\ admitted' = FALSE
  /\ UNCHANGED clock

\* The process ends; the next one starts with a new RiskGuard.
NewProcess ==
  /\ recent' = <<>> /\ log' = <<>> /\ admitted' = FALSE
  /\ UNCHANGED clock

Next == Tick \/ Check \/ Decline \/ Note \/ NewProcess

Spec == Init /\ [][Next]_vars

-----------------------------------------------------------------------------
\* Every second of a process's life sees at most MaxRate submissions: of any
\* MaxRate + 1 in a row, the last comes at least a full window after the first,
\* although admission and note read different times (risk_guard.py:41-70).
RateBound ==
  \A i \in 1 .. Len(log) :
    i + MaxRate <= Len(log) => log[i + MaxRate] - log[i] >= Window
=============================================================================
