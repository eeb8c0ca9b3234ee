---------------------------- MODULE OrdersProofs ----------------------------
(***************************************************************************)
(* Facts about the order vocabulary that the other proofs cite.            *)
(***************************************************************************)
EXTENDS Orders, TLAPS, FiniteSetTheorems

\* A notional is a number of at least zero: exposure is never negative.
LEMMA NotionalType == \A c \in Cloids : Notional(c) \in Nat
<1>1. ASSUME NEW m \in Nat, NEW n \in Nat PROVE m * n \in Nat
  OBVIOUS
<1>2. SUFFICES ASSUME NEW c \in Cloids PROVE Notional(c) \in Nat
  OBVIOUS
<1>3. Intent[c].sz \in Nat /\ Intent[c].limitPx \in Nat
  BY <1>2, IntentAssumption DEF OrderIntent
<1> QED BY <1>1, <1>3 DEF Notional

\* Adding an order to the open set adds its notional (record_pending).
LEMMA GrossAdd ==
  ASSUME NEW S \in SUBSET Cloids, NEW c \in Cloids, c \notin S
  PROVE  GrossOf[S \cup {c}] = GrossOf[S] + Notional(c)
<1>1. S \cap {c} = {} /\ {c} \in SUBSET Cloids
  OBVIOUS
<1> QED BY <1>1, GrossAssumption

\* Removing an order takes its notional off (apply, terminal).
LEMMA GrossRemove ==
  ASSUME NEW S \in SUBSET Cloids, NEW c \in S
  PROVE  GrossOf[S \ {c}] = GrossOf[S] - Notional(c)
<1> DEFINE T == S \ {c}
<1>1. T \in SUBSET Cloids /\ c \in Cloids /\ c \notin T /\ T \cup {c} = S
  OBVIOUS
<1>2. GrossOf[S] = GrossOf[T] + Notional(c)
  <2> HIDE DEF T
  <2> QED BY <1>1, GrossAdd
<1>3. GrossOf[T] \in Nat /\ Notional(c) \in Nat
  BY <1>1, GrossAssumption, NotionalType
<1> QED BY <1>2, <1>3

\* The gross notional of a part never exceeds that of the whole.
LEMMA GrossMonotone ==
  ASSUME NEW S \in SUBSET Cloids, NEW T \in SUBSET S
  PROVE  GrossOf[T] <= GrossOf[S]
<1> DEFINE R == S \ T
<1>1. R \in SUBSET Cloids /\ T \in SUBSET Cloids /\ T \cap R = {} /\ T \cup R = S
  OBVIOUS
<1>2. GrossOf[S] = GrossOf[T] + GrossOf[R]
  <2> HIDE DEF R
  <2> QED BY <1>1, GrossAssumption
<1>3. GrossOf[T] \in Nat /\ GrossOf[R] \in Nat
  BY <1>1, GrossAssumption
<1> QED BY <1>2, <1>3

\* The open orders are finitely many, so counting them makes sense.
LEMMA OpenFinite ==
  ASSUME NEW states
  PROVE  /\ OpenIn(states) \in SUBSET Cloids
         /\ IsFiniteSet(OpenIn(states))
         /\ Cardinality(OpenIn(states)) \in Nat
<1>1. OpenIn(states) \in SUBSET Cloids
  BY DEF OpenIn
<1>2. IsFiniteSet(OpenIn(states))
  BY <1>1, IntentAssumption, FS_Subset
<1> QED BY <1>1, <1>2, FS_CardinalityType

\* The ranking is a number, and a terminal state is exactly one of rank 2.
LEMMA RankFacts ==
  \A s \in OrderState : /\ Rank[s] \in 0 .. 2
                        /\ Rank[s] = 2 <=> s \in TerminalStates
                        /\ Rank[s] < 2 <=> s \in OpenStates
BY DEF Rank, OrderState, OpenStates, TerminalStates

\* One more order that fits keeps the open orders S within both limits; those
\* of R do not count against the cap (RiskGuard.check, then record_pending).
LEMMA OneMoreFits ==
  ASSUME NEW S \in SUBSET Cloids, NEW R \in SUBSET Cloids,
         NEW c \in Cloids, c \notin S,
         NEW maxOpen \in Nat, NEW maxGross \in Nat,
         Cardinality(S) < maxOpen, GrossOf[S \ R] <= maxGross,
         c \in R \/ GrossOf[S] + Notional(c) <= maxGross
  PROVE  /\ Cardinality(S \cup {c}) <= maxOpen
         /\ GrossOf[(S \cup {c}) \ R] <= maxGross
<1>1. IsFiniteSet(S) /\ Cardinality(S) \in Nat
  BY IntentAssumption, FS_Subset, FS_CardinalityType
<1>2. Cardinality(S \cup {c}) <= maxOpen
  <2>1. Cardinality(S \cup {c}) = Cardinality(S) + 1
    BY <1>1, FS_AddElement
  <2> QED BY <1>1, <2>1
<1> DEFINE B == S \ R
<1>3. B \in SUBSET S /\ c \notin B /\ B \in SUBSET Cloids
  OBVIOUS
<1>4. CASE c \in R
  <2>1. (S \cup {c}) \ R = B
    BY <1>4
  <2> QED BY <1>2, <2>1
<1>5. CASE c \notin R
  <2>1. (S \cup {c}) \ R = B \cup {c}
    BY <1>5
  <2> HIDE DEF B
  <2>2. GrossOf[B \cup {c}] = GrossOf[B] + Notional(c)
    BY <1>3, GrossAdd
  <2>3. GrossOf[B] <= GrossOf[S]
    BY <1>3, GrossMonotone
  <2>4. GrossOf[B] \in Nat /\ GrossOf[S] \in Nat /\ Notional(c) \in Nat
    BY <1>3, GrossAssumption, NotionalType
  <2>5. GrossOf[B] + Notional(c) <= maxGross
    BY <1>5, <2>3, <2>4
  <2>6. GrossOf[(S \cup {c}) \ R] = GrossOf[B] + Notional(c)
    BY <2>1, <2>2
  <2> QED BY <1>2, <2>5, <2>6
<1> QED BY <1>4, <1>5

\* Fewer open orders are within the limits too (apply, terminal).
LEMMA FewerFit ==
  ASSUME NEW S \in SUBSET Cloids, NEW R \in SUBSET Cloids, NEW T \in SUBSET S,
         NEW maxOpen \in Nat, NEW maxGross \in Nat,
         Cardinality(S) <= maxOpen, GrossOf[S \ R] <= maxGross
  PROVE  Cardinality(T) <= maxOpen /\ GrossOf[T \ R] <= maxGross
<1>1. IsFiniteSet(S) /\ IsFiniteSet(T)
  BY IntentAssumption, FS_Subset
<1>2. Cardinality(T) <= Cardinality(S)
  BY <1>1, FS_Subset
<1>3. Cardinality(T) \in Nat /\ Cardinality(S) \in Nat
  BY <1>1, FS_CardinalityType
<1>4. GrossOf[T \ R] <= GrossOf[S \ R]
  <2>1. S \ R \in SUBSET Cloids /\ T \ R \in SUBSET (S \ R)
    OBVIOUS
  <2> QED BY <2>1, GrossMonotone
<1>5. GrossOf[T \ R] \in Nat /\ GrossOf[S \ R] \in Nat
  BY GrossAssumption
<1> QED BY <1>2, <1>3, <1>4, <1>5

=============================================================================
