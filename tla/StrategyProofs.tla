--------------------------- MODULE StrategyProofs ---------------------------
(***************************************************************************)
(* What the two strategies believe of their orders, their position and     *)
(* their P&L, for any mids, sizes, caps, queue lengths and numbers of      *)
(* ticks and orders.                                                       *)
(*                                                                         *)
(* First the fold that positions and P&L are made of: how the sum over a   *)
(* set of orders changes with the set and with the orders.  Then ExecInv,  *)
(* which both strategies share: a fill is announced once, so that it is    *)
(* with the feed, or in the queue, or was given up, or was taken out; and  *)
(* the books agree with what was earned.  FillsNow is all a strategy has   *)
(* to know of a step of the feed.  MakerInv and ReversionInv add what each *)
(* strategy keeps, and above all where the news of its orders can be: the  *)
(* properties say nothing of that, and are not inductive without it.       *)
(***************************************************************************)
EXTENDS MarketMaker, MeanReversion, FunctionTheorems, SequenceTheorems,
        WellFoundedInduction, TLAPS

-----------------------------------------------------------------------------
(* Least naturals, for what is proved by going back to the first exception. *)

LEMMA LessThanPairs == \A x, y \in Nat : x < y => <<x, y>> \in OpToRel(<, Nat)
BY DEF OpToRel

LEMMA LeastElement ==
  ASSUME NEW S, NEW R, S \subseteq Nat, S # {}, IsWellFoundedOn(R, Nat)
  PROVE  \E x \in S : \A y \in S : ~(<<y, x>> \in R)
BY WFMin

LEMMA LeastNatural ==
  ASSUME NEW S \in SUBSET Nat, S # {}
  PROVE  \E x \in S : \A y \in S : x <= y
<1>0. S \subseteq Nat
  OBVIOUS
<1>1. PICK R : IsWellFoundedOn(R, Nat) /\ \A x, y \in Nat : x < y => <<x, y>> \in R
  BY NatLessThanWellFounded, LessThanPairs, Zenon
<1>2. PICK x \in S : \A y \in S : ~(<<y, x>> \in R)
  BY <1>0, <1>1, LeastElement
<1>3. \A y \in S : ~(y < x)
  BY <1>0, <1>1, <1>2, Zenon
<1> QED BY <1>0, <1>3

LEMMA NextFillIsOne ==
  ASSUME NEW S \in SUBSET Nat, S # {} PROVE Min(S) \in S
BY LeastNatural DEF Min

\* Going up from zero reaches every number up to n.
LEMMA UpFromZero ==
  ASSUME NEW n \in Nat, NEW S, 0 \in S, \A k \in 1 .. n : k - 1 \in S => k \in S
  PROVE  0 .. n \subseteq S
<1> DEFINE Missing == (0 .. n) \ S
<1> SUFFICES ASSUME Missing # {} PROVE FALSE
  OBVIOUS
<1>1. Missing \in SUBSET Nat
  OBVIOUS
<1>2. PICK k \in Missing : \A y \in Missing : k <= y
  <2> HIDE DEF Missing
  <2> QED BY <1>1, LeastNatural
<1>3. k \in 1 .. n /\ k - 1 \in 0 .. n
  BY <1>2
<1>4. k - 1 \in S
  BY <1>2, <1>3
<1> QED BY <1>2, <1>3, <1>4

-----------------------------------------------------------------------------
(* The fold: f holds the partial totals of the sequence s.                  *)

IsFold(f, s) ==
  /\ f \in [0 .. Len(s) -> Int]
  /\ f[0] = 0
  /\ \A n \in 1 .. Len(s) : f[n] = f[n - 1] + s[n]

Step(f, s) == [n \in 0 .. Len(s) |-> IF n = 0 THEN 0 ELSE f[n - 1] + s[n]]

LEMMA FoldIsUnique ==
  ASSUME NEW s \in Seq(Int), NEW f, NEW g, IsFold(f, s), IsFold(g, s)
  PROVE  f = g
<1> DEFINE S == {n \in 0 .. Len(s) : f[n] = g[n]}
<1>1. Len(s) \in Nat
  OBVIOUS
<1>2. 0 \in S
  BY <1>1 DEF IsFold
<1>3. \A k \in 1 .. Len(s) : k - 1 \in S => k \in S
  BY <1>1 DEF IsFold
<1>4. 0 .. Len(s) \subseteq S
  <2> HIDE DEF S
  <2> QED BY <1>1, <1>2, <1>3, UpFromZero
<1> QED BY <1>4 DEF IsFold

LEMMA FoldExists ==
  ASSUME NEW s \in Seq(Int)
  PROVE  \E f : IsFold(f, s)
<1> DEFINE Up(n, f) == /\ f \in [0 .. n -> Int] /\ f[0] = 0
                       /\ \A k \in 1 .. n : f[k] = f[k - 1] + s[k]
           S == {n \in 0 .. Len(s) : \E f : Up(n, f)}
<1>1. Len(s) \in Nat
  OBVIOUS
<1>2. 0 \in S
  <2>1. Up(0, [k \in 0 .. 0 |-> 0])
    OBVIOUS
  <2> HIDE DEF Up
  <2> QED BY <1>1, <2>1
<1>3. ASSUME NEW n \in 1 .. Len(s), n - 1 \in S PROVE n \in S
  <2>1. PICK f : Up(n - 1, f)
    BY <1>3
  <2> DEFINE g == [k \in 0 .. n |-> IF k = n THEN f[n - 1] + s[n] ELSE f[k]]
  <2>2. n \in Nat /\ s[n] \in Int /\ f[n - 1] \in Int
    BY <1>1, <2>1
  <2>3. g \in [0 .. n -> Int] /\ g[0] = 0
    BY <2>1, <2>2
  <2>4. ASSUME NEW k \in 1 .. n PROVE g[k] = g[k - 1] + s[k]
    <3>1. CASE k = n
      BY <2>2, <3>1
    <3>2. CASE k # n
      <4>1. k \in 1 .. n - 1 /\ g[k] = f[k] /\ g[k - 1] = f[k - 1]
        BY <2>2, <3>2
      <4> QED BY <2>1, <4>1
    <3> QED BY <3>1, <3>2
  <2>5. Up(n, g)
    BY <2>3, <2>4
  <2> HIDE DEF Up, g
  <2> QED BY <2>5
<1>4. 0 .. Len(s) \subseteq S
  <2> HIDE DEF S
  <2> QED BY <1>1, <1>2, <1>3, UpFromZero
<1>5. \E f : Up(Len(s), f)
  <2>1. Len(s) \in S
    <3> HIDE DEF S
    <3> QED BY <1>1, <1>4
  <2> HIDE DEF Up
  <2> QED BY <2>1
<1> QED BY <1>5 DEF IsFold

LEMMA StepOfFold ==
  ASSUME NEW s \in Seq(Int), NEW f
  PROVE  IsFold(f, s) <=> f = Step(f, s) /\ \A n \in 0 .. Len(s) : f[n] \in Int
<1>0. Len(s) \in Nat
  OBVIOUS
<1>1. ASSUME IsFold(f, s) PROVE f = Step(f, s)
  <2>1. f = [n \in 0 .. Len(s) |-> f[n]]
    BY <1>1 DEF IsFold
  <2>2. \A n \in 0 .. Len(s) : f[n] = IF n = 0 THEN 0 ELSE f[n - 1] + s[n]
    BY <1>0, <1>1 DEF IsFold
  <2> QED BY <2>1, <2>2 DEF Step
<1>2. ASSUME f = Step(f, s), \A n \in 0 .. Len(s) : f[n] \in Int PROVE IsFold(f, s)
  <2> DEFINE g == Step(f, s)
  <2>1. g = f
    BY <1>2
  <2>2. g = [n \in 0 .. Len(s) |-> g[n]]
    BY DEF Step
  <2>3. \A n \in 0 .. Len(s) : g[n] = IF n = 0 THEN 0 ELSE f[n - 1] + s[n]
    BY DEF Step
  <2> HIDE DEF g
  <2>4. \A n \in 0 .. Len(s) : g[n] \in Int
    BY <1>2, <2>1
  <2>5. g \in [0 .. Len(s) -> Int]
    BY <2>2, <2>4
  <2>6. g[0] = 0 /\ \A n \in 1 .. Len(s) : g[n] = g[n - 1] + s[n]
    BY <1>0, <2>1, <2>3
  <2> QED BY <2>1, <2>5, <2>6 DEF IsFold
<1> QED BY <1>1, <1>2 DEF IsFold

\* A function that satisfies the recursion has numbers for values.
LEMMA StepIsFold ==
  ASSUME NEW s \in Seq(Int), NEW f, f = Step(f, s) PROVE IsFold(f, s)
<1> DEFINE S == {n \in 0 .. Len(s) : f[n] \in Int}
<1>1. Len(s) \in Nat
  OBVIOUS
<1>2. 0 \in S
  BY <1>1 DEF Step
<1>3. ASSUME NEW k \in 1 .. Len(s), k - 1 \in S PROVE k \in S
  <2>1. f[k] = f[k - 1] + s[k]
    BY <1>1 DEF Step
  <2> QED BY <1>1, <1>3, <2>1
<1>4. 0 .. Len(s) \subseteq S
  <2> HIDE DEF S
  <2> QED BY <1>1, <1>2, <1>3, UpFromZero
<1> QED BY <1>4, StepOfFold

\* Total is the value of any fold at the end.
LEMMA TotalIs ==
  ASSUME NEW s \in Seq(Int), NEW f, IsFold(f, s)
  PROVE  Total(s) = f[Len(s)]
<1> DEFINE h == CHOOSE g : g = Step(g, s)
<1>1. Total(s) = h[Len(s)]
  BY DEF Total, Step
<1>2. h = Step(h, s)
  BY StepOfFold
<1> HIDE DEF h
<1>3. IsFold(h, s)
  BY <1>2, StepIsFold
<1> QED BY <1>1, <1>3, FoldIsUnique

LEMMA TotalType == ASSUME NEW s \in Seq(Int) PROVE Total(s) \in Int
<1>1. PICK f : IsFold(f, s)
  BY FoldExists
<1>2. Len(s) \in 0 .. Len(s)
  OBVIOUS
<1>3. f[Len(s)] \in Int
  BY <1>1, <1>2 DEF IsFold
<1> QED BY <1>1, <1>3, TotalIs

\* A fold of zeros is zero, and one number among zeros is the total.
LEMMA TotalOfOne ==
  ASSUME NEW s \in Seq(Int), NEW k \in Nat \ {0},
         \A n \in 1 .. Len(s) : n # k => s[n] = 0
  PROVE  Total(s) = IF k \in 1 .. Len(s) THEN s[k] ELSE 0
<1> DEFINE f == [n \in 0 .. Len(s) |-> IF n < k THEN 0 ELSE s[k]]
<1>0. Len(s) \in Nat /\ \A n \in 1 .. Len(s) : s[n] \in Int
  OBVIOUS
<1>1. IsFold(f, s)
  <2>1. ASSUME NEW n \in 0 .. Len(s) PROVE f[n] \in Int
    BY <1>0
  <2>2. f[0] = 0
    BY <1>0
  <2>3. ASSUME NEW n \in 1 .. Len(s) PROVE f[n] = f[n - 1] + s[n]
    <3>1. CASE n = k
      BY <1>0, <3>1
    <3>2. CASE n < k
      BY <1>0, <3>2
    <3>3. CASE n > k
      BY <1>0, <3>3
    <3> QED BY <1>0, <3>1, <3>2, <3>3
  <2> QED BY <2>1, <2>2, <2>3 DEF IsFold
<1> HIDE DEF f
<1>2. Total(s) = f[Len(s)]
  BY <1>1, TotalIs
<1> QED BY <1>0, <1>2 DEF f

\* The total of the sums is the sum of the totals.
LEMMA TotalOfSum ==
  ASSUME NEW r \in Seq(Int), NEW s \in Seq(Int), NEW t \in Seq(Int),
         Len(r) = Len(s), Len(r) = Len(t), \A n \in 1 .. Len(r) : r[n] = s[n] + t[n]
  PROVE  Total(r) = Total(s) + Total(t)
<1>0. Len(r) \in Nat
  OBVIOUS
<1>1. PICK f : IsFold(f, s)
  BY FoldExists
<1>2. PICK g : IsFold(g, t)
  BY FoldExists
<1> DEFINE h == [n \in 0 .. Len(r) |-> f[n] + g[n]]
<1>3. \A n \in 1 .. Len(r) : s[n] \in Int /\ t[n] \in Int
  <2>1. \A u \in Seq(Int) : \A n \in 1 .. Len(u) : u[n] \in Int
    OBVIOUS
  <2> QED BY <2>1
<1>4. \A n \in 0 .. Len(r) : f[n] \in Int /\ g[n] \in Int
  BY <1>1, <1>2 DEF IsFold
<1>5. IsFold(h, r)
  <2>1. h \in [0 .. Len(r) -> Int] /\ h[0] = 0
    BY <1>0, <1>1, <1>2, <1>4 DEF IsFold
  <2>2. ASSUME NEW n \in 1 .. Len(r) PROVE h[n] = h[n - 1] + r[n]
    <3>1. f[n] = f[n - 1] + s[n] /\ g[n] = g[n - 1] + t[n]
      BY <1>1, <1>2 DEF IsFold
    <3>2. n \in 0 .. Len(r) /\ n - 1 \in 0 .. Len(r)
      BY <1>0
    <3>3. h[n] = f[n] + g[n] /\ h[n - 1] = f[n - 1] + g[n - 1]
      BY <3>2
    <3>4. r[n] = s[n] + t[n] /\ s[n] \in Int /\ t[n] \in Int
      BY <1>3
    <3>5. f[n - 1] \in Int /\ g[n - 1] \in Int
      BY <1>4, <3>2
    <3> DEFINE a == f[n - 1]
               b == g[n - 1]
               c == s[n]
               d == t[n]
    <3>6. /\ h[n] = f[n] + g[n] /\ h[n - 1] = a + b
          /\ f[n] = a + c /\ g[n] = b + d /\ r[n] = c + d
          /\ a \in Int /\ b \in Int /\ c \in Int /\ d \in Int
      BY <3>1, <3>3, <3>4, <3>5
    <3> HIDE DEF a, b, c, d, h
    <3> QED BY <3>6
  <2> QED BY <2>1, <2>2 DEF IsFold
<1>6. h[Len(r)] = f[Len(r)] + g[Len(r)]
  BY <1>0
<1> HIDE DEF h
<1> QED BY <1>1, <1>2, <1>5, <1>6, TotalIs

\* One more number.
LEMMA TotalOfAppend ==
  ASSUME NEW s \in Seq(Int), NEW x \in Int
  PROVE  Total(Append(s, x)) = Total(s) + x
<1>0. Len(s) \in Nat /\ Append(s, x) \in Seq(Int) /\ Len(Append(s, x)) = Len(s) + 1
  OBVIOUS
<1>1. PICK f : IsFold(f, s)
  BY FoldExists
<1> DEFINE m == Len(s) + 1
           h == [n \in 0 .. m |-> IF n = m THEN f[Len(s)] + x ELSE f[n]]
<1>2. IsFold(h, Append(s, x))
  <2>1. h \in [0 .. m -> Int] /\ h[0] = 0
    BY <1>0, <1>1 DEF IsFold
  <2>2. ASSUME NEW n \in 1 .. m PROVE h[n] = h[n - 1] + Append(s, x)[n]
    <3>1. CASE n = m
      BY <1>0, <3>1
    <3>2. CASE n \in 1 .. Len(s)
      <4>1. Append(s, x)[n] = s[n] /\ h[n] = f[n] /\ h[n - 1] = f[n - 1]
        BY <1>0, <3>2
      <4> QED BY <1>1, <3>2, <4>1 DEF IsFold
    <3> QED BY <1>0, <3>1, <3>2
  <2> QED BY <1>0, <2>1, <2>2 DEF IsFold
<1>3. h[m] = f[Len(s)] + x
  BY <1>0
<1> HIDE DEF h
<1> QED BY <1>0, <1>1, <1>2, <1>3, TotalIs

-----------------------------------------------------------------------------
(* What the orders of a set contribute.                                    *)

Part(f, S) == [i \in DOMAIN f |-> IF i \in S THEN f[i] ELSE 0]

LEMMA PartType ==
  ASSUME NEW f \in Seq(Int), NEW S
  PROVE  /\ Part(f, S) \in Seq(Int) /\ Len(Part(f, S)) = Len(f)
         /\ \A i \in 1 .. Len(f) : Part(f, S)[i] = IF i \in S THEN f[i] ELSE 0
         /\ SumOf(f, S) = Total(Part(f, S))
<1>1. Len(f) \in Nat /\ DOMAIN f = 1 .. Len(f) /\ \A i \in 1 .. Len(f) : f[i] \in Int
  OBVIOUS
<1>2. Part(f, S) \in [1 .. Len(f) -> Int]
  BY <1>1 DEF Part
<1>3. Part(f, S) \in Seq(Int) /\ Len(Part(f, S)) = Len(f)
  BY <1>1, <1>2
<1> QED BY <1>1, <1>3 DEF Part, SumOf

\* A sum is a number.
LEMMA SumType == ASSUME NEW f \in Seq(Int), NEW S PROVE SumOf(f, S) \in Int
BY PartType, TotalType

\* Only the orders that exist count, and only their amounts.
LEMMA SumAgrees ==
  ASSUME NEW f \in Seq(Int), NEW g \in Seq(Int), NEW S, NEW T, Len(f) = Len(g),
         \A i \in 1 .. Len(f) : /\ i \in S <=> i \in T
                                /\ i \in S => f[i] = g[i]
  PROVE  SumOf(f, S) = SumOf(g, T)
<1>1. Len(f) \in Nat /\ DOMAIN f = 1 .. Len(f) /\ DOMAIN g = 1 .. Len(f)
  OBVIOUS
<1>2. Part(f, S) = Part(g, T)
  BY <1>1 DEF Part
<1> QED BY <1>2, PartType

\* The sum over two sets that share no order.
LEMMA SumOfUnion ==
  ASSUME NEW f \in Seq(Int), NEW S, NEW T, S \cap T = {}
  PROVE  SumOf(f, S \cup T) = SumOf(f, S) + SumOf(f, T)
<1>1. \A i \in 1 .. Len(f) : f[i] \in Int /\ Len(f) \in Nat
  OBVIOUS
<1>2. ASSUME NEW i \in 1 .. Len(f)
      PROVE  Part(f, S \cup T)[i] = Part(f, S)[i] + Part(f, T)[i]
  <2>1. Part(f, S \cup T)[i] = IF i \in S \cup T THEN f[i] ELSE 0
    BY PartType
  <2>2. Part(f, S)[i] = IF i \in S THEN f[i] ELSE 0
    BY PartType
  <2>3. Part(f, T)[i] = IF i \in T THEN f[i] ELSE 0
    BY PartType
  <2> QED BY <1>1, <2>1, <2>2, <2>3
<1>3. SumOf(f, S \cup T) = Total(Part(f, S \cup T)) /\ SumOf(f, S) = Total(Part(f, S))
      /\ SumOf(f, T) = Total(Part(f, T))
  BY PartType
<1>4. /\ Part(f, S \cup T) \in Seq(Int) /\ Len(Part(f, S \cup T)) = Len(f)
      /\ Part(f, S) \in Seq(Int) /\ Len(Part(f, S)) = Len(f)
      /\ Part(f, T) \in Seq(Int) /\ Len(Part(f, T)) = Len(f)
  BY PartType
<1>5. Total(Part(f, S \cup T)) = Total(Part(f, S)) + Total(Part(f, T))
  <2> DEFINE p == Part(f, S)
             q == Part(f, T)
             r == Part(f, S \cup T)
  <2>1. \A i \in 1 .. Len(r) : r[i] = p[i] + q[i]
    BY <1>2, <1>4
  <2>2. r \in Seq(Int) /\ p \in Seq(Int) /\ q \in Seq(Int) /\ Len(r) = Len(p) /\ Len(r) = Len(q)
    BY <1>4
  <2> HIDE DEF p, q, r
  <2>3. Total(r) = Total(p) + Total(q)
    BY <2>1, <2>2, TotalOfSum
  <2> QED BY <2>3 DEF p, q, r
<1> QED BY <1>3, <1>5

\* The sum over one order, and over none.
LEMMA SumOfOne ==
  ASSUME NEW f \in Seq(Int), NEW k \in 1 .. Len(f)
  PROVE  SumOf(f, {k}) = f[k]
<1>1. Len(f) \in Nat /\ k \in Nat \ {0}
  OBVIOUS
<1>2. \A n \in 1 .. Len(f) : n # k => Part(f, {k})[n] = 0
  BY PartType
<1>3. Part(f, {k})[k] = f[k]
  BY PartType
<1>4. Part(f, {k}) \in Seq(Int) /\ Len(Part(f, {k})) = Len(f) /\ SumOf(f, {k}) = Total(Part(f, {k}))
  BY PartType
<1>5. Total(Part(f, {k})) = IF k \in 1 .. Len(Part(f, {k})) THEN Part(f, {k})[k] ELSE 0
  BY <1>1, <1>2, <1>4, TotalOfOne
<1> QED BY <1>3, <1>4, <1>5

LEMMA SumOfNone ==
  ASSUME NEW f \in Seq(Int), NEW S, \A i \in 1 .. Len(f) : i \notin S
  PROVE  SumOf(f, S) = 0
<1>1. Len(f) \in Nat /\ Len(f) + 1 \in Nat \ {0} /\ Len(f) + 1 \notin 1 .. Len(f)
  OBVIOUS
<1>2. \A n \in 1 .. Len(f) : Part(f, S)[n] = 0
  BY PartType
<1>3. Total(Part(f, S)) = 0
  BY <1>1, <1>2, PartType, TotalOfOne
<1> QED BY <1>3, PartType

\* One order more in the set.
LEMMA SumAddOne ==
  ASSUME NEW f \in Seq(Int), NEW S, NEW k \in 1 .. Len(f), k \notin S
  PROVE  SumOf(f, S \cup {k}) = SumOf(f, S) + f[k]
<1>1. S \cap {k} = {}
  OBVIOUS
<1>2. SumOf(f, S \cup {k}) = SumOf(f, S) + SumOf(f, {k})
  BY <1>1, SumOfUnion
<1>3. SumOf(f, {k}) = f[k]
  BY SumOfOne
<1> QED BY <1>2, <1>3

\* One order more in the list.
LEMMA SumOfAppend ==
  ASSUME NEW f \in Seq(Int), NEW x \in Int, NEW S, Len(f) + 1 \notin S
  PROVE  /\ SumOf(Append(f, x), S) = SumOf(f, S)
         /\ SumOf(Append(f, x), S \cup {Len(f) + 1}) = SumOf(f, S) + x
<1> DEFINE g == Append(f, x)
           n == Len(f) + 1
<1>1. /\ g \in Seq(Int) /\ Len(g) = n /\ Len(f) \in Nat /\ g[n] = x
      /\ \A i \in 1 .. Len(f) : g[i] = f[i]
  OBVIOUS
<1>2. Part(g, S) = Append(Part(f, S), 0)
  <2>1. /\ Part(f, S) \in Seq(Int) /\ Len(Part(f, S)) = Len(f)
        /\ Part(g, S) \in Seq(Int) /\ Len(Part(g, S)) = n
    BY <1>1, PartType
  <2>2. Append(Part(f, S), 0) \in Seq(Int) /\ Len(Append(Part(f, S), 0)) = n
    <3>1. \A p \in Seq(Int) : Append(p, 0) \in Seq(Int) /\ Len(Append(p, 0)) = Len(p) + 1
      BY AppendProperties
    <3> QED BY <2>1, <3>1, Zenon
  <2>3. ASSUME NEW i \in 1 .. n PROVE Part(g, S)[i] = Append(Part(f, S), 0)[i]
    <3>1. Part(g, S)[i] = IF i \in S THEN g[i] ELSE 0
      <4> HIDE DEF g, n
      <4> QED BY <1>1, PartType
    <3>2. CASE i = n
      BY <2>1, <3>1, <3>2
    <3>3. CASE i \in 1 .. Len(f)
      <4>1. Part(f, S)[i] = IF i \in S THEN f[i] ELSE 0
        BY <3>3, PartType
      <4>2. Append(Part(f, S), 0)[i] = Part(f, S)[i]
        BY <2>1, <3>3
      <4> QED BY <1>1, <3>1, <3>3, <4>1, <4>2
    <3>4. i = n \/ i \in 1 .. Len(f)
      <4> HIDE DEF g
      <4> QED BY <1>1
    <3> QED BY <3>2, <3>3, <3>4
  <2> HIDE DEF g, n
  <2> QED BY <2>1, <2>2, <2>3, SeqEqual
<1>3. SumOf(g, S) = SumOf(f, S)
  <2>1. Part(f, S) \in Seq(Int) /\ SumOf(f, S) = Total(Part(f, S))
    BY PartType
  <2>2. SumOf(g, S) = Total(Part(g, S))
    <3> HIDE DEF g
    <3> QED BY <1>1, PartType
  <2>3. Total(Append(Part(f, S), 0)) = Total(Part(f, S)) + 0 /\ Total(Part(f, S)) \in Int
    BY <2>1, TotalOfAppend, TotalType
  <2> HIDE DEF g
  <2> QED BY <1>2, <2>1, <2>2, <2>3
<1> HIDE DEF g
<1>4. SumOf(g, S \cup {n}) = SumOf(g, S) + x
  BY <1>1, SumAddOne
<1> QED BY <1>3, <1>4 DEF g

-----------------------------------------------------------------------------
(* The orders, and what each way of changing them changes.                 *)

Amount(order) == IF order.side = "buy" THEN Size ELSE -Size
Flow(order) == -Amount(order) * order.paid
Flows == [i \in DOMAIN orders |-> Flow(orders[i])]

LEMMA OrderFacts ==
  ASSUME ExecutionTypeOK
  PROVE  /\ Len(orders) \in Nat /\ DOMAIN orders = 1 .. Len(orders)
         /\ \A i \in DOMAIN orders : orders[i] \in Order
<1>1. orders \in Seq(Order)
  BY DEF ExecutionTypeOK
<1> HIDE DEF Order
<1> QED BY <1>1

LEMMA AmountType ==
  /\ \A order \in Order : Amount(order) \in Int /\ Flow(order) \in Int
  /\ \A order \in Order : Amount(order) \in {Size, -Size}
<1>1. ASSUME NEW order \in Order PROVE Amount(order) \in Int /\ Amount(order) \in {Size, -Size}
  BY ExecutionAssumption DEF Amount
<1>2. ASSUME NEW order \in Order PROVE order.paid \in Int
  BY DEF Order
<1>3. \A a, b \in Int : -a * b \in Int
  OBVIOUS
<1>4. ASSUME NEW order \in Order PROVE Flow(order) \in Int
  BY <1>1, <1>2, <1>3 DEF Flow
<1> QED BY <1>1, <1>4

LEMMA SignedType ==
  ASSUME ExecutionTypeOK
  PROVE  /\ Signed \in Seq(Int) /\ Len(Signed) = Len(orders)
         /\ \A i \in DOMAIN orders : Signed[i] = Amount(orders[i]) /\ Signed[i] \in Int
         /\ Flows \in Seq(Int) /\ Len(Flows) = Len(orders)
         /\ \A i \in DOMAIN orders : Flows[i] = -Signed[i] * orders[i].paid
         /\ Cash = SumOf(Flows, Recorded)
<1>1. \A i \in DOMAIN orders : Amount(orders[i]) \in Int /\ Flow(orders[i]) \in Int
  BY OrderFacts, AmountType
<1>2. \A i \in DOMAIN orders : Signed[i] = Amount(orders[i])
  BY DEF Signed, Amount
<1>3. Signed \in [1 .. Len(orders) -> Int]
  BY <1>1, OrderFacts DEF Signed, Amount
<1>4. Flows \in [1 .. Len(orders) -> Int]
  BY <1>1, OrderFacts DEF Flows
<1>5. \A i \in DOMAIN orders : Flows[i] = -Signed[i] * orders[i].paid
  BY <1>2 DEF Flows, Flow
<1>6. Flows = [i \in DOMAIN orders |-> -Signed[i] * orders[i].paid]
  BY <1>5 DEF Flows
<1>7. Cash = SumOf(Flows, Recorded)
  BY <1>6 DEF Cash
<1>8. /\ Signed \in Seq(Int) /\ Len(Signed) = Len(orders)
      /\ Flows \in Seq(Int) /\ Len(Flows) = Len(orders)
  BY <1>3, <1>4, OrderFacts
<1> QED BY <1>1, <1>2, <1>5, <1>7, <1>8

\* The same amounts and prices, whatever became of the states.
SameBook ==
  /\ orders' \in Seq(Order) /\ Len(orders') = Len(orders)
  /\ \A i \in DOMAIN orders :
       /\ orders'[i].side = orders[i].side
       /\ orders'[i].reduceOnly = orders[i].reduceOnly

LEMMA SameBookFacts ==
  ASSUME ExecutionTypeOK, SameBook
  PROVE  DOMAIN orders' = DOMAIN orders /\ Signed' = Signed
<1>1. DOMAIN orders' = DOMAIN orders
  <2> HIDE DEF Order
  <2> QED BY OrderFacts DEF SameBook
<1> QED BY <1>1 DEF SameBook, Signed

\* The index of the order that is let through next.
Fresh == Len(orders) + 1

LEMMA AppendIs ==
  ASSUME NEW f \in Seq(Int), NEW x \in Int, NEW n, n = Len(f) + 1,
         NEW g \in [1 .. n -> Int], g[n] = x, \A i \in 1 .. Len(f) : g[i] = f[i]
  PROVE  g = Append(f, x)
<1>1. Len(f) \in Nat /\ n \in Nat
  OBVIOUS
<1>2. g \in Seq(Int) /\ Len(g) = n
  BY <1>1
<1>3. Append(f, x) \in Seq(Int) /\ Len(Append(f, x)) = n
  BY <1>1
<1>4. ASSUME NEW i \in 1 .. n PROVE g[i] = Append(f, x)[i]
  <2>1. CASE i \in 1 .. Len(f)
    BY <2>1
  <2>2. CASE i = n
    BY <2>2
  <2> QED BY <1>1, <2>1, <2>2
<1> QED BY <1>2, <1>3, <1>4, SeqEqual

\* An order is appended.
LEMMA AppendEffect ==
  ASSUME ExecutionTypeOK, NEW order \in Order, orders' = Append(orders, order)
  PROVE  /\ orders' \in Seq(Order) /\ Len(orders') = Fresh
         /\ DOMAIN orders' = DOMAIN orders \cup {Fresh} /\ Fresh \notin DOMAIN orders
         /\ orders'[Fresh] = order /\ \A i \in DOMAIN orders : orders'[i] = orders[i]
         /\ \A s : InState(s)' = InState(s) \cup (IF order.state = s THEN {Fresh} ELSE {})
         /\ Signed' = Append(Signed, Amount(order))
         /\ Flows' = Append(Flows, Flow(order))
<1> DEFINE n == Fresh
<1>1. /\ orders' \in Seq(Order) /\ Len(orders') = n
      /\ orders'[n] = order /\ \A i \in DOMAIN orders : orders'[i] = orders[i]
  <2>1. orders \in Seq(Order)
    BY DEF ExecutionTypeOK
  <2> HIDE DEF Order
  <2> QED BY <2>1, OrderFacts DEF Fresh
<1>2. DOMAIN orders' = 1 .. n
  <2> HIDE DEF Order, n
  <2> QED BY <1>1
<1>3. DOMAIN orders' = DOMAIN orders \cup {n} /\ n \notin DOMAIN orders
  BY <1>2, OrderFacts DEF Fresh
<1>4. \A s : InState(s)' = InState(s) \cup (IF order.state = s THEN {n} ELSE {})
  <2> HIDE DEF n
  <2> QED BY <1>1, <1>3 DEF InState
<1>5. n = Len(orders) + 1 /\ Len(orders) \in Nat /\ DOMAIN orders = 1 .. Len(orders)
  BY OrderFacts DEF Fresh
<1>6. Amount(order) \in Int /\ Flow(order) \in Int
  BY AmountType
<1>7. \A i \in DOMAIN orders' : orders'[i] \in Order
  <2> HIDE DEF Order, n
  <2> QED BY <1>1, <1>2
<1>8. Signed' = Append(Signed, Amount(order))
  <2>1. Signed' \in [1 .. n -> Int] /\ \A i \in 1 .. n : Signed'[i] = Amount(orders'[i])
    <3>1. Signed' = [i \in 1 .. n |-> Amount(orders'[i])]
      BY <1>2 DEF Signed, Amount
    <3>2. \A i \in 1 .. n : orders'[i] \in Order
      BY <1>2, <1>7
    <3> QED BY <3>1, <3>2, AmountType
  <2>2. Signed'[n] = Amount(order) /\ \A i \in 1 .. Len(orders) : Signed'[i] = Signed[i]
    <3> HIDE DEF n
    <3> QED BY <1>1, <1>3, <1>2, <1>5, <2>1, SignedType
  <2> HIDE DEF n
  <2> QED BY <1>5, <1>6, <2>1, <2>2, SignedType, AppendIs
<1>9. Flows' = Append(Flows, Flow(order))
  <2>1. Flows' \in [1 .. n -> Int] /\ \A i \in 1 .. n : Flows'[i] = Flow(orders'[i])
    <3>1. Flows' = [i \in 1 .. n |-> Flow(orders'[i])]
      BY <1>2 DEF Flows
    <3>2. \A i \in 1 .. n : orders'[i] \in Order
      BY <1>2, <1>7
    <3> QED BY <3>1, <3>2, AmountType
  <2>2. \A i \in DOMAIN orders : Flows[i] = Flow(orders[i])
    BY DEF Flows
  <2>3. Flows'[n] = Flow(order) /\ \A i \in 1 .. Len(orders) : Flows'[i] = Flows[i]
    <3> HIDE DEF n
    <3> QED BY <1>1, <1>3, <1>2, <1>5, <2>1, <2>2
  <2> HIDE DEF n
  <2> QED BY <1>5, <1>6, <2>1, <2>3, SignedType, AppendIs
<1> QED BY <1>1, <1>3, <1>4, <1>8, <1>9

\* An order is cancelled, or it is no longer there to be cancelled.
LEMMA CancelEffect ==
  ASSUME ExecutionTypeOK, NEW i \in DOMAIN orders, CancelOrder(i)
  PROVE  /\ SameBook /\ DOMAIN orders' = DOMAIN orders /\ Signed' = Signed /\ Flows' = Flows
         /\ InState("filled")' = InState("filled")
         /\ InState("resting")' = InState("resting") \ {i}
         /\ InState("cancelled")' = InState("cancelled") \cup ({i} \cap InState("resting"))
         /\ \A j \in DOMAIN orders : orders'[j].rested = orders[j].rested
<1>1. CASE orders[i].state # "resting"
  <2>1. orders' = orders
    BY <1>1 DEF CancelOrder
  <2>2. orders \in Seq(Order) /\ i \notin InState("resting")
    BY <1>1 DEF ExecutionTypeOK, InState
  <2> QED BY <2>1, <2>2 DEF SameBook, Signed, Flows, InState
<1>2. CASE orders[i].state = "resting"
  <2> DEFINE gone == [orders[i] EXCEPT !.state = "cancelled"]
  <2>1. orders' = [orders EXCEPT ![i] = gone]
    BY <1>2 DEF CancelOrder
  <2>2. /\ gone \in Order /\ gone.state = "cancelled" /\ gone.side = orders[i].side
        /\ gone.reduceOnly = orders[i].reduceOnly /\ gone.rested = orders[i].rested
        /\ gone.paid = orders[i].paid
    BY OrderFacts DEF Order
  <2> HIDE DEF gone
  <2>3. /\ orders' \in Seq(Order) /\ Len(orders') = Len(orders) /\ DOMAIN orders' = DOMAIN orders
        /\ orders'[i] = gone /\ \A j \in DOMAIN orders \ {i} : orders'[j] = orders[j]
    <3>1. orders \in Seq(Order)
      BY DEF ExecutionTypeOK
    <3> HIDE DEF Order
    <3> QED BY <2>1, <2>2, <3>1, OrderFacts
  <2>4. \A j \in DOMAIN orders : /\ orders'[j].side = orders[j].side
                                 /\ orders'[j].reduceOnly = orders[j].reduceOnly
                                 /\ orders'[j].rested = orders[j].rested
                                 /\ orders'[j].paid = orders[j].paid
    BY <2>2, <2>3
  <2>5. SameBook
    BY <2>3, <2>4 DEF SameBook
  <2>6. \A j \in DOMAIN orders : Flow(orders'[j]) = Flow(orders[j])
    BY <2>4 DEF Flow, Amount
  <2>7. Flows' = Flows
    BY <2>3, <2>6 DEF Flows
  <2>8. /\ InState("filled")' = InState("filled")
        /\ InState("resting")' = InState("resting") \ {i}
        /\ InState("cancelled")' = InState("cancelled") \cup ({i} \cap InState("resting"))
    BY <1>2, <2>2, <2>3 DEF InState
  <2> QED BY <2>3, <2>4, <2>5, <2>7, <2>8, SameBookFacts
<1> QED BY <1>1, <1>2

\* The resting orders that the new mid crosses are filled at their own price.
Crossed == {i \in InState("resting") : CrossesAt(orders[i].side, orders[i].px, mid)}

LEMMA PollEffect ==
  ASSUME ExecutionTypeOK, PollFills
  PROVE  /\ SameBook /\ DOMAIN orders' = DOMAIN orders /\ Signed' = Signed
         /\ InState("filled")' = InState("filled") \cup Crossed
         /\ InState("resting")' = InState("resting") \ Crossed
         /\ InState("cancelled")' = InState("cancelled")
         /\ \A i \in Crossed : orders'[i].rested
         /\ \A i \in DOMAIN orders \ Crossed : orders'[i] = orders[i]
         /\ feed' = [pc |-> "enqueue", fills |-> Crossed, tick |-> feed.tick]
<1>1. /\ orders' = [i \in DOMAIN orders |->
            IF i \in Crossed THEN FilledAt(orders[i], orders[i].px, TRUE) ELSE orders[i]]
      /\ feed' = [pc |-> "enqueue", fills |-> Crossed, tick |-> feed.tick]
  BY DEF PollFills, Crossed
<1>2. ASSUME NEW i \in DOMAIN orders
      PROVE  LET new == FilledAt(orders[i], orders[i].px, TRUE) IN
             /\ new \in Order /\ new.state = "filled" /\ new.side = orders[i].side
             /\ new.reduceOnly = orders[i].reduceOnly /\ new.rested
  BY OrderFacts DEF Order, FilledAt
<1>3. Crossed \subseteq InState("resting") /\ InState("resting") \subseteq DOMAIN orders
  BY DEF Crossed, InState
<1>4. /\ DOMAIN orders' = DOMAIN orders
      /\ \A i \in Crossed : orders'[i] = FilledAt(orders[i], orders[i].px, TRUE)
      /\ \A i \in DOMAIN orders \ Crossed : orders'[i] = orders[i]
  BY <1>1, <1>3
<1>5. orders' \in Seq(Order) /\ Len(orders') = Len(orders)
  <2>1. orders' \in [1 .. Len(orders) -> Order]
    <3> HIDE DEF Order
    <3> QED BY <1>1, <1>2, OrderFacts
  <2> HIDE DEF Order
  <2> QED BY <2>1, OrderFacts
<1>6. \A i \in DOMAIN orders : orders'[i].side = orders[i].side /\ orders'[i].reduceOnly = orders[i].reduceOnly
  BY <1>2, <1>4
<1>7. SameBook
  BY <1>5, <1>6 DEF SameBook
<1>8. \A i \in Crossed : orders'[i].state = "filled" /\ orders'[i].rested
  BY <1>2, <1>3, <1>4
<1>9. /\ InState("filled")' = InState("filled") \cup Crossed
      /\ InState("resting")' = InState("resting") \ Crossed
      /\ InState("cancelled")' = InState("cancelled")
  <2>1. \A i \in Crossed : orders[i].state = "resting" /\ i \in DOMAIN orders
    BY <1>3 DEF InState
  <2> HIDE DEF Crossed
  <2> QED BY <1>4, <1>8, <2>1 DEF InState
<1> QED BY <1>1, <1>4, <1>7, <1>8, <1>9, SameBookFacts
-----------------------------------------------------------------------------
(* The news in a queue.                                                    *)

NewsOf(event) == IF event.tag = "order_update" THEN {event.value} ELSE {}

\* Every fill in it is of an order that exists, and is in it once.
Clean(events) ==
  /\ \A k \in DOMAIN events : NewsOf(events[k]) \subseteq DOMAIN orders
  /\ \A j, k \in DOMAIN events :
       events[j].tag = "order_update" /\ events[j] = events[k] => j = k

LEMMA EventFacts ==
  /\ \A event \in Events : event.tag = "order_update" => event = Fill(event.value)
  /\ \A i : Fill(i).tag = "order_update" /\ Fill(i).value = i /\ NewsOf(Fill(i)) = {i}
  /\ \A m : Tick(m).tag = "market_data" /\ NewsOf(Tick(m)) = {}
  /\ \A m \in Mids \cup {NoMid} : Tick(m) \in Events
  /\ \A i \in 1 .. MaxOrders : Fill(i) \in Events
<1>1. \A i : Fill(i).tag = "order_update" /\ Fill(i).value = i
  BY DEF Fill
<1>2. \A m : Tick(m).tag = "market_data"
  BY DEF Tick
<1>3. (\A m \in Mids \cup {NoMid} : Tick(m) \in Events) /\ (\A i \in 1 .. MaxOrders : Fill(i) \in Events)
  BY DEF Events
<1>4. ASSUME NEW event \in Events, event.tag = "order_update" PROVE event = Fill(event.value)
  <2>1. \A m : event # Tick(m)
    BY <1>2, <1>4
  <2>2. PICK i \in 1 .. MaxOrders : event = Fill(i)
    BY <2>1 DEF Events
  <2> QED BY <1>1, <2>2
<1> QED BY <1>1, <1>2, <1>3, <1>4 DEF NewsOf

LEMMA FillsInNews ==
  ASSUME NEW q \in Seq(Events), Clean(q)
  PROVE  FillsIn(q) = UNION {NewsOf(q[k]) : k \in DOMAIN q}
<1>1. \A k \in DOMAIN q : q[k] \in Events
  <2> HIDE DEF Events
  <2> QED OBVIOUS
<1>2. ASSUME NEW i \in FillsIn(q) PROVE \E k \in DOMAIN q : i \in NewsOf(q[k])
  BY EventFacts DEF FillsIn
<1>3. ASSUME NEW k \in DOMAIN q, NEW i \in NewsOf(q[k]) PROVE i \in FillsIn(q)
  <2>1. q[k].tag = "order_update" /\ i = q[k].value /\ i \in DOMAIN orders
    BY DEF NewsOf, Clean
  <2>2. q[k] = Fill(i)
    BY <1>1, <2>1, EventFacts
  <2> QED BY <2>1, <2>2 DEF FillsIn
<1> QED BY <1>2, <1>3

LEMMA AppendNews ==
  ASSUME NEW q \in Seq(Events), NEW event \in Events, Clean(q),
         NewsOf(event) \subseteq DOMAIN orders \ FillsIn(q)
  PROVE  /\ Append(q, event) \in Seq(Events) /\ Len(Append(q, event)) = Len(q) + 1
         /\ Clean(Append(q, event))
         /\ FillsIn(Append(q, event)) = FillsIn(q) \cup NewsOf(event)
<1> DEFINE r == Append(q, event)
           n == Len(q) + 1
<1>1. /\ r \in Seq(Events) /\ Len(r) = n /\ DOMAIN q = 1 .. Len(q) /\ DOMAIN r = 1 .. n
      /\ r[n] = event /\ \A k \in DOMAIN q : r[k] = q[k] /\ q[k] \in Events
      /\ Len(q) \in Nat
  <2> HIDE DEF Events
  <2> QED OBVIOUS
<1>2. DOMAIN r = DOMAIN q \cup {n} /\ n \notin DOMAIN q
  <2> HIDE DEF r
  <2> QED BY <1>1
<1> HIDE DEF r, n
<1>3. \A k \in DOMAIN r : NewsOf(r[k]) \subseteq DOMAIN orders
  BY <1>1, <1>2 DEF Clean
<1>4. ASSUME NEW j \in DOMAIN r, NEW k \in DOMAIN r, r[j].tag = "order_update", r[j] = r[k]
      PROVE  j = k
  <2>1. ASSUME NEW l \in DOMAIN q, event.tag = "order_update" PROVE q[l] # event
    <3>1. event.value \in DOMAIN orders /\ event.value \notin FillsIn(q)
      BY <2>1 DEF NewsOf
    <3>2. event = Fill(event.value)
      BY <2>1, EventFacts
    <3> QED BY <3>1, <3>2 DEF FillsIn
  <2>2. CASE j \in DOMAIN q /\ k \in DOMAIN q
    BY <1>1, <1>4, <2>2 DEF Clean
  <2>3. CASE j = n \/ k = n
    BY <1>1, <1>2, <1>4, <2>1, <2>3
  <2> QED BY <1>2, <2>2, <2>3
<1>5. Clean(r)
  BY <1>3, <1>4 DEF Clean
<1>6. FillsIn(r) = FillsIn(q) \cup NewsOf(event)
  <2>1. ASSUME NEW i \in DOMAIN orders
        PROVE  (\E k \in DOMAIN r : r[k] = Fill(i)) <=> (\E k \in DOMAIN q : q[k] = Fill(i)) \/ event = Fill(i)
    BY <1>1, <1>2
  <2>2. \A i \in DOMAIN orders : event = Fill(i) <=> i \in NewsOf(event)
    BY EventFacts DEF NewsOf
  <2>3. NewsOf(event) \subseteq DOMAIN orders
    OBVIOUS
  <2> QED BY <2>1, <2>2, <2>3 DEF FillsIn
<1> QED BY <1>1, <1>5, <1>6 DEF r, n

LEMMA TailNews ==
  ASSUME NEW q \in Seq(Events), q # <<>>, Clean(q)
  PROVE  /\ Head(q) \in Events /\ NewsOf(Head(q)) \subseteq FillsIn(q)
         /\ Tail(q) \in Seq(Events) /\ Len(Tail(q)) = Len(q) - 1 /\ Len(q) \in Nat
         /\ Clean(Tail(q)) /\ FillsIn(Tail(q)) = FillsIn(q) \ NewsOf(Head(q))
<1> DEFINE r == Tail(q)
<1>1. /\ r \in Seq(Events) /\ Len(r) = Len(q) - 1 /\ Len(q) \in Nat /\ Len(q) > 0
      /\ DOMAIN q = 1 .. Len(q) /\ DOMAIN r = 1 .. Len(r)
      /\ Head(q) = q[1] /\ \A k \in DOMAIN q : q[k] \in Events
  <2> HIDE DEF Events
  <2> QED OBVIOUS
<1>2. \A k \in DOMAIN r : k + 1 \in DOMAIN q /\ r[k] = q[k + 1] /\ k + 1 # 1 /\ k \in Nat
  <2> HIDE DEF Events
  <2> QED BY <1>1
<1>3. \A k \in DOMAIN q : k # 1 => k - 1 \in DOMAIN r /\ r[k - 1] = q[k]
  <2> HIDE DEF Events
  <2>1. ASSUME NEW k \in DOMAIN q, k # 1 PROVE k - 1 \in DOMAIN r /\ (k - 1) + 1 = k
    <3> HIDE DEF r
    <3> QED BY <1>1, <2>1
  <2> QED BY <1>2, <2>1
<1>4. 1 \in DOMAIN q
  BY <1>1
<1> HIDE DEF r
<1>5. Clean(r)
  <2>1. \A k \in DOMAIN r : NewsOf(r[k]) \subseteq DOMAIN orders
    BY <1>2 DEF Clean
  <2>2. ASSUME NEW j \in DOMAIN r, NEW k \in DOMAIN r, r[j].tag = "order_update", r[j] = r[k]
        PROVE  j = k
    <3>1. j + 1 = k + 1
      BY <1>2, <2>2 DEF Clean
    <3> QED BY <1>2, <3>1
  <2> QED BY <2>1, <2>2 DEF Clean
<1>6. NewsOf(Head(q)) \subseteq FillsIn(q)
  BY <1>1, <1>4, FillsInNews
<1>7. FillsIn(r) = FillsIn(q) \ NewsOf(Head(q))
  <2>1. ASSUME NEW i \in FillsIn(r) PROVE i \in FillsIn(q) /\ i \notin NewsOf(Head(q))
    <3>1. PICK k \in DOMAIN r : r[k] = Fill(i) /\ i \in DOMAIN orders
      BY DEF FillsIn
    <3>2. q[k + 1] = Fill(i) /\ k + 1 \in DOMAIN q /\ k + 1 # 1
      BY <1>2, <3>1
    <3>3. i \in FillsIn(q)
      BY <3>1, <3>2 DEF FillsIn
    <3>4. q[1] # Fill(i)
      BY <1>4, <3>2, EventFacts DEF Clean
    <3>5. i \notin NewsOf(Head(q))
      BY <1>1, <1>4, <3>4, EventFacts DEF NewsOf
    <3> QED BY <3>3, <3>5
  <2>2. ASSUME NEW i \in FillsIn(q), i \notin NewsOf(Head(q)) PROVE i \in FillsIn(r)
    <3>1. PICK k \in DOMAIN q : q[k] = Fill(i) /\ i \in DOMAIN orders
      BY DEF FillsIn
    <3>2. k # 1
      BY <1>1, <2>2, <3>1, EventFacts
    <3>3. k - 1 \in DOMAIN r /\ r[k - 1] = Fill(i)
      BY <1>3, <3>1, <3>2
    <3> QED BY <3>1, <3>3 DEF FillsIn
  <2> QED BY <2>1, <2>2
<1> QED BY <1>1, <1>4, <1>5, <1>6, <1>7 DEF r

\* News stays what it is when the orders it is about still exist.
LEMMA SameNews ==
  ASSUME NEW q \in Seq(Events), Clean(q), DOMAIN orders \subseteq DOMAIN orders'
  PROVE  /\ \A k \in DOMAIN q : NewsOf(q[k]) \subseteq DOMAIN orders'
         /\ {i \in DOMAIN orders' : \E k \in DOMAIN q : q[k] = Fill(i)} = FillsIn(q)
<1>1. \A k \in DOMAIN q : NewsOf(q[k]) \subseteq DOMAIN orders
  BY DEF Clean
<1>2. \A k \in DOMAIN q : \A i : q[k] = Fill(i) => i \in DOMAIN orders
  BY <1>1, EventFacts
<1> QED BY <1>1, <1>2 DEF FillsIn
-----------------------------------------------------------------------------
(* The invariant of the feed, the orders and the queue, for any strategy.  *)
(* A fill is announced once: it is still with the feed, or in the queue,   *)
(* or it has been taken out of it or was given up.                         *)

Announced(i) == i \in InState("filled") /\ orders[i].rested /\ i \notin evicted

NewsInv ==
  /\ \A i \in OnTheWay : Announced(i)
  /\ feed.fills \cap FillsIn(queue) = {}
  /\ Clean(queue)
  /\ evicted \subseteq InState("filled")
  /\ feed.pc \in {"idle", "poll"} => feed.fills = {}

PnlInv == Pnl = earned

ExecInv == ExecutionTypeOK /\ NewsInv /\ PnlInv

FeedStates == [pc : {"idle", "poll", "enqueue", "evict"},
               fills : SUBSET (1 .. MaxOrders), tick : Mids \cup {NoMid}]

LEMMA FeedFacts ==
  ASSUME ExecutionTypeOK
  PROVE  /\ feed \in FeedStates /\ feed.fills \subseteq 1 .. MaxOrders /\ feed.tick \in Mids \cup {NoMid}
         /\ feed.fills # {} => NextFill \in feed.fills
         /\ queue \in Seq(Events) /\ Len(queue) \in Nat /\ Len(queue) <= QueueMax
         /\ mid \in Mids \cup {NoMid} /\ mid \in Int /\ earned \in Int
         /\ Len(orders) <= MaxOrders /\ DOMAIN orders \subseteq 1 .. MaxOrders
<1>1. /\ feed \in FeedStates /\ queue \in Seq(Events) /\ Len(queue) <= QueueMax
      /\ mid \in Mids \cup {NoMid} /\ earned \in Int /\ Len(orders) <= MaxOrders
  BY DEF ExecutionTypeOK, FeedStates
<1>2. feed.fills \subseteq 1 .. MaxOrders /\ feed.tick \in Mids \cup {NoMid}
  BY <1>1 DEF FeedStates
<1>3. feed.fills # {} => NextFill \in feed.fills
  BY <1>2, NextFillIsOne DEF NextFill
<1>4. mid \in Int
  BY <1>1, ExecutionAssumption DEF NoMid
<1>5. Len(queue) \in Nat
  BY <1>1
<1>6. DOMAIN orders \subseteq 1 .. MaxOrders
  BY <1>1, OrderFacts, ExecutionAssumption
<1> QED BY <1>1, <1>2, <1>3, <1>4, <1>5, <1>6

LEMMA FilledExist == InState("filled") \subseteq DOMAIN orders /\ InState("resting") \subseteq DOMAIN orders
BY DEF InState

\* What the books say, in terms of the sums.
LEMMA PnlFacts ==
  ASSUME ExecutionTypeOK
  PROVE  /\ SumOf(Flows, Recorded) \in Int /\ SumOf(Signed, Recorded) \in Int
         /\ Pnl = SumOf(Flows, Recorded) + SumOf(Signed, Recorded) * mid
         /\ Position = SumOf(Signed, Recorded)
         /\ Recorded \subseteq DOMAIN orders
BY SignedType, SumType, FilledExist DEF Pnl, Position, Recorded

\* The books do not change, whatever happens to orders they do not count.
LEMMA PnlStays ==
  ASSUME ExecutionTypeOK, ExecutionTypeOK', PnlInv,
         Recorded' = Recorded, mid' = mid, earned' = earned,
         SumOf(Flows, Recorded)' = SumOf(Flows, Recorded),
         SumOf(Signed, Recorded)' = SumOf(Signed, Recorded)
  PROVE  PnlInv'
<1>1. (ExecutionTypeOK => Pnl = SumOf(Flows, Recorded) + SumOf(Signed, Recorded) * mid)'
  BY PnlFacts, PTL
<1> QED BY <1>1, PnlFacts DEF PnlInv

LEMMA MoveArithmetic ==
  ASSUME NEW c \in Int, NEW p \in Int, NEW m \in Int, NEW n \in Int
  PROVE  (c + p * m) + p * (n - m) = c + p * n
OBVIOUS

LEMMA FillArithmetic ==
  ASSUME NEW c \in Int, NEW p \in Int, NEW m \in Int, NEW z \in Int, NEW x \in Int
  PROVE  (c + -z * x) + (p + z) * m = (c + p * m) + z * (m - x)
OBVIOUS

\* The mid moves under an unchanged position.
LEMMA PnlMoves ==
  ASSUME ExecutionTypeOK, PnlInv, NEW m \in Mids, mid' = m, UNCHANGED orders,
         Recorded' = Recorded, earned' = earned + Position * (m - mid)
  PROVE  PnlInv'
<1>1. Signed' = Signed /\ Flows' = Flows
  BY DEF Signed, Flows
<1>2. Cash' = SumOf(Flows, Recorded)' /\ Position' = SumOf(Signed, Recorded)'
  <2>1. Flows = [i \in DOMAIN orders |-> -Signed[i] * orders[i].paid]
    BY SignedType DEF Flows
  <2>2. Cash' = SumOf([i \in DOMAIN orders |-> -Signed[i] * orders[i].paid], Recorded')
    BY <1>1 DEF Cash
  <2> QED BY <1>1, <2>1, <2>2 DEF Position
<1>3. Pnl' = SumOf(Flows, Recorded) + SumOf(Signed, Recorded) * m
  BY <1>1, <1>2 DEF Pnl
<1>4. m \in Int /\ mid \in Int
  BY ExecutionAssumption, FeedFacts
<1> QED BY <1>3, <1>4, PnlFacts, MoveArithmetic DEF PnlInv

\* A fill reaches the store.
LEMMA PnlRecords ==
  ASSUME ExecutionTypeOK, ExecutionTypeOK', PnlInv, UNCHANGED <<orders, mid>>,
         NEW i \in DOMAIN orders, i \notin Recorded, Recorded' = Recorded \cup {i},
         earned' = earned + Signed[i] * (mid - orders[i].paid)
  PROVE  PnlInv'
<1>1. Signed' = Signed /\ Flows' = Flows
  BY DEF Signed, Flows
<1>2. i \in 1 .. Len(Signed) /\ i \in 1 .. Len(Flows)
  BY OrderFacts, SignedType
<1>3. /\ SumOf(Signed, Recorded') = SumOf(Signed, Recorded) + Signed[i]
      /\ SumOf(Flows, Recorded') = SumOf(Flows, Recorded) + Flows[i]
  BY <1>2, SignedType, SumAddOne
<1>4. Flows[i] = -Signed[i] * orders[i].paid /\ Signed[i] \in Int /\ orders[i].paid \in Int
  BY SignedType, OrderFacts DEF Order
<1>5. (ExecutionTypeOK => Pnl = SumOf(Flows, Recorded) + SumOf(Signed, Recorded) * mid)'
  BY PnlFacts, PTL
<1> DEFINE c == SumOf(Flows, Recorded)
           p == SumOf(Signed, Recorded)
           z == Signed[i]
           x == orders[i].paid
<1>6. Pnl' = (c + -z * x) + (p + z) * mid
  BY <1>1, <1>3, <1>4, <1>5
<1>7. Pnl = c + p * mid /\ c \in Int /\ p \in Int /\ mid \in Int /\ z \in Int /\ x \in Int
  BY <1>4, PnlFacts, FeedFacts
<1>8. earned' = Pnl + z * (mid - x)
  BY DEF PnlInv
<1> HIDE DEF c, p, z, x
<1>9. (c + -z * x) + (p + z) * mid = (c + p * mid) + z * (mid - x)
  BY <1>7, FillArithmetic
<1> QED BY <1>6, <1>7, <1>8, <1>9 DEF PnlInv

\* An order is filled where it is placed, at the mid.
LEMMA PnlPlaced ==
  ASSUME ExecutionTypeOK, ExecutionTypeOK', PnlInv, NEW order \in Order, order.paid = mid,
         orders' = Append(orders, order), mid' = mid, earned' = earned,
         Recorded' = Recorded \cup {Fresh}
  PROVE  PnlInv'
<1>1. Signed' = Append(Signed, Amount(order)) /\ Flows' = Append(Flows, Flow(order))
      /\ Fresh \notin DOMAIN orders
  BY AppendEffect
<1>2. Fresh \notin Recorded /\ Fresh = Len(Signed) + 1 /\ Fresh = Len(Flows) + 1
  BY <1>1, PnlFacts, SignedType DEF Fresh
<1>3. Amount(order) \in Int /\ Flow(order) \in Int /\ Flow(order) = -Amount(order) * mid
  BY AmountType DEF Flow
<1>4. /\ SumOf(Signed', Recorded') = SumOf(Signed, Recorded) + Amount(order)
      /\ SumOf(Flows', Recorded') = SumOf(Flows, Recorded) + Flow(order)
  <2>1. Signed \in Seq(Int) /\ Len(Signed) + 1 \notin Recorded
    BY <1>2, SignedType
  <2>2. SumOf(Append(Signed, Amount(order)), Recorded \cup {Len(Signed) + 1})
          = SumOf(Signed, Recorded) + Amount(order)
    <3> DEFINE f == Signed
               x == Amount(order)
               S == Recorded
    <3>1. f \in Seq(Int) /\ x \in Int /\ Len(f) + 1 \notin S
      BY <1>3, <2>1
    <3> HIDE DEF f, x, S
    <3>2. SumOf(Append(f, x), S \cup {Len(f) + 1}) = SumOf(f, S) + x
      BY <3>1, SumOfAppend
    <3> QED BY <3>2 DEF f, x, S
  <2>3. Flows \in Seq(Int) /\ Len(Flows) + 1 \notin Recorded
    BY <1>2, SignedType
  <2>4. SumOf(Append(Flows, Flow(order)), Recorded \cup {Len(Flows) + 1})
          = SumOf(Flows, Recorded) + Flow(order)
    <3> DEFINE f == Flows
               x == Flow(order)
               S == Recorded
    <3>1. f \in Seq(Int) /\ x \in Int /\ Len(f) + 1 \notin S
      BY <1>3, <2>3
    <3> HIDE DEF f, x, S
    <3>2. SumOf(Append(f, x), S \cup {Len(f) + 1}) = SumOf(f, S) + x
      BY <3>1, SumOfAppend
    <3> QED BY <3>2 DEF f, x, S
  <2> QED BY <1>1, <1>2, <2>2, <2>4
<1>5. (ExecutionTypeOK => Pnl = SumOf(Flows, Recorded) + SumOf(Signed, Recorded) * mid)'
  BY PnlFacts, PTL
<1> DEFINE c == SumOf(Flows, Recorded)
           p == SumOf(Signed, Recorded)
           z == Amount(order)
<1>6. Pnl' = (c + -z * mid) + (p + z) * mid
  BY <1>3, <1>4, <1>5
<1>7. Pnl = c + p * mid /\ c \in Int /\ p \in Int /\ mid \in Int /\ z \in Int
  BY <1>3, PnlFacts, FeedFacts
<1> HIDE DEF c, p, z
<1>8. (c + -z * mid) + (p + z) * mid = (c + p * mid) + z * (mid - mid)
  BY <1>7, FillArithmetic
<1>9. z * (mid - mid) = 0
  BY <1>7
<1> QED BY <1>6, <1>7, <1>8, <1>9 DEF PnlInv
-----------------------------------------------------------------------------
(* The feed thread's steps.                                                *)

\* What a step of the feed means to a strategy: the orders of X are filled, and
\* their news is on its way, or some older news is given up.
FillsNow(X) ==
  /\ X \subseteq InState("resting") /\ SameBook /\ DOMAIN orders' = DOMAIN orders /\ Signed' = Signed
  /\ InState("filled")' = InState("filled") \cup X
  /\ InState("resting")' = InState("resting") \ X
  /\ InState("cancelled")' = InState("cancelled")
  /\ \A i \in DOMAIN orders \ X : orders'[i].rested = orders[i].rested
  /\ \A i \in X : orders'[i].rested
  /\ OnTheWay' \cup evicted' = OnTheWay \cup evicted \cup X
  /\ OnTheWay' \subseteq OnTheWay \cup X

LEMMA SameOrders ==
  ASSUME ExecutionTypeOK, UNCHANGED orders
  PROVE  /\ SameBook /\ DOMAIN orders' = DOMAIN orders /\ Signed' = Signed /\ Flows' = Flows
         /\ \A s : InState(s)' = InState(s)
         /\ \A q : Clean(q)' <=> Clean(q)
BY DEF SameBook, Signed, Flows, InState, Clean, ExecutionTypeOK

LEMMA FeedRecords ==
  /\ \A pc, fills, tick : LET f == [pc |-> pc, fills |-> fills, tick |-> tick] IN
       f.pc = pc /\ f.fills = fills /\ f.tick = tick
  /\ \A pc \in {"idle", "poll", "enqueue", "evict"}, fills \in SUBSET (1 .. MaxOrders),
        tick \in Mids \cup {NoMid} : [pc |-> pc, fills |-> fills, tick |-> tick] \in FeedStates
  /\ FeedIdle \in FeedStates /\ FeedIdle.pc = "idle" /\ FeedIdle.fills = {}
BY DEF FeedStates, FeedIdle

\* The fills the store has yet to record.
LEMMA UnrecordedFacts ==
  /\ feed.pc # "evict" => Unrecorded = feed.fills
  /\ feed.fills = {} => Unrecorded = {}
  /\ feed.pc = "evict" /\ feed.fills # {} => Unrecorded = feed.fills \ {NextFill}
BY DEF Unrecorded

\* A tick moves the mid and fills nothing yet.
LEMMA UpdateInv ==
  ASSUME ExecInv, NEW m \in Mids \cup {NoMid}, Update(m)
  PROVE  ExecInv' /\ FillsNow({})
<1>1. /\ ExecutionTypeOK /\ NewsInv /\ PnlInv /\ UNCHANGED <<orders, queue, evicted>>
      /\ feed.fills = {} /\ ticks' \in 0 .. MaxTicks
  BY FeedRecords, ExecutionAssumption DEF ExecInv, Update, ExecutionTypeOK
<1>2. /\ feed' \in FeedStates /\ feed'.fills = {}
      /\ mid' \in Mids \cup {NoMid}
      /\ UNCHANGED <<mid, earned>> \/ (mid' = m /\ m \in Mids /\ earned' = earned + Position * (m - mid))
  <2>1. CASE m = NoMid
    <3>1. feed' = [pc |-> "enqueue", fills |-> {}, tick |-> NoMid] /\ UNCHANGED <<mid, earned>>
      BY <2>1 DEF Update
    <3>2. feed' \in FeedStates /\ feed'.fills = {}
      BY <3>1, FeedRecords
    <3> QED BY <1>1, <3>1, <3>2, FeedFacts
  <2>2. CASE m # NoMid
    <3>1. /\ feed' = [pc |-> "poll", fills |-> {}, tick |-> m]
          /\ mid' = m /\ m \in Mids /\ earned' = earned + Position * (m - mid)
      BY <2>2 DEF Update
    <3>2. feed' \in FeedStates /\ feed'.fills = {}
      BY <3>1, FeedRecords
    <3> QED BY <3>1, <3>2
  <2> QED BY <2>1, <2>2
<1>3. earned' \in Int
  <2>1. Position \in Int /\ mid \in Int /\ m \in Int /\ earned \in Int
    BY <1>1, PnlFacts, FeedFacts, ExecutionAssumption DEF NoMid
  <2>2. \A p, a, b, e \in Int : e + p * (a - b) \in Int
    OBVIOUS
  <2> QED BY <1>2, <2>1, <2>2
<1>4. ExecutionTypeOK'
  BY <1>1, <1>2, <1>3 DEF ExecutionTypeOK, FeedStates
<1>5. /\ \A s : InState(s)' = InState(s)
      /\ FillsIn(queue)' = FillsIn(queue) /\ OnTheWay' = OnTheWay
      /\ Clean(queue)'
  BY <1>1, <1>2 DEF InState, FillsIn, OnTheWay, NewsInv, Clean
<1>6. NewsInv'
  BY <1>1, <1>2, <1>5 DEF NewsInv, Announced
<1>7. Recorded' = Recorded
  <2>1. (feed.fills = {} => Unrecorded = {})'
    BY UnrecordedFacts, PTL
  <2> QED BY <1>1, <1>2, <1>5, <2>1, UnrecordedFacts DEF Recorded
<1>8. PnlInv'
  <2>1. CASE UNCHANGED <<mid, earned>>
    BY <1>1, <1>4, <1>7, <2>1, SameOrders, PnlStays
  <2>2. CASE mid' = m /\ m \in Mids /\ earned' = earned + Position * (m - mid)
    BY <1>1, <1>7, <2>2, PnlMoves
  <2> QED BY <1>2, <2>1, <2>2
<1>9. FillsNow({})
  BY <1>1, <1>5, SameOrders DEF FillsNow
<1> QED BY <1>4, <1>6, <1>8, <1>9 DEF ExecInv

\* poll_fills fills what the mid crosses, and has yet to tell of it.
LEMMA PollInv ==
  ASSUME ExecInv, PollFills
  PROVE  ExecInv' /\ FillsNow(Crossed)
<1>1. /\ ExecutionTypeOK /\ NewsInv /\ PnlInv /\ UNCHANGED <<mid, queue, ticks, evicted, earned>>
      /\ feed.pc = "poll" /\ feed.fills = {}
  BY DEF ExecInv, PollFills, NewsInv
<1>2. /\ SameBook /\ DOMAIN orders' = DOMAIN orders /\ Signed' = Signed
      /\ InState("filled")' = InState("filled") \cup Crossed
      /\ InState("resting")' = InState("resting") \ Crossed
      /\ InState("cancelled")' = InState("cancelled")
      /\ \A i \in Crossed : orders'[i].rested
      /\ \A i \in DOMAIN orders \ Crossed : orders'[i] = orders[i]
  BY <1>1, PollEffect
<1>3. feed' \in FeedStates /\ feed'.fills = Crossed /\ feed'.pc = "enqueue"
  <2>1. Crossed \in SUBSET (1 .. MaxOrders) /\ feed.tick \in Mids \cup {NoMid}
    BY <1>1, FilledExist, FeedFacts DEF Crossed
  <2>2. feed' = [pc |-> "enqueue", fills |-> Crossed, tick |-> feed.tick]
    BY <1>1, PollEffect
  <2> HIDE DEF Crossed
  <2> QED BY <2>1, <2>2, FeedRecords
<1>4. ExecutionTypeOK'
  BY <1>1, <1>2, <1>3 DEF ExecutionTypeOK, FeedStates, SameBook
<1>5. /\ Crossed \subseteq InState("resting") /\ InState("resting") \cap InState("filled") = {}
      /\ Crossed \subseteq DOMAIN orders
  BY FilledExist DEF Crossed, InState
<1>6. FillsIn(queue)' = FillsIn(queue) /\ OnTheWay' = OnTheWay \cup Crossed /\ Clean(queue)'
  BY <1>1, <1>2, <1>3 DEF FillsIn, OnTheWay, NewsInv, Clean
<1> HIDE DEF Crossed
<1>7. NewsInv'
  <2>1. \A i \in OnTheWay' : Announced(i)'
    <3>1. ASSUME NEW i \in Crossed PROVE Announced(i)'
      BY <1>1, <1>2, <1>5 DEF NewsInv, Announced
    <3>2. ASSUME NEW i \in OnTheWay, i \notin Crossed PROVE Announced(i)'
      BY <1>1, <1>2, <3>2, FilledExist DEF NewsInv, Announced
    <3> QED BY <1>6, <3>1, <3>2
  <2>2. Crossed \cap FillsIn(queue) = {}
    BY <1>1, <1>5 DEF NewsInv, Announced, OnTheWay
  <2> QED BY <1>1, <1>2, <1>3, <1>6, <2>1, <2>2 DEF NewsInv
<1>8. Recorded' = Recorded
  <2>1. (feed.pc # "evict" => Unrecorded = feed.fills)'
    BY UnrecordedFacts, PTL
  <2> QED BY <1>1, <1>2, <1>3, <1>5, <2>1, UnrecordedFacts DEF Recorded
<1>9. PnlInv'
  <2>1. \A i \in 1 .. Len(orders) : i \in Recorded => Flows'[i] = Flows[i]
    BY <1>1, <1>2, <1>5, OrderFacts DEF Flows, Recorded
  <2>2. (ExecutionTypeOK => Flows \in Seq(Int) /\ Len(Flows) = Len(orders))'
    BY SignedType, PTL
  <2>3. SumOf(Flows, Recorded)' = SumOf(Flows, Recorded)
    <3>1. Len(Flows') = Len(Flows) /\ Flows' \in Seq(Int) /\ Flows \in Seq(Int) /\ Len(Flows) = Len(orders)
      BY <1>1, <1>2, <1>4, <2>2, SignedType DEF SameBook
    <3>2. SumOf(Flows, Recorded) = SumOf(Flows', Recorded)
      BY <2>1, <3>1, SumAgrees
    <3> QED BY <1>8, <3>2
  <2> QED BY <1>1, <1>2, <1>4, <1>8, <2>3, PnlStays
<1>10. FillsNow(Crossed)
  BY <1>1, <1>2, <1>5, <1>6 DEF FillsNow
<1> QED BY <1>4, <1>7, <1>9, <1>10 DEF ExecInv

\* What is enqueued next, and where the feed is after that.
LEMMA EventOfFeed ==
  ASSUME ExecutionTypeOK
  PROVE  /\ Event \in Events /\ NewsOf(Event) \subseteq feed.fills
         /\ feed.fills = {} => NewsOf(Event) = {}
         /\ feed.fills # {} => NewsOf(Event) = {NextFill}
         /\ Brought \in FeedStates /\ Brought.pc \in {"idle", "enqueue"}
         /\ Brought.fills = feed.fills \ NewsOf(Event)
         /\ Brought.pc = "idle" => Brought.fills = {}
<1>1. CASE feed.fills = {}
  <2>1. Event = Tick(feed.tick) /\ Brought = FeedIdle
    BY <1>1 DEF Event, Brought
  <2> QED BY <1>1, <2>1, FeedFacts, EventFacts, FeedRecords
<1>2. CASE feed.fills # {}
  <2>1. /\ Event = Fill(NextFill)
        /\ Brought = [pc |-> "enqueue", fills |-> feed.fills \ {NextFill}, tick |-> feed.tick]
    BY <1>2 DEF Event, Brought
  <2>2. /\ NextFill \in 1 .. MaxOrders /\ feed.fills \ {NextFill} \in SUBSET (1 .. MaxOrders)
        /\ NextFill \in feed.fills /\ feed.tick \in Mids \cup {NoMid}
    BY <1>2, FeedFacts
  <2>3. Event \in Events /\ NewsOf(Event) = {NextFill}
    BY <2>1, <2>2, EventFacts
  <2>4. Brought \in FeedStates /\ Brought.pc = "enqueue" /\ Brought.fills = feed.fills \ {NextFill}
    BY <2>1, <2>2, FeedRecords
  <2> QED BY <1>2, <2>2, <2>3, <2>4
<1> QED BY <1>1, <1>2

LEMMA EvictState ==
  ASSUME ExecutionTypeOK
  PROVE  LET f == [feed EXCEPT !.pc = "evict"] IN
         f \in FeedStates /\ f.pc = "evict" /\ f.fills = feed.fills
BY FeedFacts DEF FeedStates

\* The fill that Enqueue persists is the one the feed brings next.
LEMMA RecordedAtEnqueue ==
  ASSUME ExecInv, Enqueue, DOMAIN orders' = DOMAIN orders, InState("filled")' = InState("filled"),
         \/ feed' = Brought
         \/ feed' = [feed EXCEPT !.pc = "evict"]
  PROVE  /\ feed.fills = {} => Recorded' = Recorded
         /\ feed.fills # {} => /\ NextFill \in DOMAIN orders \ Recorded
                               /\ Recorded' = Recorded \cup {NextFill}
<1>1. ExecutionTypeOK /\ NewsInv /\ feed.pc = "enqueue"
  BY DEF ExecInv, Enqueue
<1>2. (/\ feed.pc # "evict" => Unrecorded = feed.fills
       /\ feed.fills = {} => Unrecorded = {}
       /\ feed.pc = "evict" /\ feed.fills # {} => Unrecorded = feed.fills \ {NextFill})'
  BY UnrecordedFacts, PTL
<1>3. Unrecorded = feed.fills
  BY <1>1, UnrecordedFacts
<1>4. feed.fills \subseteq InState("filled") /\ InState("filled") \subseteq DOMAIN orders
  BY <1>1, FilledExist DEF NewsInv, OnTheWay, Announced
<1>5. CASE feed.fills = {}
  <2>1. feed'.fills = {}
    <3>1. Brought.fills = {}
      BY <1>1, <1>5, EventOfFeed
    <3>2. [feed EXCEPT !.pc = "evict"].fills = {}
      BY <1>1, <1>5, EvictState
    <3> QED BY <3>1, <3>2
  <2> QED BY <1>2, <1>3, <1>5, <2>1 DEF Recorded
<1>6. CASE feed.fills # {}
  <2>1. NextFill \in feed.fills
    BY <1>1, <1>6, FeedFacts
  <2>2. Unrecorded' = feed.fills \ {NextFill}
    <3>1. CASE feed' = Brought
      <4>1. Brought.pc \in {"idle", "enqueue"} /\ Brought.fills = feed.fills \ {NextFill}
        BY <1>1, <1>6, EventOfFeed
      <4> QED BY <1>2, <3>1, <4>1
    <3>2. CASE feed' = [feed EXCEPT !.pc = "evict"]
      <4>1. feed'.pc = "evict" /\ feed'.fills = feed.fills
        BY <1>1, <3>2, EvictState
      <4>2. NextFill' = NextFill
        BY <4>1 DEF NextFill
      <4> QED BY <1>2, <1>6, <4>1, <4>2
    <3> QED BY <3>1, <3>2
  <2> QED BY <1>3, <1>4, <1>6, <2>1, <2>2 DEF Recorded
<1> QED BY <1>5, <1>6

\* A fill is recorded, and told if there is room.
LEMMA EnqueueInv ==
  ASSUME ExecInv, Enqueue
  PROVE  ExecInv' /\ FillsNow({})
<1>1. /\ ExecutionTypeOK /\ NewsInv /\ PnlInv /\ UNCHANGED <<mid, orders, ticks, evicted>>
      /\ feed.pc = "enqueue"
      /\ earned' = earned + IF feed.fills = {} THEN 0
                            ELSE Signed[NextFill] * (mid - orders[NextFill].paid)
      /\ \/ HasRoom /\ queue' = Append(queue, Event) /\ feed' = Brought
         \/ ~HasRoom /\ feed' = [feed EXCEPT !.pc = "evict"] /\ UNCHANGED queue
  BY DEF ExecInv, Enqueue
<1>2. /\ SameBook /\ DOMAIN orders' = DOMAIN orders /\ Signed' = Signed /\ Flows' = Flows
      /\ \A s : InState(s)' = InState(s)
      /\ \A q : Clean(q)' <=> Clean(q)
  BY <1>1, SameOrders
<1>3. /\ feed.fills = {} => Recorded' = Recorded
      /\ feed.fills # {} => /\ NextFill \in DOMAIN orders \ Recorded
                            /\ Recorded' = Recorded \cup {NextFill}
  BY <1>1, <1>2, RecordedAtEnqueue
<1>4. earned' \in Int
  <2>1. CASE feed.fills = {}
    BY <1>1, <2>1, FeedFacts
  <2>2. CASE feed.fills # {}
    <3>1. Signed[NextFill] \in Int /\ orders[NextFill].paid \in Int /\ mid \in Int /\ earned \in Int
      BY <1>1, <1>3, <2>2, SignedType, OrderFacts, FeedFacts DEF Order
    <3>2. \A z, a, b, e \in Int : e + z * (a - b) \in Int
      OBVIOUS
    <3> QED BY <1>1, <2>2, <3>1, <3>2
  <2> QED BY <2>1, <2>2
<1>5. feed.fills \subseteq DOMAIN orders \ FillsIn(queue)
  BY <1>1, FilledExist DEF NewsInv, OnTheWay, Announced
<1>6. /\ feed' \in FeedStates /\ feed'.pc \in {"enqueue", "idle", "evict"}
      /\ feed'.pc = "idle" => feed'.fills = {}
      /\ queue' \in Seq(Events) /\ Len(queue') <= QueueMax /\ Clean(queue')
      /\ feed'.fills \cup FillsIn(queue') = OnTheWay /\ feed'.fills \cap FillsIn(queue') = {}
  <2>1. CASE HasRoom /\ queue' = Append(queue, Event) /\ feed' = Brought
    <3>1. /\ Event \in Events /\ NewsOf(Event) \subseteq feed.fills
          /\ Brought \in FeedStates /\ Brought.pc \in {"idle", "enqueue"}
          /\ Brought.fills = feed.fills \ NewsOf(Event)
          /\ Brought.pc = "idle" => Brought.fills = {}
      BY <1>1, EventOfFeed
    <3>2. queue \in Seq(Events) /\ Clean(queue) /\ Len(queue) \in Nat
      BY <1>1, FeedFacts DEF NewsInv
    <3>3. /\ queue' \in Seq(Events) /\ Len(queue') = Len(queue) + 1 /\ Clean(queue')
          /\ FillsIn(queue') = FillsIn(queue) \cup NewsOf(Event)
      <4>1. NewsOf(Event) \subseteq DOMAIN orders \ FillsIn(queue)
        BY <1>5, <3>1
      <4> DEFINE q == queue
                 e == Event
      <4>2. /\ q \in Seq(Events) /\ e \in Events /\ Clean(q)
            /\ NewsOf(e) \subseteq DOMAIN orders \ FillsIn(q) /\ queue' = Append(q, e)
        BY <2>1, <3>1, <3>2, <4>1
      <4> HIDE DEF q, e, Events
      <4>3. /\ queue' \in Seq(Events) /\ Len(queue') = Len(q) + 1 /\ Clean(queue')
            /\ FillsIn(queue') = FillsIn(q) \cup NewsOf(e)
        BY <4>2, AppendNews
      <4> QED BY <4>3 DEF q, e
    <3>4. Len(queue') <= QueueMax
      BY <2>1, <3>2, <3>3, ExecutionAssumption DEF HasRoom
    <3>5. feed'.fills \cap FillsIn(queue') = {}
      BY <1>5, <2>1, <3>1, <3>3
    <3>6. feed'.fills \cup FillsIn(queue') = OnTheWay
      BY <2>1, <3>1, <3>3 DEF OnTheWay
    <3> QED BY <2>1, <3>1, <3>3, <3>4, <3>5, <3>6
  <2>2. CASE ~HasRoom /\ feed' = [feed EXCEPT !.pc = "evict"] /\ UNCHANGED queue
    <3>1. feed' \in FeedStates /\ feed'.pc = "evict" /\ feed'.fills = feed.fills
      BY <1>1, <2>2, EvictState
    <3> QED BY <1>1, <1>5, <2>2, <3>1, FeedFacts DEF NewsInv, OnTheWay
  <2> QED BY <1>1, <2>1, <2>2
<1>7. ExecutionTypeOK'
  BY <1>1, <1>2, <1>4, <1>6 DEF ExecutionTypeOK, FeedStates, SameBook
<1>8. FillsIn(queue)' = FillsIn(queue') /\ Clean(queue)' /\ OnTheWay' = OnTheWay
  <2>1. FillsIn(queue)' = FillsIn(queue')
    BY <1>2, <1>1 DEF FillsIn
  <2>2. Clean(queue)'
    BY <1>1, <1>6 DEF Clean
  <2> QED BY <1>6, <2>1, <2>2 DEF OnTheWay
<1>9. NewsInv'
  BY <1>1, <1>2, <1>6, <1>8 DEF NewsInv, Announced
<1>10. PnlInv'
  <2>1. CASE feed.fills = {}
    <3>1. earned' = earned
      BY <1>1, <2>1, FeedFacts
    <3> QED BY <1>1, <1>2, <1>3, <1>7, <2>1, <3>1, PnlStays
  <2>2. CASE feed.fills # {}
    BY <1>1, <1>3, <1>7, <2>2, PnlRecords
  <2> QED BY <2>1, <2>2
<1>11. FillsNow({})
  BY <1>1, <1>2, <1>8 DEF FillsNow
<1> QED BY <1>7, <1>9, <1>10, <1>11 DEF ExecInv

\* The oldest event is given up, and its fill will never be heard of.
LEMMA EvictInv ==
  ASSUME ExecInv, EvictOldest
  PROVE  ExecInv' /\ FillsNow({})
<1> DEFINE gone == IF queue = <<>> THEN <<>> ELSE <<Head(queue)>>
           rest == IF queue = <<>> THEN <<>> ELSE Tail(queue)
           news == IF queue = <<>> THEN {} ELSE NewsOf(Head(queue))
<1>1. /\ ExecutionTypeOK /\ NewsInv /\ PnlInv /\ UNCHANGED <<mid, orders, ticks, earned>>
      /\ feed.pc = "evict" /\ queue' = Append(rest, Event)
      /\ evicted' = evicted \cup FillsIn(gone) /\ feed' = Brought
  BY DEF ExecInv, EvictOldest
<1>2. /\ SameBook /\ DOMAIN orders' = DOMAIN orders /\ Signed' = Signed /\ Flows' = Flows
      /\ \A s : InState(s)' = InState(s)
      /\ \A q : Clean(q)' <=> Clean(q)
  BY <1>1, SameOrders
<1>3. feed.fills \subseteq DOMAIN orders \ FillsIn(queue)
  BY <1>1, FilledExist DEF NewsInv, OnTheWay, Announced
<1>4. /\ Event \in Events /\ NewsOf(Event) \subseteq feed.fills
      /\ Brought \in FeedStates /\ Brought.pc \in {"idle", "enqueue"}
      /\ Brought.fills = feed.fills \ NewsOf(Event)
      /\ Brought.pc = "idle" => Brought.fills = {}
      /\ feed.fills = {} => NewsOf(Event) = {}
      /\ feed.fills # {} => NewsOf(Event) = {NextFill}
  BY <1>1, EventOfFeed
<1>5. /\ rest \in Seq(Events) /\ Len(rest) + 1 <= QueueMax /\ Clean(rest)
      /\ FillsIn(rest) = FillsIn(queue) \ news /\ FillsIn(gone) = news /\ news \subseteq FillsIn(queue)
  <2>1. CASE queue = <<>>
    <3>1. <<>> \in Seq(Events) /\ Len(<<>>) + 1 <= QueueMax
      BY ExecutionAssumption
    <3>2. Clean(<<>>) /\ FillsIn(<<>>) = {}
      BY DEF Clean, FillsIn
    <3> QED BY <2>1, <3>1, <3>2
  <2>2. CASE queue # <<>>
    <3>1. queue \in Seq(Events) /\ Clean(queue) /\ Len(queue) <= QueueMax
      BY <1>1, FeedFacts DEF NewsInv
    <3>2. /\ Head(queue) \in Events /\ NewsOf(Head(queue)) \subseteq FillsIn(queue)
          /\ Tail(queue) \in Seq(Events) /\ Len(Tail(queue)) = Len(queue) - 1 /\ Len(queue) \in Nat
          /\ Clean(Tail(queue)) /\ FillsIn(Tail(queue)) = FillsIn(queue) \ NewsOf(Head(queue))
      BY <2>2, <3>1, TailNews
    <3>3. FillsIn(<<Head(queue)>>) = NewsOf(Head(queue))
      <4> DEFINE e == Head(queue)
      <4>1. FillsIn(<<e>>) = {i \in DOMAIN orders : e = Fill(i)}
        BY DEF FillsIn
      <4>2. NewsOf(e) \subseteq DOMAIN orders /\ e \in Events
        BY <3>2 DEF FillsIn
      <4> HIDE DEF e
      <4>3. \A i : e = Fill(i) <=> i \in NewsOf(e)
        BY <4>2, EventFacts DEF NewsOf
      <4>4. FillsIn(<<e>>) = NewsOf(e)
        BY <4>1, <4>2, <4>3
      <4> QED BY <4>4 DEF e
    <3>4. rest = Tail(queue) /\ gone = <<Head(queue)>> /\ news = NewsOf(Head(queue))
      BY <2>2
    <3>5. Len(rest) + 1 <= QueueMax
      BY <3>1, <3>2, <3>4, ExecutionAssumption
    <3> HIDE DEF rest, gone, news
    <3> QED BY <3>2, <3>3, <3>4, <3>5
  <2> QED BY <2>1, <2>2
<1> HIDE DEF gone, rest, news
<1>6. /\ queue' \in Seq(Events) /\ Len(queue') <= QueueMax /\ Clean(queue')
      /\ FillsIn(queue') = FillsIn(rest) \cup NewsOf(Event)
  <2>1. NewsOf(Event) \subseteq DOMAIN orders \ FillsIn(rest)
    BY <1>3, <1>4, <1>5
  <2> DEFINE e == Event
  <2>2. e \in Events /\ NewsOf(e) \subseteq DOMAIN orders \ FillsIn(rest) /\ queue' = Append(rest, e)
    BY <1>1, <1>4, <2>1
  <2> HIDE DEF e, Events
  <2>3. /\ queue' \in Seq(Events) /\ Len(queue') = Len(rest) + 1 /\ Clean(queue')
        /\ FillsIn(queue') = FillsIn(rest) \cup NewsOf(e)
    BY <1>5, <2>2, AppendNews
  <2> QED BY <1>5, <2>3 DEF e
<1>7. /\ feed'.fills \cup FillsIn(queue') = OnTheWay \ news
      /\ feed'.fills \cap FillsIn(queue') = {} /\ news \subseteq OnTheWay
  BY <1>1, <1>3, <1>4, <1>5, <1>6 DEF OnTheWay
<1>8. evicted' = evicted \cup news
  BY <1>1, <1>5
<1>9. news \subseteq InState("filled")
  BY <1>1, <1>7 DEF NewsInv, Announced
<1>10. ExecutionTypeOK'
  <2>1. evicted' \subseteq 1 .. MaxOrders
    BY <1>1, <1>8, <1>9, FilledExist, FeedFacts DEF ExecutionTypeOK
  <2> QED BY <1>1, <1>2, <1>4, <1>6, <2>1 DEF ExecutionTypeOK, FeedStates, SameBook
<1>11. FillsIn(queue)' = FillsIn(queue') /\ Clean(queue)' /\ OnTheWay' = OnTheWay \ news
  <2>1. FillsIn(queue)' = FillsIn(queue')
    BY <1>2, <1>1 DEF FillsIn
  <2>2. Clean(queue)'
    BY <1>1, <1>6 DEF Clean
  <2> QED BY <1>7, <2>1, <2>2 DEF OnTheWay
<1>12. NewsInv'
  BY <1>1, <1>2, <1>4, <1>7, <1>8, <1>9, <1>11 DEF NewsInv, Announced
<1>13. Recorded' = Recorded
  <2>1. (feed.pc # "evict" => Unrecorded = feed.fills)'
    BY UnrecordedFacts, PTL
  <2>2. Unrecorded = feed.fills \ NewsOf(Event)
    <3>1. CASE feed.fills = {}
      BY <1>4, <3>1, UnrecordedFacts
    <3>2. CASE feed.fills # {}
      BY <1>1, <1>4, <3>2, UnrecordedFacts
    <3> QED BY <3>1, <3>2
  <2> QED BY <1>1, <1>2, <1>4, <2>1, <2>2 DEF Recorded
<1>14. PnlInv'
  BY <1>1, <1>2, <1>10, <1>13, PnlStays
<1>15. FillsNow({})
  BY <1>1, <1>2, <1>7, <1>8, <1>11 DEF FillsNow
<1> QED BY <1>10, <1>12, <1>14, <1>15 DEF ExecInv

\* Whatever the feed does, some resting orders are filled and nothing else.
LEMMA FeedInv ==
  ASSUME ExecInv, FeedStep
  PROVE  ExecInv' /\ \E X : FillsNow(X)
<1>1. CASE \E m \in Mids \cup {NoMid} : Update(m)
  BY <1>1, UpdateInv
<1>2. CASE PollFills
  BY <1>2, PollInv
<1>3. CASE Enqueue
  BY <1>3, EnqueueInv
<1>4. CASE EvictOldest
  BY <1>4, EvictInv
<1> QED BY <1>1, <1>2, <1>3, <1>4 DEF FeedStep
-----------------------------------------------------------------------------
(* The plugin's steps.                                                     *)

\* Nothing the books or the news depend on has changed.
Keeps ==
  /\ SameBook /\ DOMAIN orders' = DOMAIN orders /\ Signed' = Signed /\ Flows' = Flows
  /\ InState("filled")' = InState("filled")
  /\ \A j \in DOMAIN orders : orders'[j].rested = orders[j].rested

\* The plugin takes an event, or a cancel of its goes through, or both.
LEMMA PluginInv ==
  ASSUME ExecInv, Keeps, UNCHANGED <<marketVars, evicted>>, NEW news,
         \/ UNCHANGED queue /\ news = {}
         \/ queue # <<>> /\ queue' = Tail(queue) /\ news = NewsOf(Head(queue))
  PROVE  /\ ExecInv' /\ Instant' = Instant
         /\ news \subseteq OnTheWay /\ OnTheWay' = OnTheWay \ news
<1>1. /\ ExecutionTypeOK /\ NewsInv /\ PnlInv /\ UNCHANGED <<mid, feed, ticks, earned, evicted>>
      /\ queue \in Seq(Events) /\ Len(queue) \in Nat /\ Len(queue) <= QueueMax /\ Clean(queue)
  BY FeedFacts DEF ExecInv, marketVars, NewsInv
<1>2. /\ queue' \in Seq(Events) /\ Len(queue') <= QueueMax /\ Clean(queue')
      /\ FillsIn(queue') = FillsIn(queue) \ news /\ news \subseteq FillsIn(queue)
  <2>1. CASE UNCHANGED queue /\ news = {}
    BY <1>1, <2>1
  <2>2. CASE queue # <<>> /\ queue' = Tail(queue) /\ news = NewsOf(Head(queue))
    <3>1. /\ NewsOf(Head(queue)) \subseteq FillsIn(queue)
          /\ Tail(queue) \in Seq(Events) /\ Len(Tail(queue)) = Len(queue) - 1
          /\ Clean(Tail(queue)) /\ FillsIn(Tail(queue)) = FillsIn(queue) \ NewsOf(Head(queue))
      BY <1>1, <2>2, TailNews
    <3>2. Len(Tail(queue)) <= QueueMax
      BY <1>1, <3>1, ExecutionAssumption
    <3> QED BY <2>2, <3>1, <3>2
  <2> QED BY <2>1, <2>2
<1>3. ExecutionTypeOK'
  BY <1>1, <1>2 DEF ExecutionTypeOK, Keeps, SameBook
<1>4. FillsIn(queue)' = FillsIn(queue') /\ Clean(queue)'
  BY <1>2 DEF FillsIn, Clean, Keeps
<1>5. OnTheWay' = OnTheWay \ news /\ news \subseteq OnTheWay
  BY <1>1, <1>2, <1>4 DEF OnTheWay, NewsInv
<1>6. NewsInv'
  BY <1>1, <1>2, <1>4, <1>5, FilledExist DEF NewsInv, Announced, Keeps
<1>7. Recorded' = Recorded
  BY <1>1 DEF Recorded, Unrecorded, NextFill, Keeps
<1>8. PnlInv'
  BY <1>1, <1>3, <1>7, PnlStays DEF Keeps
<1>9. Instant' = Instant
  BY FilledExist DEF Instant, Keeps
<1> QED BY <1>3, <1>5, <1>6, <1>8, <1>9 DEF ExecInv

LEMMA CancelKeeps ==
  ASSUME ExecInv, NEW i \in DOMAIN orders, CancelOrder(i)
  PROVE  Keeps
BY CancelEffect DEF ExecInv, Keeps

LEMMA SameKeeps == ASSUME ExecInv, UNCHANGED orders PROVE Keeps
BY SameOrders DEF ExecInv, Keeps

\* An order is let through.
Placed(new) ==
  /\ Len(orders') = Fresh /\ DOMAIN orders' = DOMAIN orders \cup {Fresh} /\ Fresh \notin DOMAIN orders
  /\ orders'[Fresh] = new /\ \A i \in DOMAIN orders : orders'[i] = orders[i]
  /\ \A s : InState(s)' = InState(s) \cup (IF new.state = s THEN {Fresh} ELSE {})
  /\ Signed' = Append(Signed, Amount(new))
  /\ OnTheWay' = OnTheWay

LEMMA PlacedInv ==
  ASSUME ExecInv, NEW new \in Order, orders' = Append(orders, new), Len(orders) < MaxOrders,
         UNCHANGED <<marketVars, queue, evicted>>,
         (new.state = "filled" /\ new.paid = mid) \/ new.state = "resting"
  PROVE  ExecInv' /\ Placed(new)
<1>1. /\ ExecutionTypeOK /\ NewsInv /\ PnlInv /\ UNCHANGED <<mid, feed, ticks, earned, queue, evicted>>
      /\ Clean(queue)
  BY DEF ExecInv, marketVars, NewsInv
<1>2. /\ orders' \in Seq(Order) /\ Len(orders') = Fresh
      /\ DOMAIN orders' = DOMAIN orders \cup {Fresh} /\ Fresh \notin DOMAIN orders
      /\ orders'[Fresh] = new /\ \A i \in DOMAIN orders : orders'[i] = orders[i]
      /\ \A s : InState(s)' = InState(s) \cup (IF new.state = s THEN {Fresh} ELSE {})
      /\ Signed' = Append(Signed, Amount(new))
      /\ Flows' = Append(Flows, Flow(new))
  BY <1>1, AppendEffect
<1>3. ExecutionTypeOK'
  <2>1. Fresh <= MaxOrders
    BY <1>1, OrderFacts, ExecutionAssumption DEF Fresh
  <2> HIDE DEF Order, Fresh
  <2> QED BY <1>1, <1>2, <2>1 DEF ExecutionTypeOK
<1> HIDE DEF Fresh
<1>4. FillsIn(queue)' = FillsIn(queue) /\ Clean(queue)'
  <2>1. /\ \A k \in DOMAIN queue : NewsOf(queue[k]) \subseteq DOMAIN orders'
        /\ {i \in DOMAIN orders' : \E k \in DOMAIN queue : queue[k] = Fill(i)} = FillsIn(queue)
    <3>1. queue \in Seq(Events) /\ Clean(queue) /\ DOMAIN orders \subseteq DOMAIN orders'
      BY <1>1, <1>2, FeedFacts
    <3> HIDE DEF Events
    <3> QED BY <3>1, SameNews
  <2>2. FillsIn(queue)' = FillsIn(queue)
    BY <1>1, <2>1 DEF FillsIn
  <2> QED BY <1>1, <2>1, <2>2 DEF Clean
<1>5. OnTheWay' = OnTheWay
  BY <1>1, <1>4 DEF OnTheWay
<1>6. NewsInv'
  <2>1. \A i \in OnTheWay : Announced(i)'
    BY <1>1, <1>2, FilledExist DEF NewsInv, Announced
  <2>2. (evicted \subseteq InState("filled"))'
    BY <1>1, <1>2 DEF NewsInv
  <2> QED BY <1>1, <1>4, <1>5, <2>1, <2>2 DEF NewsInv
<1>7. Placed(new)
  BY <1>2, <1>5 DEF Placed
<1>8. Recorded \subseteq DOMAIN orders /\ Fresh \notin Recorded /\ Unrecorded' = Unrecorded
  BY <1>1, <1>2, FilledExist DEF Recorded, Unrecorded, NextFill
<1>9. Unrecorded \subseteq DOMAIN orders
  BY <1>1, FilledExist DEF Unrecorded, NewsInv, OnTheWay, Announced
<1>10. PnlInv'
  <2>1. CASE new.state = "filled" /\ new.paid = mid
    <3>1. Recorded' = Recorded \cup {Fresh}
      BY <1>2, <1>8, <1>9, <2>1 DEF Recorded
    <3> QED BY <1>1, <1>3, <2>1, <3>1, PnlPlaced
  <2>2. CASE new.state = "resting"
    <3>1. Recorded' = Recorded
      BY <1>2, <1>8, <2>2 DEF Recorded
    <3>2. /\ Signed \in Seq(Int) /\ Amount(new) \in Int /\ Len(Signed) + 1 \notin Recorded
          /\ Flows \in Seq(Int) /\ Flow(new) \in Int /\ Len(Flows) + 1 \notin Recorded
      BY <1>1, <1>8, SignedType, AmountType DEF Fresh
    <3>3. SumOf(Append(Signed, Amount(new)), Recorded) = SumOf(Signed, Recorded)
      <4> DEFINE f == Signed
                 x == Amount(new)
                 S == Recorded
      <4>1. f \in Seq(Int) /\ x \in Int /\ Len(f) + 1 \notin S
        BY <3>2
      <4> HIDE DEF f, x, S
      <4>2. SumOf(Append(f, x), S) = SumOf(f, S)
        BY <4>1, SumOfAppend
      <4> QED BY <4>2 DEF f, x, S
    <3>4. SumOf(Append(Flows, Flow(new)), Recorded) = SumOf(Flows, Recorded)
      <4> DEFINE f == Flows
                 x == Flow(new)
                 S == Recorded
      <4>1. f \in Seq(Int) /\ x \in Int /\ Len(f) + 1 \notin S
        BY <3>2
      <4> HIDE DEF f, x, S
      <4>2. SumOf(Append(f, x), S) = SumOf(f, S)
        BY <4>1, SumOfAppend
      <4> QED BY <4>2 DEF f, x, S
    <3>5. SumOf(Flows, Recorded)' = SumOf(Flows, Recorded) /\ SumOf(Signed, Recorded)' = SumOf(Signed, Recorded)
      BY <1>2, <3>1, <3>3, <3>4
    <3> QED BY <1>1, <1>3, <3>1, <3>5, PnlStays
  <2> QED BY <2>1, <2>2
<1> QED BY <1>3, <1>6, <1>7, <1>10 DEF ExecInv
-----------------------------------------------------------------------------
(* The market maker.                                                       *)

Sides == {"bid", "ask"}

RoomToRest == work.pc = "rest" => Len(orders) < MaxOrders

\* A quote is an order of its side, and if it is filled the strategy has not
\* heard of it or never will.
QuoteKnown(side, i) ==
  /\ i \in DOMAIN orders /\ orders[i].side = OrderSide(side) /\ i \notin late
  /\ i \in InState("resting") \/ i \in InState("filled") \cap (Instant \cup OnTheWay \cup evicted)

QuoteInv == \A side \in Sides : quotes[side] # NoQuote => QuoteKnown(side, quotes[side])

\* News is of a quote, or comes too late.
NewsOfQuotes == \A i \in OnTheWay : i \in late \/ \E side \in Sides : quotes[side] = i

TrackInv == QuoteInv /\ NewsOfQuotes /\ late \subseteq InState("filled") /\ QuotesTracked

Counted == InState("filled") \ (Uncounted \cup OnTheWay)

\* The sides that may still get a fill: no order is on one at the cap.
Exposed(side) == quotes[side] # NoQuote \/ (work.pc \in {"submit", "rest"} /\ work.side = side)

CapInv ==
  /\ Exposed("bid") => inventory < Cap
  /\ Exposed("ask") => inventory > -Cap
  /\ inventory \in -(Cap + Size - 1) .. Cap + Size - 1

MakerInv ==
  /\ ExecInv /\ MakerTypeOK /\ RoomToRest
  /\ TrackInv /\ (work.pc \in {"submit", "rest"} => quotes[work.side] = NoQuote)
  /\ inventory = SumOf(Signed, Counted) /\ CapInv

LEMMA FeedKeepsInstant ==
  ASSUME NEW X, FillsNow(X) PROVE Instant' = Instant /\ InState("filled") \cap X = {}
BY FilledExist DEF FillsNow, Instant, InState

\* What a strategy knows of its quotes, it knows after a step of the feed.
LEMMA MakerFeedTracks ==
  ASSUME MakerInv, NEW X, FillsNow(X), ExecInv', UNCHANGED makerVars
  PROVE  TrackInv' /\ Counted' = Counted
<1>1. /\ TrackInv /\ UNCHANGED <<quotes, late>> /\ quotes \in [Sides -> 0 .. MaxOrders]
      /\ Instant' = Instant /\ InState("filled") \cap X = {}
  BY FeedKeepsInstant DEF MakerInv, makerVars, MakerTypeOK, Sides
<1>2. /\ X \subseteq InState("resting") /\ DOMAIN orders' = DOMAIN orders
      /\ \A i \in DOMAIN orders : orders'[i].side = orders[i].side
      /\ InState("filled")' = InState("filled") \cup X
      /\ InState("resting")' = InState("resting") \ X
      /\ OnTheWay' \cup evicted' = OnTheWay \cup evicted \cup X
      /\ OnTheWay' \subseteq OnTheWay \cup X
  BY DEF FillsNow, SameBook
<1>3. QuoteInv'
  <2>1. ASSUME NEW side \in Sides, quotes[side] # NoQuote PROVE QuoteKnown(side, quotes[side])'
    <3>1. QuoteKnown(side, quotes[side])
      BY <1>1, <2>1 DEF TrackInv, QuoteInv
    <3> QED BY <1>1, <1>2, <3>1 DEF QuoteKnown
  <2> QED BY <1>1, <2>1 DEF QuoteInv
<1>4. NewsOfQuotes'
  <2>1. \A i \in X : \E side \in Sides : quotes[side] = i
    BY <1>1, <1>2 DEF TrackInv, QuotesTracked, Sides
  <2> QED BY <1>1, <1>2, <2>1 DEF TrackInv, NewsOfQuotes
<1>5. QuotesTracked'
  BY <1>1, <1>2, FilledExist DEF TrackInv, QuotesTracked
<1>6. (late \subseteq InState("filled"))'
  BY <1>1, <1>2 DEF TrackInv
<1>7. Counted' = Counted
  BY <1>1, <1>2 DEF Counted, Uncounted
<1> QED BY <1>3, <1>4, <1>5, <1>6, <1>7 DEF TrackInv

LEMMA MakerFeed ==
  ASSUME MakerInv, FeedStep, UNCHANGED makerVars
  PROVE  MakerInv'
<1>1. ExecInv
  BY DEF MakerInv
<1>2. ExecInv' /\ \E X : FillsNow(X)
  BY <1>1, FeedInv
<1>3. PICK X : FillsNow(X)
  BY <1>2
<1>4. TrackInv' /\ Counted' = Counted
  BY <1>2, <1>3, MakerFeedTracks
<1>5. /\ MakerTypeOK /\ RoomToRest /\ inventory = SumOf(Signed, Counted) /\ CapInv
      /\ work.pc \in {"submit", "rest"} => quotes[work.side] = NoQuote
      /\ UNCHANGED <<inventory, quotes, work, late>>
  BY DEF MakerInv, makerVars
<1>6. MakerTypeOK'
  BY <1>2, <1>5 DEF MakerTypeOK, ExecInv
<1>7. Signed' = Signed /\ Len(orders') = Len(orders)
  BY <1>3 DEF FillsNow, SameBook
<1>8. RoomToRest' /\ CapInv' /\ (work.pc \in {"submit", "rest"} => quotes[work.side] = NoQuote)'
  BY <1>5, <1>7 DEF RoomToRest, CapInv, Exposed
<1>9. (inventory = SumOf(Signed, Counted))'
  BY <1>4, <1>5, <1>7
<1> QED BY <1>2, <1>4, <1>6, <1>8, <1>9 DEF MakerInv

WorkStates == [pc : {"waiting", "requote", "submit", "rest", "stopping", "stopped"},
               side : Sides, mid : Mids \cup {NoMid}]

LEMMA WorkRecords ==
  /\ MakerWaiting \in WorkStates /\ MakerWaiting.pc = "waiting"
  /\ \A side \in Sides, m \in Mids \cup {NoMid} :
       LET w == [pc |-> "requote", side |-> side, mid |-> m] IN
       w \in WorkStates /\ w.pc = "requote" /\ w.side = side
BY DEF MakerWaiting, WorkStates, Sides

LEMMA WorkMoves ==
  ASSUME work \in WorkStates
  PROVE  \A pc \in {"submit", "rest", "stopping", "stopped"} : work' = [work EXCEPT !.pc = pc] =>
           work' \in WorkStates /\ work'.pc = pc /\ work'.side = work.side
BY DEF WorkStates

LEMMA NextSideFacts ==
  ASSUME work \in WorkStates, NextSide
  PROVE  work' \in WorkStates /\ work'.pc \in {"requote", "waiting"}
<1>1. CASE work.side = "bid"
  <2>1. work' = [pc |-> "requote", side |-> "ask", mid |-> work.mid]
    BY <1>1 DEF NextSide
  <2>2. work.mid \in Mids \cup {NoMid} /\ "ask" \in Sides
    BY DEF WorkStates, Sides
  <2> QED BY <2>1, <2>2, WorkRecords
<1>2. CASE work.side # "bid"
  BY <1>2, WorkRecords DEF NextSide
<1> QED BY <1>1, <1>2

LEMMA MakerFacts ==
  ASSUME MakerInv
  PROVE  /\ ExecInv /\ ExecutionTypeOK /\ TrackInv /\ RoomToRest /\ CapInv
         /\ inventory = SumOf(Signed, Counted) /\ inventory \in Int
         /\ (work.pc \in {"submit", "rest"} => quotes[work.side] = NoQuote)
         /\ quotes \in [Sides -> 0 .. MaxOrders] /\ work \in WorkStates /\ work.side \in Sides
         /\ late \subseteq 1 .. MaxOrders /\ DOMAIN orders \subseteq 1 .. MaxOrders
         /\ Size \in Nat \ {0} /\ Cap \in Nat \ {0} /\ MaxOrders \in Nat
<1>1. /\ ExecInv /\ MakerTypeOK /\ TrackInv /\ RoomToRest /\ CapInv
      /\ inventory = SumOf(Signed, Counted)
      /\ (work.pc \in {"submit", "rest"} => quotes[work.side] = NoQuote)
  BY DEF MakerInv
<1>2. ExecutionTypeOK
  BY <1>1 DEF ExecInv
<1>3. /\ inventory \in Int /\ late \subseteq 1 .. MaxOrders
      /\ quotes \in [Sides -> 0 .. MaxOrders] /\ work \in WorkStates
  BY <1>1 DEF MakerTypeOK, WorkStates, Sides
<1>4. work.side \in Sides
  BY <1>3 DEF WorkStates
<1>5. DOMAIN orders \subseteq 1 .. MaxOrders
  BY <1>2, FeedFacts
<1> QED BY <1>1, <1>2, <1>3, <1>4, <1>5, ExecutionAssumption, MakerAssumption

\* The two sides never share a quote.
LEMMA TwoSides ==
  ASSUME MakerInv, NEW s \in Sides, NEW t \in Sides, quotes[s] = quotes[t], quotes[s] # NoQuote
  PROVE  s = t
BY MakerFacts DEF TrackInv, QuoteInv, QuoteKnown, OrderSide, Sides

\* _cancel leaves the side without a quote, and the inventory what it was.
LEMMA MakerCancels ==
  ASSUME MakerInv, NEW side \in Sides, Cancel(side),
         UNCHANGED <<marketVars, queue, evicted, inventory>>
  PROVE  /\ ExecInv' /\ TrackInv' /\ Counted' = Counted /\ Signed' = Signed
         /\ quotes' \in [Sides -> 0 .. MaxOrders] /\ late' \subseteq 1 .. MaxOrders
         /\ quotes'[side] = NoQuote /\ Len(orders') = Len(orders)
         /\ \A s \in Sides : quotes'[s] # NoQuote => quotes[s] # NoQuote
<1> DEFINE i == quotes[side]
<1>0. /\ ExecInv /\ ExecutionTypeOK /\ TrackInv /\ quotes \in [Sides -> 0 .. MaxOrders]
      /\ late \subseteq 1 .. MaxOrders
  BY MakerFacts
<1>1. CASE i = NoQuote
  <2>1. UNCHANGED <<orders, quotes, late>>
    BY <1>0, <1>1, FeedFacts DEF Cancel, TrackInv, QuoteInv, QuoteKnown
  <2>2. Keeps
    BY <1>0, <2>1, SameKeeps
  <2>3. ExecInv' /\ Instant' = Instant /\ OnTheWay' = OnTheWay
    <3>1. ExecInv' /\ Instant' = Instant /\ OnTheWay' = OnTheWay \ {}
      BY <1>0, <2>2, PluginInv
    <3> QED BY <3>1
  <2>4. /\ \A s : InState(s)' = InState(s)
        /\ Signed' = Signed /\ evicted' = evicted
    BY <1>0, <2>1, SameOrders
  <2>5. TrackInv'
    BY <1>0, <2>1, <2>3, <2>4
       DEF TrackInv, QuoteInv, QuoteKnown, NewsOfQuotes, QuotesTracked
  <2>6. Counted' = Counted
    BY <2>1, <2>3, <2>4 DEF Counted, Uncounted
  <2> QED BY <1>0, <1>1, <2>1, <2>3, <2>4, <2>5, <2>6
<1>2. CASE i # NoQuote
  <2>1. /\ CancelOrder(i) /\ quotes' = [quotes EXCEPT ![side] = NoQuote]
        /\ late' = IF i \in InState("filled") THEN late \cup {i} ELSE late
    BY <1>2 DEF Cancel
  <2>2. QuoteKnown(side, i)
    BY <1>0, <1>2 DEF TrackInv, QuoteInv
  <2>3. i \in DOMAIN orders
    BY <2>2 DEF QuoteKnown
  <2>4. Keeps
    BY <1>0, <2>1, <2>3, CancelKeeps
  <2>5. ExecInv' /\ Instant' = Instant /\ OnTheWay' = OnTheWay
    <3>1. ExecInv' /\ Instant' = Instant /\ OnTheWay' = OnTheWay \ {}
      BY <1>0, <2>4, PluginInv
    <3> QED BY <3>1
  <2>6. /\ InState("filled")' = InState("filled")
        /\ InState("resting")' = InState("resting") \ {i}
        /\ DOMAIN orders' = DOMAIN orders /\ Signed' = Signed /\ Len(orders') = Len(orders)
        /\ \A j \in DOMAIN orders : orders'[j].side = orders[j].side
        /\ evicted' = evicted
    BY <1>0, <2>1, <2>3, CancelEffect DEF SameBook
  <2>7. /\ quotes' \in [Sides -> 0 .. MaxOrders] /\ quotes'[side] = NoQuote
        /\ \A s \in Sides \ {side} : quotes'[s] = quotes[s]
        /\ \A s \in Sides \ {side} : quotes[s] # i
    <3>1. quotes' \in [Sides -> 0 .. MaxOrders] /\ quotes'[side] = NoQuote
          /\ \A s \in Sides \ {side} : quotes'[s] = quotes[s]
      BY <1>0, <2>1, MakerFacts DEF NoQuote
    <3>2. \A s \in Sides \ {side} : quotes[s] # i
      BY <1>2, TwoSides
    <3> QED BY <3>1, <3>2
  <2>8. late' \subseteq 1 .. MaxOrders
    BY <1>0, <2>1, <2>3, FeedFacts
  <2>9. InState("resting") \cap InState("filled") = {}
    BY DEF InState
  <2> HIDE DEF i
  <2>10. QuoteInv'
    <3>1. ASSUME NEW s \in Sides, quotes'[s] # NoQuote PROVE QuoteKnown(s, quotes[s])'
      <4>1. s # side /\ quotes'[s] = quotes[s] /\ quotes[s] # i
        BY <2>7, <3>1
      <4>2. QuoteKnown(s, quotes[s])
        BY <1>0, <3>1, <4>1 DEF TrackInv, QuoteInv
      <4> QED BY <2>1, <2>5, <2>6, <4>1, <4>2 DEF QuoteKnown
    <3> QED BY <3>1 DEF QuoteInv
  <2>11. NewsOfQuotes'
    <3>1. \A j \in OnTheWay : j \in InState("filled")
      BY <1>0 DEF ExecInv, NewsInv, Announced
    <3>2. \A s \in Sides : quotes[s] # i => quotes'[s] = quotes[s]
      BY <2>7 DEF i
    <3>3. ASSUME NEW j \in OnTheWay PROVE j \in late' \/ \E s \in Sides : quotes'[s] = j
      BY <1>0, <2>1, <3>1, <3>2, <3>3 DEF TrackInv, NewsOfQuotes
    <3> QED BY <2>5, <3>3 DEF NewsOfQuotes
  <2>12. QuotesTracked'
    <3>1. \A s \in Sides : quotes[s] # i => quotes'[s] = quotes[s]
      BY <2>7 DEF i
    <3> QED BY <1>0, <2>6, <3>1, FilledExist DEF TrackInv, QuotesTracked, Sides
  <2>13. (late \subseteq InState("filled"))'
    BY <1>0, <2>1, <2>6 DEF TrackInv
  <2>14. Counted' = Counted
    BY <2>1, <2>2, <2>5, <2>6, <2>9 DEF Counted, Uncounted, QuoteKnown
  <2> QED BY <2>5, <2>6, <2>7, <2>8, <2>10, <2>11, <2>12, <2>13, <2>14 DEF TrackInv
<1> QED BY <1>1, <1>2

\* A tick taken from the queue is no news.
LEMMA MakerHears ==
  ASSUME MakerInv, MakerOnMarketData
  PROVE  MakerInv'
<1> DEFINE event == Head(queue)
<1>1. /\ work.pc = "waiting" /\ queue # <<>> /\ queue' = Tail(queue)
      /\ event.tag = "market_data"
      /\ work' = IF event.value = NoMid THEN work
                 ELSE [pc |-> "requote", side |-> "bid", mid |-> event.value]
      /\ UNCHANGED <<marketVars, orders, evicted, inventory, quotes, late>>
  BY DEF MakerOnMarketData, Dequeue
<1>2. ExecInv /\ ExecutionTypeOK /\ Keeps
  BY <1>1, MakerFacts, SameKeeps
<1>3. /\ ExecInv' /\ Instant' = Instant /\ OnTheWay' = OnTheWay
  <2>1. NewsOf(event) = {}
    BY <1>1 DEF NewsOf
  <2>2. ExecInv' /\ Instant' = Instant /\ OnTheWay' = OnTheWay \ {}
    BY <1>1, <1>2, <2>1, PluginInv
  <2> QED BY <2>2
<1>4. work' \in WorkStates /\ work'.pc \in {"waiting", "requote"}
  <2>1. event.tag = "market_data" /\ event \in Events
    <3>1. queue \in Seq(Events)
      BY <1>2, FeedFacts
    <3> HIDE DEF Events
    <3> QED BY <1>1, <3>1
  <2>2. event.value \in Mids \cup {NoMid}
    BY <2>1 DEF Events, Tick, Fill
  <2>3. "bid" \in Sides
    BY DEF Sides
  <2> HIDE DEF event
  <2> QED BY <1>1, <2>2, <2>3, MakerFacts, WorkRecords
<1>5. /\ \A s : InState(s)' = InState(s)
      /\ Signed' = Signed /\ evicted' = evicted /\ Len(orders') = Len(orders)
  BY <1>1, <1>2, SameOrders
<1>6. TrackInv' /\ Counted' = Counted
  BY <1>1, <1>3, <1>5, MakerFacts
     DEF TrackInv, QuoteInv, QuoteKnown, NewsOfQuotes, QuotesTracked, Counted, Uncounted
<1>7. MakerTypeOK'
  BY <1>1, <1>3, <1>4, MakerFacts DEF MakerTypeOK, ExecInv, WorkStates, Sides
<1>8. RoomToRest' /\ CapInv' /\ (work.pc \in {"submit", "rest"} => quotes[work.side] = NoQuote)'
  BY <1>1, <1>4, MakerFacts DEF RoomToRest, CapInv, Exposed
<1>9. (inventory = SumOf(Signed, Counted))'
  BY <1>1, <1>5, <1>6, MakerFacts
<1> QED BY <1>3, <1>6, <1>7, <1>8, <1>9 DEF MakerInv

\* News of a fill is counted, once, if it is of a quote the strategy still has.
LEMMA MakerCounts ==
  ASSUME MakerInv, MakerOnOrderUpdate
  PROVE  MakerInv'
<1> DEFINE i == Head(queue).value
<1>1. /\ work.pc = "waiting" /\ queue # <<>> /\ queue' = Tail(queue)
      /\ Head(queue).tag = "order_update"
      /\ UNCHANGED <<marketVars, orders, evicted, work, late>>
  BY DEF MakerOnOrderUpdate, Dequeue
<1>2. ExecInv /\ ExecutionTypeOK /\ Keeps
  BY <1>1, MakerFacts, SameKeeps
<1>3. ExecInv' /\ Instant' = Instant /\ i \in OnTheWay /\ OnTheWay' = OnTheWay \ {i}
  <2>1. NewsOf(Head(queue)) = {i}
    BY <1>1 DEF NewsOf
  <2>2. ExecInv' /\ Instant' = Instant /\ {i} \subseteq OnTheWay /\ OnTheWay' = OnTheWay \ {i}
    BY <1>1, <1>2, <2>1, PluginInv
  <2> QED BY <2>2
<1>4. i \in InState("filled") /\ i \notin Instant /\ i \notin evicted /\ i \in DOMAIN orders
  BY <1>2, <1>3, FilledExist DEF ExecInv, NewsInv, Announced, Instant
<1>5. /\ \A s : InState(s)' = InState(s)
      /\ Signed' = Signed /\ evicted' = evicted /\ Len(orders') = Len(orders)
  BY <1>1, <1>2, SameOrders
<1>6. InState("resting") \cap InState("filled") = {}
  BY DEF InState
<1>7. \/ \E side \in Sides : /\ quotes[side] = i /\ quotes' = [quotes EXCEPT ![side] = NoQuote]
                             /\ inventory' = inventory + Signed[i]
      \/ (\A side \in Sides : quotes[side] # i) /\ UNCHANGED <<inventory, quotes>>
  BY DEF MakerOnOrderUpdate, Sides
<1> HIDE DEF i
<1>8. CASE (\A side \in Sides : quotes[side] # i) /\ UNCHANGED <<inventory, quotes>>
  <2>1. i \in late
    BY <1>3, <1>8, MakerFacts DEF TrackInv, NewsOfQuotes
  <2>2. QuoteInv'
    <3>1. ASSUME NEW s \in Sides, quotes[s] # NoQuote PROVE QuoteKnown(s, quotes[s])'
      <4>1. QuoteKnown(s, quotes[s]) /\ quotes[s] # i
        BY <1>8, <3>1, MakerFacts DEF TrackInv, QuoteInv
      <4> QED BY <1>1, <1>3, <1>5, <1>8, <4>1 DEF QuoteKnown
    <3> QED BY <1>8, <3>1 DEF QuoteInv
  <2>3. NewsOfQuotes' /\ QuotesTracked' /\ (late \subseteq InState("filled"))'
    BY <1>1, <1>3, <1>5, <1>8, MakerFacts DEF TrackInv, NewsOfQuotes, QuotesTracked
  <2>4. Counted' = Counted
    BY <1>1, <1>3, <1>5, <2>1 DEF Counted, Uncounted
  <2>5. MakerTypeOK'
    BY <1>1, <1>3, <1>8, MakerFacts DEF MakerTypeOK, ExecInv, WorkStates, Sides
  <2>6. RoomToRest' /\ CapInv' /\ (work.pc \in {"submit", "rest"} => quotes[work.side] = NoQuote)'
    BY <1>1, <1>8, MakerFacts DEF RoomToRest, CapInv, Exposed
  <2>7. (inventory = SumOf(Signed, Counted))'
    BY <1>5, <1>8, <2>4, MakerFacts
  <2> QED BY <1>3, <2>2, <2>3, <2>5, <2>6, <2>7 DEF MakerInv, TrackInv
<1>9. ASSUME NEW side \in Sides, quotes[side] = i, quotes' = [quotes EXCEPT ![side] = NoQuote],
             inventory' = inventory + Signed[i]
      PROVE  MakerInv'
  <2>0. i # NoQuote
    BY <1>4, OrderFacts, <1>2 DEF NoQuote
  <2>1. QuoteKnown(side, i)
    BY <1>9, <2>0, MakerFacts DEF TrackInv, QuoteInv
  <2>2. /\ quotes' \in [Sides -> 0 .. MaxOrders] /\ quotes'[side] = NoQuote
        /\ \A s \in Sides \ {side} : quotes'[s] = quotes[s] /\ quotes[s] # i
    <3>1. \A s \in Sides \ {side} : quotes[s] # i
      BY <1>9, <2>0, TwoSides
    <3> QED BY <1>9, <3>1, MakerFacts DEF NoQuote
  <2>3. QuoteInv'
    <3>1. ASSUME NEW s \in Sides, quotes'[s] # NoQuote PROVE QuoteKnown(s, quotes[s])'
      <4>1. s # side /\ quotes'[s] = quotes[s] /\ quotes[s] # i
        BY <2>2, <3>1
      <4>2. QuoteKnown(s, quotes[s])
        BY <3>1, <4>1, MakerFacts DEF TrackInv, QuoteInv
      <4> QED BY <1>1, <1>3, <1>5, <4>1, <4>2 DEF QuoteKnown
    <3> QED BY <3>1 DEF QuoteInv
  <2>4. NewsOfQuotes'
    <3>1. ASSUME NEW j \in OnTheWay, j # i PROVE j \in late' \/ \E s \in Sides : quotes'[s] = j
      BY <1>1, <1>9, <2>2, <3>1, MakerFacts DEF TrackInv, NewsOfQuotes
    <3> QED BY <1>3, <3>1 DEF NewsOfQuotes
  <2>5. QuotesTracked'
    <3>1. \A s \in Sides : quotes[s] # i => quotes'[s] = quotes[s]
      BY <1>9, <2>2
    <3> QED BY <1>1, <1>4, <1>5, <1>6, <3>1, MakerFacts DEF TrackInv, QuotesTracked, Sides
  <2>6. (late \subseteq InState("filled"))'
    BY <1>1, <1>5, MakerFacts DEF TrackInv
  <2>7. Counted' = Counted \cup {i} /\ i \notin Counted
    BY <1>1, <1>3, <1>4, <1>5, <2>1 DEF Counted, Uncounted, QuoteKnown
  <2>8. Signed[i] \in Int /\ Signed[i] = IF side = "bid" THEN Size ELSE -Size
    <3>1. Signed[i] = Amount(orders[i]) /\ Signed[i] \in Int
      BY <1>2, <1>4, SignedType
    <3> QED BY <2>1, <3>1 DEF QuoteKnown, OrderSide, Amount, Sides
  <2>9. (inventory = SumOf(Signed, Counted))'
    <3>1. i \in 1 .. Len(Signed) /\ Signed \in Seq(Int)
      BY <1>2, <1>4, OrderFacts, SignedType
    <3>2. SumOf(Signed, Counted \cup {i}) = SumOf(Signed, Counted) + Signed[i]
      BY <2>7, <3>1, SumAddOne
    <3> QED BY <1>5, <1>9, <2>7, <3>2, MakerFacts
  <2>10. CapInv'
    <3>1. /\ Exposed("bid")' => side # "bid" /\ Exposed("bid")
          /\ Exposed("ask")' => side # "ask" /\ Exposed("ask")
      BY <1>1, <2>2 DEF Exposed, Sides
    <3>2. Exposed(side) /\ side \in {"bid", "ask"}
      BY <1>9, <2>0 DEF Exposed, Sides
    <3>3. CASE side = "bid"
      <4>1. inventory' = inventory + Size /\ inventory < Cap
        BY <1>9, <2>8, <3>2, <3>3, MakerFacts DEF CapInv
      <4> QED BY <3>1, <3>3, <4>1, MakerFacts DEF CapInv
    <3>4. CASE side = "ask"
      <4>1. inventory' = inventory - Size /\ inventory > -Cap
        BY <1>9, <2>8, <3>2, <3>4, MakerFacts DEF CapInv
      <4> QED BY <3>1, <3>4, <4>1, MakerFacts DEF CapInv
    <3> QED BY <3>2, <3>3, <3>4
  <2>11. MakerTypeOK'
    BY <1>1, <1>3, <1>9, <2>2, <2>8, MakerFacts DEF MakerTypeOK, ExecInv, WorkStates, Sides
  <2>12. RoomToRest' /\ (work.pc \in {"submit", "rest"} => quotes[work.side] = NoQuote)'
    BY <1>1 DEF RoomToRest
  <2> QED BY <1>3, <2>3, <2>4, <2>5, <2>6, <2>9, <2>10, <2>11, <2>12 DEF MakerInv, TrackInv
<1> QED BY <1>7, <1>8, <1>9

LEMMA MakerDrops ==
  ASSUME MakerInv, DropStale
  PROVE  MakerInv'
<1> DEFINE side == work.side
<1>1. /\ work.pc = "requote" /\ side \in Sides
      /\ UNCHANGED <<marketVars, queue, evicted, inventory>>
  BY MakerFacts DEF DropStale
<1>2. ASSUME /\ ExecInv' /\ TrackInv' /\ Counted' = Counted /\ Signed' = Signed
             /\ quotes' \in [Sides -> 0 .. MaxOrders] /\ late' \subseteq 1 .. MaxOrders
             /\ Len(orders') = Len(orders)
             /\ \A s \in Sides : quotes'[s] # NoQuote => quotes[s] # NoQuote,
             \/ NextSide
             \/ /\ work' = [work EXCEPT !.pc = "submit"] /\ ~AtCap(side)
                /\ quotes'[side] = NoQuote
      PROVE  MakerInv'
  <2>1. work' \in WorkStates
    BY <1>2, MakerFacts, NextSideFacts, WorkMoves
  <2>2. MakerTypeOK'
    BY <1>1, <1>2, <2>1, MakerFacts DEF MakerTypeOK, ExecInv, WorkStates, Sides
  <2>3. (inventory = SumOf(Signed, Counted))'
    BY <1>1, <1>2, MakerFacts
  <2>4. CASE NextSide
    <3>1. work'.pc \in {"requote", "waiting"}
      BY <2>4, MakerFacts, NextSideFacts
    <3>2. \A s \in Sides : Exposed(s)' => Exposed(s)
      BY <1>2, <3>1 DEF Exposed
    <3>3. RoomToRest' /\ CapInv' /\ (work.pc \in {"submit", "rest"} => quotes[work.side] = NoQuote)'
      BY <1>1, <3>1, <3>2, MakerFacts DEF RoomToRest, CapInv, Sides
    <3> QED BY <1>2, <2>2, <2>3, <3>3 DEF MakerInv
  <2>5. CASE /\ work' = [work EXCEPT !.pc = "submit"] /\ ~AtCap(side)
             /\ quotes'[side] = NoQuote
    <3>1. work'.pc = "submit" /\ work'.side = side
      BY <2>5, MakerFacts, WorkMoves
    <3>2. \A s \in Sides : Exposed(s)' => Exposed(s) \/ s = side
      BY <1>2, <3>1 DEF Exposed
    <3>3. (side = "bid" => inventory < Cap) /\ (side = "ask" => inventory > -Cap)
      BY <2>5, MakerFacts DEF AtCap
    <3>4. RoomToRest' /\ CapInv' /\ (work.pc \in {"submit", "rest"} => quotes[work.side] = NoQuote)'
      BY <1>1, <2>5, <3>1, <3>2, <3>3, MakerFacts DEF RoomToRest, CapInv, Sides
    <3> QED BY <1>2, <2>2, <2>3, <3>4 DEF MakerInv
  <2> QED BY <1>2, <2>4, <2>5
<1>3. CASE Cancel(side) /\ (NextSide \/ (~AtCap(side) /\ work' = [work EXCEPT !.pc = "submit"]))
  BY <1>1, <1>2, <1>3, MakerCancels
<1>4. CASE NextSide /\ UNCHANGED <<orders, quotes, late>>
  <2>1. ExecInv /\ ExecutionTypeOK /\ Keeps
    BY <1>4, MakerFacts, SameKeeps
  <2>2. ExecInv' /\ Instant' = Instant /\ OnTheWay' = OnTheWay
    <3>1. ExecInv' /\ Instant' = Instant /\ OnTheWay' = OnTheWay \ {}
      BY <1>1, <2>1, PluginInv
    <3> QED BY <3>1
  <2>3. /\ \A s : InState(s)' = InState(s)
        /\ Signed' = Signed /\ evicted' = evicted /\ Len(orders') = Len(orders)
    BY <1>1, <1>4, <2>1, SameOrders
  <2>4. TrackInv' /\ Counted' = Counted
    BY <1>4, <2>2, <2>3, MakerFacts
       DEF TrackInv, QuoteInv, QuoteKnown, NewsOfQuotes, QuotesTracked, Counted, Uncounted
  <2> QED BY <1>2, <1>4, <2>2, <2>3, <2>4, MakerFacts
<1> QED BY <1>3, <1>4 DEF DropStale

\* A new order, filled or resting, becomes the quote of its side.
LEMMA MakerPlaces ==
  ASSUME MakerInv, work.pc \in {"submit", "rest"}, Len(orders) < MaxOrders,
         NEW new \in Order, orders' = Append(orders, new), new.side = OrderSide(work.side),
         \/ new.state = "filled" /\ new.paid = mid /\ ~new.rested
         \/ new.state = "resting",
         Quoted, UNCHANGED <<marketVars, queue, evicted, inventory, late>>
  PROVE  MakerInv'
<1>1. /\ ExecInv /\ ExecutionTypeOK /\ TrackInv /\ work.side \in Sides
      /\ quotes \in [Sides -> 0 .. MaxOrders] /\ quotes[work.side] = NoQuote
      /\ evicted' = evicted /\ late' = late /\ inventory' = inventory
  BY MakerFacts
<1>2. ExecInv' /\ Placed(new)
  BY <1>1, PlacedInv
<1>3. /\ Len(orders') = Fresh /\ DOMAIN orders' = DOMAIN orders \cup {Fresh} /\ Fresh \notin DOMAIN orders
      /\ orders'[Fresh] = new /\ \A i \in DOMAIN orders : orders'[i] = orders[i]
      /\ \A s : InState(s)' = InState(s) \cup (IF new.state = s THEN {Fresh} ELSE {})
      /\ Signed' = Append(Signed, Amount(new)) /\ OnTheWay' = OnTheWay
  BY <1>2 DEF Placed
<1>4. Fresh \in 1 .. MaxOrders /\ Fresh # NoQuote
  BY <1>1, OrderFacts, ExecutionAssumption DEF Fresh, NoQuote
<1>5. /\ quotes' = [quotes EXCEPT ![work.side] = Fresh] /\ NextSide
      /\ quotes' \in [Sides -> 0 .. MaxOrders] /\ quotes'[work.side] = Fresh
      /\ \A s \in Sides \ {work.side} : quotes'[s] = quotes[s]
  BY <1>1, <1>3, <1>4 DEF Quoted
<1>6. Signed \in Seq(Int) /\ Amount(new) \in Int /\ Len(Signed) + 1 = Fresh
  BY <1>1, SignedType, AmountType DEF Fresh
<1> HIDE DEF Fresh
<1>7. /\ Instant \subseteq Instant'
      /\ Instant' = Instant \cup (IF new.state = "filled" THEN {Fresh} ELSE {})
  BY <1>3, FilledExist DEF Instant
<1>8. \A j \in DOMAIN orders : j # NoQuote /\ j # Fresh
  BY <1>1, <1>3, OrderFacts DEF NoQuote
<1>9. QuoteInv'
  <2>1. /\ Fresh \in DOMAIN orders' /\ orders'[Fresh].side = OrderSide(work.side) /\ Fresh \notin late'
        /\ Fresh \in InState("resting")' \/ Fresh \in InState("filled")' \cap Instant'
    BY <1>1, <1>3, <1>7, FilledExist DEF TrackInv
  <2>2. ASSUME NEW s \in Sides, s # work.side, quotes[s] # NoQuote PROVE QuoteKnown(s, quotes[s])'
    <3>1. QuoteKnown(s, quotes[s]) /\ quotes'[s] = quotes[s]
      BY <1>1, <1>5, <2>2 DEF TrackInv, QuoteInv
    <3> QED BY <1>1, <1>3, <1>7, <3>1 DEF QuoteKnown
  <2>3. ASSUME NEW s \in Sides, quotes'[s] # NoQuote PROVE QuoteKnown(s, quotes[s])'
    <3>1. CASE s = work.side
      BY <1>5, <2>1, <3>1 DEF QuoteKnown
    <3>2. CASE s # work.side
      BY <1>5, <2>2, <2>3, <3>2
    <3> QED BY <3>1, <3>2
  <2> QED BY <2>3 DEF QuoteInv
<1>10. NewsOfQuotes'
  <2>1. ASSUME NEW j \in OnTheWay PROVE j \in late \/ \E s \in Sides : quotes'[s] = j
    <3>1. j \in DOMAIN orders
      BY <1>1, FilledExist DEF ExecInv, NewsInv, Announced
    <3> QED BY <1>1, <1>5, <1>8, <3>1 DEF TrackInv, NewsOfQuotes
  <2> QED BY <1>1, <1>3, <2>1 DEF NewsOfQuotes
<1>11. QuotesTracked'
  <2>1. ASSUME NEW j \in InState("resting")
        PROVE  \E s \in Sides : quotes'[s] = j /\ orders'[j].side = OrderSide(s)
    <3>1. j \in DOMAIN orders /\ j # NoQuote
      BY <1>8, FilledExist
    <3>2. PICK s \in Sides : quotes[s] = j /\ orders[j].side = OrderSide(s)
      BY <1>1 DEF TrackInv, QuotesTracked, Sides
    <3> QED BY <1>1, <1>3, <1>5, <3>1, <3>2
  <2>2. \E s \in Sides : quotes'[s] = Fresh /\ orders'[Fresh].side = OrderSide(s)
    BY <1>1, <1>3, <1>5
  <2>3. InState("resting")' \subseteq InState("resting") \cup {Fresh}
    BY <1>3
  <2> QED BY <2>1, <2>2, <2>3 DEF QuotesTracked, Sides
<1>12. (late \subseteq InState("filled"))'
  BY <1>1, <1>3 DEF TrackInv
<1>13. Counted' = Counted /\ Fresh \notin Counted
  <2>1. Fresh \notin InState("filled")
    BY <1>3, FilledExist
  <2> QED BY <1>1, <1>3, <1>7, <2>1 DEF Counted, Uncounted
<1>14. (inventory = SumOf(Signed, Counted))'
  <2>1. SumOf(Append(Signed, Amount(new)), Counted) = SumOf(Signed, Counted)
    <3> DEFINE f == Signed
               x == Amount(new)
               S == Counted
    <3>1. f \in Seq(Int) /\ x \in Int /\ Len(f) + 1 \notin S
      BY <1>6, <1>13
    <3> HIDE DEF f, x, S
    <3>2. SumOf(Append(f, x), S) = SumOf(f, S)
      BY <3>1, SumOfAppend
    <3> QED BY <3>2 DEF f, x, S
  <2> QED BY <1>1, <1>3, <1>13, <2>1, MakerFacts
<1>15. work' \in WorkStates /\ work'.pc \in {"requote", "waiting"}
  BY <1>5, MakerFacts, NextSideFacts
<1>16. \A s \in Sides : Exposed(s)' => Exposed(s)
  BY <1>5, <1>15 DEF Exposed
<1>17. RoomToRest' /\ CapInv' /\ (work.pc \in {"submit", "rest"} => quotes[work.side] = NoQuote)'
  BY <1>1, <1>15, <1>16, MakerFacts DEF RoomToRest, CapInv, Sides
<1>18. MakerTypeOK'
  BY <1>1, <1>2, <1>5, <1>15, MakerFacts DEF MakerTypeOK, ExecInv, WorkStates, Sides
<1> QED BY <1>2, <1>9, <1>10, <1>11, <1>12, <1>14, <1>17, <1>18 DEF MakerInv, TrackInv

\* What a strategy submits is an order, whether it is filled or put to rest.
LEMMA FilledOrder ==
  ASSUME NEW order \in Order, NEW paid \in Int
  PROVE  /\ FilledAt(order, paid, FALSE) \in Order
         /\ FilledAt(order, paid, FALSE).side = order.side
         /\ FilledAt(order, paid, FALSE).state = "filled"
         /\ FilledAt(order, paid, FALSE).reduceOnly = order.reduceOnly
         /\ FilledAt(order, paid, FALSE).paid = paid
         /\ ~FilledAt(order, paid, FALSE).rested
<1>1. FilledAt(order, paid, FALSE) \in Order
  BY DEF FilledAt, Order
<1> QED BY <1>1 DEF FilledAt

LEMMA QuoteOrder ==
  ASSUME MakerInv
  PROVE  Quote \in Order /\ Quote.side = OrderSide(work.side) /\ Quote.state = "resting"
<1>1. OrderSide(work.side) \in {"buy", "sell"}
  BY DEF OrderSide
<1>2. Target(work.side, work.mid) \in Int
  <2>1. work.mid \in Mids \cup {NoMid}
    BY MakerFacts DEF WorkStates
  <2>2. \A m \in Mids \cup {NoMid} : m \in Int
    BY ExecutionAssumption DEF NoMid
  <2>3. HalfSpread \in Int /\ work.mid \in Int
    BY <2>1, <2>2, MakerAssumption
  <2> QED BY <2>3 DEF Target
<1>3. Quote.side = OrderSide(work.side) /\ Quote.state = "resting"
  BY DEF Quote, New
<1>4. Quote \in Order
  BY <1>1, <1>2 DEF Quote, New, Order, NoMid
<1> QED BY <1>3, <1>4

LEMMA MakerSubmits ==
  ASSUME MakerInv, Submit
  PROVE  MakerInv'
<1>1. /\ work.pc = "submit" /\ quotes[work.side] = NoQuote
      /\ UNCHANGED <<marketVars, queue, evicted, inventory, late>>
  BY MakerFacts DEF Submit
<1>2. CASE MayPlace /\ PlaceFilled(Quote) /\ Quoted
  <2> DEFINE new == FilledAt(Quote, mid, FALSE)
  <2>1. Len(orders) < MaxOrders /\ orders' = Append(orders, new)
    BY <1>2 DEF MayPlace, PlaceFilled
  <2>2. mid \in Int
    BY MakerFacts, FeedFacts
  <2>3. /\ new \in Order /\ new.side = OrderSide(work.side) /\ new.state = "filled"
        /\ new.paid = mid /\ ~new.rested
    BY <2>2, QuoteOrder, FilledOrder
  <2> HIDE DEF new
  <2> QED BY <1>1, <1>2, <2>1, <2>3, MakerPlaces
<1>3. CASE /\ UNCHANGED <<orders, quotes>>
           /\ NextSide \/ (MayPlace /\ work' = [work EXCEPT !.pc = "rest"])
  <2>1. ExecInv /\ ExecutionTypeOK /\ Keeps
    BY <1>3, MakerFacts, SameKeeps
  <2>2. ExecInv' /\ Instant' = Instant /\ OnTheWay' = OnTheWay
    <3>1. ExecInv' /\ Instant' = Instant /\ OnTheWay' = OnTheWay \ {}
      BY <1>1, <2>1, PluginInv
    <3> QED BY <3>1
  <2>3. /\ \A s : InState(s)' = InState(s)
        /\ Signed' = Signed /\ evicted' = evicted /\ Len(orders') = Len(orders)
    BY <1>1, <1>3, <2>1, SameOrders
  <2>4. TrackInv' /\ Counted' = Counted
    BY <1>1, <1>3, <2>2, <2>3, MakerFacts
       DEF TrackInv, QuoteInv, QuoteKnown, NewsOfQuotes, QuotesTracked, Counted, Uncounted
  <2>5. work' \in WorkStates
    BY <1>3, MakerFacts, NextSideFacts, WorkMoves
  <2>6. MakerTypeOK'
    BY <1>1, <1>3, <2>2, <2>5, MakerFacts DEF MakerTypeOK, ExecInv, WorkStates, Sides
  <2>7. (inventory = SumOf(Signed, Counted))'
    BY <1>1, <2>3, <2>4, MakerFacts
  <2>8. \/ work'.pc \in {"requote", "waiting"}
        \/ work'.pc = "rest" /\ work'.side = work.side /\ Len(orders) < MaxOrders
    BY <1>3, MakerFacts, NextSideFacts, WorkMoves DEF MayPlace
  <2>9. \A s \in Sides : Exposed(s)' => Exposed(s)
    BY <1>1, <1>3, <2>8 DEF Exposed
  <2>10. RoomToRest' /\ CapInv' /\ (work.pc \in {"submit", "rest"} => quotes[work.side] = NoQuote)'
    BY <1>1, <1>3, <2>8, <2>9, MakerFacts DEF RoomToRest, CapInv, Sides
  <2> QED BY <2>2, <2>4, <2>6, <2>7, <2>10 DEF MakerInv
<1> QED BY <1>2, <1>3 DEF Submit

LEMMA MakerRests ==
  ASSUME MakerInv, MakerRest
  PROVE  MakerInv'
<1>1. /\ work.pc = "rest" /\ orders' = Append(orders, Quote) /\ Quoted
      /\ UNCHANGED <<marketVars, queue, evicted, inventory, late>>
  BY DEF MakerRest, PlaceResting
<1>2. Len(orders) < MaxOrders
  BY <1>1, MakerFacts DEF RoomToRest
<1> QED BY <1>1, <1>2, QuoteOrder, MakerPlaces

LEMMA MakerStops ==
  ASSUME MakerInv, MakerOnStop
  PROVE  MakerInv'
<1>1. UNCHANGED <<marketVars, queue, evicted, inventory>>
  BY DEF MakerOnStop
<1>2. PICK side \in Sides : /\ Cancel(side) /\ work.pc \in {"waiting", "stopping"}
                            /\ \E pc \in {"stopping", "stopped"} : work' = [work EXCEPT !.pc = pc]
  BY DEF MakerOnStop, Sides
<1>3. /\ ExecInv' /\ TrackInv' /\ Counted' = Counted /\ Signed' = Signed
      /\ quotes' \in [Sides -> 0 .. MaxOrders] /\ late' \subseteq 1 .. MaxOrders
      /\ \A s \in Sides : quotes'[s] # NoQuote => quotes[s] # NoQuote
  BY <1>1, <1>2, MakerCancels
<1>4. work' \in WorkStates /\ work'.pc \in {"stopping", "stopped"}
  BY <1>2, MakerFacts, WorkMoves
<1>5. MakerTypeOK'
  BY <1>1, <1>3, <1>4, MakerFacts DEF MakerTypeOK, ExecInv, WorkStates, Sides
<1>6. \A s \in Sides : Exposed(s)' => Exposed(s)
  BY <1>3, <1>4 DEF Exposed
<1>7. RoomToRest' /\ CapInv' /\ (work.pc \in {"submit", "rest"} => quotes[work.side] = NoQuote)'
  BY <1>1, <1>4, <1>6, MakerFacts DEF RoomToRest, CapInv, Sides
<1>8. (inventory = SumOf(Signed, Counted))'
  BY <1>1, <1>3, MakerFacts
<1> QED BY <1>3, <1>5, <1>7, <1>8 DEF MakerInv

LEMMA EmptyBooks ==
  ASSUME ExecutionInit
  PROVE  /\ ExecInv /\ OnTheWay = {} /\ orders = <<>> /\ evicted = {}
         /\ \A s : InState(s) = {}
         /\ \A S : SumOf(Signed, S) = 0
<1>1. /\ orders = <<>> /\ DOMAIN orders = {} /\ Len(orders) = 0 /\ queue = <<>>
      /\ mid \in Mids \cup {NoMid} /\ feed = FeedIdle /\ ticks = 0 /\ evicted = {} /\ earned = 0
  BY DEF ExecutionInit
<1>2. ExecutionTypeOK
  <2>1. orders \in Seq(Order) /\ Len(orders) <= MaxOrders
    <3> HIDE DEF Order
    <3> QED BY <1>1, ExecutionAssumption
  <2>2. queue \in Seq(Events) /\ Len(queue) <= QueueMax
    <3> HIDE DEF Events
    <3> QED BY <1>1, ExecutionAssumption
  <2> QED BY <1>1, <2>1, <2>2, FeedRecords, ExecutionAssumption DEF ExecutionTypeOK, FeedStates
<1>3. feed.fills = {} /\ FillsIn(queue) = {} /\ OnTheWay = {}
  BY <1>1, FeedRecords DEF FillsIn, OnTheWay
<1>4. NewsInv
  BY <1>1, <1>3 DEF NewsInv, Clean
<1>5. \A s : InState(s) = {}
  BY <1>1 DEF InState
<1>6. Len(Signed) = 0 /\ Signed \in Seq(Int) /\ Len(Flows) = 0 /\ Flows \in Seq(Int)
  BY <1>1, <1>2, SignedType
<1>7. \A S : SumOf(Signed, S) = 0
  <2> SUFFICES ASSUME NEW S PROVE SumOf(Signed, S) = 0
    OBVIOUS
  <2> HIDE DEF Signed
  <2>1. \A i \in 1 .. Len(Signed) : i \notin S
    BY <1>6
  <2> QED BY <1>6, <2>1, SumOfNone
<1>8. \A S : SumOf(Flows, S) = 0
  <2> SUFFICES ASSUME NEW S PROVE SumOf(Flows, S) = 0
    OBVIOUS
  <2> HIDE DEF Flows
  <2>1. \A i \in 1 .. Len(Flows) : i \notin S
    BY <1>6
  <2> QED BY <1>6, <2>1, SumOfNone
<1>9. PnlInv
  <2>1. Pnl = 0 + 0 * mid /\ mid \in Int
    BY <1>2, <1>7, <1>8, PnlFacts, FeedFacts
  <2> QED BY <1>1, <2>1 DEF PnlInv
<1> QED BY <1>1, <1>2, <1>3, <1>4, <1>5, <1>7, <1>9 DEF ExecInv

LEMMA MakerBegins == MakerInit => MakerInv
<1> SUFFICES ASSUME MakerInit PROVE MakerInv
  OBVIOUS
<1>1. /\ ExecutionInit /\ inventory = 0 /\ quotes = [side \in Sides |-> NoQuote]
      /\ work = MakerWaiting /\ late = {}
  BY DEF MakerInit, Sides
<1>2. /\ ExecInv /\ OnTheWay = {} /\ (\A s : InState(s) = {}) /\ (\A S : SumOf(Signed, S) = 0)
  BY <1>1, EmptyBooks
<1>3. /\ quotes \in [Sides -> 0 .. MaxOrders] /\ \A side \in Sides : quotes[side] = NoQuote
  BY <1>1, ExecutionAssumption DEF NoQuote
<1>4. work \in WorkStates /\ work.pc = "waiting"
  BY <1>1, WorkRecords
<1>5. MakerTypeOK
  BY <1>1, <1>2, <1>3, <1>4 DEF MakerTypeOK, ExecInv, WorkStates, Sides
<1>6. TrackInv
  BY <1>1, <1>2, <1>3 DEF TrackInv, QuoteInv, NewsOfQuotes, QuotesTracked
<1>7. CapInv
  <2>1. Cap \in Nat \ {0} /\ Size \in Nat \ {0}
    BY ExecutionAssumption, MakerAssumption
  <2> QED BY <1>1, <2>1 DEF CapInv
<1> QED BY <1>1, <1>2, <1>4, <1>5, <1>6, <1>7 DEF MakerInv, RoomToRest

LEMMA MakerKeeps == MakerInv /\ [MakerNext]_<<executionVars, makerVars>> => MakerInv'
<1> SUFFICES ASSUME MakerInv, [MakerNext]_<<executionVars, makerVars>> PROVE MakerInv'
  OBVIOUS
<1>1. CASE FeedStep /\ UNCHANGED makerVars
  BY <1>1, MakerFeed
<1>2. CASE MakerOnMarketData
  BY <1>2, MakerHears
<1>3. CASE MakerOnOrderUpdate
  BY <1>3, MakerCounts
<1>4. CASE DropStale
  BY <1>4, MakerDrops
<1>5. CASE Submit
  BY <1>5, MakerSubmits
<1>6. CASE MakerRest
  BY <1>6, MakerRests
<1>7. CASE MakerOnStop
  BY <1>7, MakerStops
<1>8. CASE UNCHANGED <<executionVars, makerVars>>
  <2>1. /\ UNCHANGED <<marketVars, queue, evicted, orders>>
        /\ UNCHANGED <<inventory, quotes, work, late>>
    BY <1>8 DEF executionVars, makerVars, marketVars
  <2>2. ExecInv /\ ExecutionTypeOK /\ Keeps
    BY <2>1, MakerFacts, SameKeeps
  <2>3. ExecInv' /\ Instant' = Instant /\ OnTheWay' = OnTheWay
    <3>1. ExecInv' /\ Instant' = Instant /\ OnTheWay' = OnTheWay \ {}
      BY <2>1, <2>2, PluginInv
    <3> QED BY <3>1
  <2>4. /\ \A s : InState(s)' = InState(s)
        /\ Signed' = Signed /\ Len(orders') = Len(orders)
    BY <2>1, <2>2, SameOrders
  <2>5. TrackInv' /\ Counted' = Counted
    BY <2>1, <2>3, <2>4, MakerFacts
       DEF TrackInv, QuoteInv, QuoteKnown, NewsOfQuotes, QuotesTracked, Counted, Uncounted
  <2>6. MakerTypeOK'
    BY <2>1, <2>3 DEF MakerInv, MakerTypeOK, ExecInv
  <2>7. RoomToRest' /\ CapInv' /\ (work.pc \in {"submit", "rest"} => quotes[work.side] = NoQuote)'
    BY <2>1, <2>4, MakerFacts DEF RoomToRest, CapInv, Exposed
  <2>8. (inventory = SumOf(Signed, Counted))'
    BY <2>1, <2>4, <2>5, MakerFacts
  <2> QED BY <2>3, <2>5, <2>6, <2>7, <2>8 DEF MakerInv
<1> QED BY <1>1, <1>2, <1>3, <1>4, <1>5, <1>6, <1>7, <1>8 DEF MakerNext

\* The market maker's invariant: a quote is an order of its side, what is filled
\* and still a quote has its news on its way or lost, and the news there is, is of a
\* quote or of one cancelled too late (market_maker.py:28-68).
THEOREM MakerInvariance == MakerSpec => []MakerInv
BY MakerBegins, MakerKeeps, PTL DEF MakerSpec

\* The market maker's state has its type.
THEOREM MakerTypes == MakerSpec => []MakerTypeOK
<1>1. MakerInv => MakerTypeOK
  BY DEF MakerInv
<1> QED BY <1>1, MakerInvariance, PTL

\* Every order that works is the quote of its side, and there are never two on a
\* side, whatever fills, cancels and lost updates come between the hooks
\* (market_maker.py:34-55, 66-68).
THEOREM QuotesAreTracked == MakerSpec => []QuotesTracked
<1>1. MakerInv => QuotesTracked
  BY DEF MakerInv, TrackInv
<1> QED BY <1>1, MakerInvariance, PTL

\* The inventory the strategy counts is the sum of its fills, but for those on their
\* way, made at placement, cancelled too late or lost (market_maker.py:57-64).
THEOREM InventoryIsTrue == MakerSpec => []InventoryTrue
<1>1. MakerInv => InventoryTrue
  BY DEF MakerInv, InventoryTrue, Counted
<1> QED BY <1>1, MakerInvariance, PTL

\* Beyond what was counted there is at most one fill a side, unheard of.
LEMMA OvershootFromInv == MakerInv => OvershootBounded
<1> SUFFICES ASSUME MakerInv PROVE OvershootBounded
  OBVIOUS
<1> DEFINE Left(side) == (InState("filled") \cap OnTheWay \cap {quotes[side]}) \ Uncounted
<1>1. /\ Signed \in Seq(Int) /\ Len(Signed) = Len(orders) /\ DOMAIN orders = 1 .. Len(orders)
      /\ \A i \in DOMAIN orders : Signed[i] = Amount(orders[i])
  BY MakerFacts, SignedType, OrderFacts
<1>2. ASSUME NEW side \in Sides
      PROVE  \/ SumOf(Signed, Left(side)) = 0
             \/ Exposed(side) /\ SumOf(Signed, Left(side)) = IF side = "bid" THEN Size ELSE -Size
  <2>1. CASE quotes[side] \notin Left(side)
    <3>1. Left(side) = {}
      BY <2>1
    <3> HIDE DEF Left
    <3> QED BY <1>1, <3>1, SumOfNone
  <2>2. CASE quotes[side] \in Left(side)
    <3>1. Left(side) = {quotes[side]} /\ quotes[side] \in DOMAIN orders
      BY <2>2, FilledExist
    <3>2. quotes[side] # NoQuote
      BY <1>1, <3>1 DEF NoQuote
    <3>3. orders[quotes[side]].side = OrderSide(side)
      BY <3>2, MakerFacts DEF TrackInv, QuoteInv, QuoteKnown
    <3>4. SumOf(Signed, {quotes[side]}) = Signed[quotes[side]]
      BY <1>1, <3>1, SumOfOne
    <3>5. Signed[quotes[side]] = IF side = "bid" THEN Size ELSE -Size
      BY <1>1, <3>1, <3>3 DEF Amount, OrderSide, Sides
    <3> HIDE DEF Left
    <3> QED BY <3>1, <3>2, <3>4, <3>5 DEF Exposed
  <2> QED BY <2>1, <2>2
<1>3. InState("filled") \ Uncounted = (Counted \cup Left("bid")) \cup Left("ask")
  <2>1. \A i \in OnTheWay \ Uncounted : i = quotes["bid"] \/ i = quotes["ask"]
    BY MakerFacts DEF TrackInv, NewsOfQuotes, Uncounted, Sides
  <2> QED BY <2>1 DEF Counted
<1>4. Counted \cap Left("bid") = {} /\ (Counted \cup Left("bid")) \cap Left("ask") = {}
  <2>1. Counted \cap OnTheWay = {}
    BY DEF Counted
  <2>2. Left("bid") \cap Left("ask") = {}
    <3>1. quotes["bid"] = quotes["ask"] => quotes["bid"] = NoQuote
      BY TwoSides DEF Sides
    <3>2. \A i \in InState("filled") : i # NoQuote
      BY <1>1, FilledExist DEF NoQuote
    <3> QED BY <3>1, <3>2
  <2> QED BY <2>1, <2>2
<1> HIDE DEF Left
<1> DEFINE b == SumOf(Signed, Left("bid"))
           a == SumOf(Signed, Left("ask"))
           position == SumOf(Signed, InState("filled") \ Uncounted)
<1>5. position = (inventory + b) + a
  <2>1. SumOf(Signed, Counted \cup Left("bid")) = SumOf(Signed, Counted) + b
    BY <1>1, <1>4, SumOfUnion
  <2>2. SumOf(Signed, (Counted \cup Left("bid")) \cup Left("ask"))
          = SumOf(Signed, Counted \cup Left("bid")) + a
    BY <1>1, <1>4, SumOfUnion
  <2> QED BY <1>3, <2>1, <2>2, MakerFacts
<1>6. /\ b = 0 \/ (inventory < Cap /\ b = Size)
      /\ a = 0 \/ (inventory > -Cap /\ a = -Size)
  <2>1. b = 0 \/ (Exposed("bid") /\ b = Size)
    BY <1>2 DEF Sides
  <2>2. a = 0 \/ (Exposed("ask") /\ a = -Size)
    BY <1>2 DEF Sides
  <2> QED BY <2>1, <2>2, MakerFacts DEF CapInv
<1>7. inventory \in -(Cap + Size - 1) .. Cap + Size - 1
  BY MakerFacts DEF CapInv
<1> HIDE DEF a, b, position
<1>8. position \in -(Cap + Size - 1) .. Cap + Size - 1
  BY <1>5, <1>6, <1>7, MakerFacts
<1> QED BY <1>8 DEF OvershootBounded, position

\* With fills still unheard of, the position stays less than one order beyond the
\* cap (market_maker.py:34-42), for any cap and any size.
THEOREM OvershootIsBounded == MakerSpec => []OvershootBounded
BY OvershootFromInv, MakerInvariance, PTL

\* Multiples of the size that differ, differ by the size at least.
LEMMA WholeOrders ==
  ASSUME NEW k \in Int, NEW m \in Int, k * Size < m * Size
  PROVE  k * Size + Size <= m * Size
<1>1. Size \in Nat \ {0}
  BY ExecutionAssumption
<1>2. ASSUME NEW s \in Nat \ {0}, NEW d \in Nat PROVE 0 <= d * s
  BY <1>2
<1>3. k < m
  <2>1. ASSUME m <= k PROVE FALSE
    <3>1. k - m \in Nat /\ 0 <= (k - m) * Size
      BY <1>1, <1>2, <2>1
    <3>2. (k - m) * Size = k * Size - m * Size
      BY <1>1
    <3>3. k * Size \in Int /\ m * Size \in Int
      BY <1>1
    <3> QED BY <3>1, <3>2, <3>3
  <2> QED BY <2>1
<1>4. m - k - 1 \in Nat /\ 0 <= (m - k - 1) * Size
  BY <1>1, <1>2, <1>3
<1>5. (m - k - 1) * Size = m * Size - k * Size - Size
  BY <1>1
<1>6. k * Size \in Int /\ m * Size \in Int
  BY <1>1
<1> QED BY <1>1, <1>4, <1>5, <1>6

\* The strategy counts whole orders.
InventoryWhole == \E k \in Int : inventory = k * Size

LEMMA WholeStep ==
  ASSUME MakerInv, InventoryWhole, [MakerNext]_<<executionVars, makerVars>>
  PROVE  InventoryWhole'
<1>1. PICK k \in Int : inventory = k * Size
  BY DEF InventoryWhole
<1>2. Size \in Nat \ {0} /\ Signed \in [DOMAIN orders -> {Size, -Size}]
  BY ExecutionAssumption DEF Signed
<1>3. CASE MakerOnOrderUpdate
  <2>1. CASE inventory' = inventory
    BY <2>1 DEF InventoryWhole
  <2>2. CASE inventory' # inventory
    <3>1. PICK side \in Sides : /\ quotes[side] = Head(queue).value /\ Head(queue).tag = "order_update"
                               /\ inventory' = inventory + Signed[quotes[side]] /\ queue # <<>>
      BY <1>3, <2>2 DEF MakerOnOrderUpdate, Sides, Dequeue
    <3>2. quotes[side] \in DOMAIN orders
      <4>1. Head(queue) \in Events
        BY <3>1, MakerFacts DEF ExecutionTypeOK
      <4>2. quotes[side] \in 1 .. MaxOrders
        BY <3>1, <4>1 DEF Events, Fill, Tick
      <4>3. quotes[side] # NoQuote
        BY <4>2 DEF NoQuote
      <4> QED BY <3>1, <4>3, MakerFacts DEF TrackInv, QuoteInv, QuoteKnown
    <3>3. inventory' = k * Size + Size \/ inventory' = k * Size - Size
      BY <1>1, <1>2, <3>1, <3>2
    <3>4. (k + 1) * Size = k * Size + Size /\ (k - 1) * Size = k * Size - Size
      BY <1>2
    <3> QED BY <3>3, <3>4 DEF InventoryWhole
  <2> QED BY <2>1, <2>2
<1>4. CASE ~MakerOnOrderUpdate
  <2>1. inventory' = inventory
    BY <1>4 DEF MakerNext, makerVars, MakerOnMarketData, DropStale, Submit, MakerRest, MakerOnStop
  <2> QED BY <2>1 DEF InventoryWhole
<1> QED BY <1>3, <1>4

\* Where "don't quote a side that would push inventory past the cap" is so: when the
\* cap is a multiple of the size, as in config.toml and demo_config.toml
\* (market_maker.py:4-5, 34-38).
THEOREM WholeOrdersKeepTheCap ==
  ASSUME NEW m \in Nat, Cap = m * Size
  PROVE  MakerSpec => []NeverQuotesPastCap
<1>1. MakerInit => InventoryWhole
  <2>1. 0 = 0 * Size
    BY ExecutionAssumption
  <2> QED BY <2>1 DEF MakerInit, InventoryWhole
<1>2. MakerInv /\ InventoryWhole => NeverQuotesPastCap
  <2> SUFFICES ASSUME MakerInv, NEW k \in Int, inventory = k * Size PROVE NeverQuotesPastCap
    BY DEF InventoryWhole
  <2>1. /\ quotes["bid"] # NoQuote => inventory < Cap
        /\ quotes["ask"] # NoQuote => inventory > -Cap
    BY MakerFacts DEF CapInv, Exposed
  <2>2. /\ (-k) * Size = -(k * Size) /\ k * Size \in Int /\ m * Size \in Int /\ Size \in Nat
        /\ -k \in Int
    BY ExecutionAssumption
  <2>3. inventory < Cap => inventory + Size <= Cap
    BY WholeOrders
  <2>4. ASSUME inventory > -Cap PROVE inventory - Size >= -Cap
    <3>1. (-k) * Size < m * Size
      BY <2>2, <2>4
    <3>2. (-k) * Size + Size <= m * Size
      BY <2>2, <3>1, WholeOrders
    <3> QED BY <2>2, <3>2
  <2> QED BY <2>1, <2>3, <2>4 DEF NeverQuotesPastCap
<1>3. MakerInv /\ InventoryWhole /\ [MakerNext]_<<executionVars, makerVars>> => InventoryWhole'
  BY WholeStep
<1> QED BY <1>1, <1>2, <1>3, MakerInvariance, PTL DEF MakerSpec

\* positions_and_pnl agrees with what the position earned at every tick and the
\* orders at every fill, in the market maker (observability.py:17-39).
THEOREM MakerPnlIsExact == MakerSpec => []PnlExact
<1>1. MakerInv => PnlExact
  BY DEF MakerInv, ExecInv, PnlInv, PnlExact
<1> QED BY <1>1, MakerInvariance, PTL
-----------------------------------------------------------------------------
(* Mean reversion.                                                         *)

\* What is held, and what the closes will close once they are filled, is the
\* entry and what was forgotten.
Held == ({entry.order} \cap InState("filled")) \cup forgotten
BooksOpen == SumOf(Signed, InState("filled") \cup Closes) = SumOf(Signed, Held)

\* An entry is an order, and never one that closes or was forgotten.
EntryKnown ==
  /\ entry.order = 0 <=> entry = NoEntry
  /\ entry # NoEntry => entry.order \in DOMAIN orders \ (Closes \cup forgotten)

\* An order to be placed opens a position when there is none, or closes a filled one.
Pending ==
  work.pc \in {"submit", "rest"} =>
    \/ ~work.order.reduceOnly /\ entry = NoEntry
    \/ /\ work.order.reduceOnly /\ entry # NoEntry /\ entry.filled
       /\ work.order.side = Opposite(orders[entry.order].side)

RoundInv ==
  /\ EntryKnown /\ Pending /\ EntryTrue /\ EntriesTracked
  /\ forgotten \subseteq InState("filled") \ Closes
  /\ Closes \subseteq InState("filled") \cup InState("resting")

ReversionInv == ExecInv /\ ReversionTypeOK /\ RoomToRest /\ RoundInv /\ BooksOpen

Entries == [order : 0 .. MaxOrders, filled : BOOLEAN]

NewOrders == {order \in Order : order.state = "resting"}

ReversionWork == [pc : {"waiting", "submit", "rest", "stopped"}, order : NewOrders]

LEMMA NewOrderFacts ==
  /\ NewOrders \subseteq Order
  /\ \A order \in NewOrders : order.state = "resting" /\ order.side \in {"buy", "sell"}
  /\ \A side \in {"buy", "sell"}, m \in Mids \cup {NoMid} :
       /\ New(side, m, TRUE) \in NewOrders /\ New(side, m, FALSE) \in NewOrders
       /\ New(side, m, TRUE).reduceOnly /\ ~New(side, m, FALSE).reduceOnly
       /\ New(side, m, TRUE).side = side
<1>1. \A m \in Mids \cup {NoMid} : m \in Int
  BY ExecutionAssumption DEF NoMid
<1>2. ASSUME NEW order \in NewOrders
      PROVE  order \in Order /\ order.state = "resting" /\ order.side \in {"buy", "sell"}
  BY DEF NewOrders, Order
<1>3. ASSUME NEW side \in {"buy", "sell"}, NEW m \in Mids \cup {NoMid}
      PROVE  /\ New(side, m, TRUE) \in NewOrders /\ New(side, m, FALSE) \in NewOrders
             /\ New(side, m, TRUE).reduceOnly /\ ~New(side, m, FALSE).reduceOnly
             /\ New(side, m, TRUE).side = side
  <2>1. m \in Int /\ NoMid \in Int
    BY <1>1 DEF NoMid
  <2>2. New(side, m, TRUE) \in NewOrders
    BY <2>1 DEF New, NewOrders, Order
  <2>3. New(side, m, FALSE) \in NewOrders
    BY <2>1 DEF New, NewOrders, Order
  <2> QED BY <2>2, <2>3 DEF New
<1> QED BY <1>2, <1>3

LEMMA ReversionFacts ==
  ASSUME ReversionInv
  PROVE  /\ ExecInv /\ ExecutionTypeOK /\ RoomToRest /\ RoundInv /\ BooksOpen
         /\ entry \in Entries /\ work \in ReversionWork /\ work.order \in NewOrders
         /\ forgotten \subseteq 1 .. MaxOrders
         /\ Signed \in Seq(Int) /\ Len(Signed) = Len(orders) /\ DOMAIN orders = 1 .. Len(orders)
         /\ Len(orders) \in Nat /\ 0 \notin DOMAIN orders /\ DOMAIN orders \subseteq 1 .. MaxOrders
<1>1. ExecInv /\ ExecutionTypeOK /\ RoomToRest /\ RoundInv /\ BooksOpen /\ ReversionTypeOK
  BY DEF ReversionInv, ExecInv
<1>2. entry \in Entries /\ work \in ReversionWork /\ forgotten \subseteq 1 .. MaxOrders
  BY <1>1 DEF ReversionTypeOK, Entries, ReversionWork, NewOrders
<1>3. work.order \in NewOrders
  BY <1>2 DEF ReversionWork
<1>4. /\ Signed \in Seq(Int) /\ Len(Signed) = Len(orders) /\ DOMAIN orders = 1 .. Len(orders)
      /\ Len(orders) \in Nat /\ DOMAIN orders \subseteq 1 .. MaxOrders
  BY <1>1, SignedType, OrderFacts, FeedFacts
<1> QED BY <1>1, <1>2, <1>3, <1>4

LEMMA ReversionTypes ==
  ASSUME ExecInv, entry \in Entries, work \in ReversionWork, forgotten \subseteq 1 .. MaxOrders
  PROVE  ReversionTypeOK
BY DEF ReversionTypeOK, ExecInv, Entries, ReversionWork, NewOrders

LEMMA EntryRecords ==
  /\ NoEntry \in Entries /\ NoEntry.order = 0 /\ ~NoEntry.filled
  /\ \A i \in 0 .. MaxOrders :
       /\ [order |-> i, filled |-> TRUE] \in Entries /\ [order |-> i, filled |-> FALSE] \in Entries
       /\ [order |-> i, filled |-> TRUE].order = i /\ [order |-> i, filled |-> TRUE].filled
       /\ [order |-> i, filled |-> FALSE].order = i /\ ~[order |-> i, filled |-> FALSE].filled
BY ExecutionAssumption DEF NoEntry, Entries

\* The books in the words of PositionExplained.
LEMMA BooksArePosition ==
  ASSUME ReversionInv PROVE PositionExplained
<1> DEFINE F == InState("filled")
           C == Closes \ F
           c == SumOf(Signed, C)
<1>1. F \cup Closes = F \cup C /\ F \cap C = {}
  OBVIOUS
<1>2. Signed \in Seq(Int) /\ SumOf(Signed, F \cup Closes) = SumOf(Signed, Held)
  BY ReversionFacts DEF BooksOpen
<1> HIDE DEF F, C
<1>3. SumOf(Signed, F \cup C) = SumOf(Signed, F) + c
  BY <1>1, <1>2, SumOfUnion
<1>4. SumOf(Signed, F) \in Int /\ c \in Int /\ SumOf(Signed, Held) \in Int
  BY <1>2, SumType
<1>5. SumOf(Signed, F) = SumOf(Signed, Held) - c
  <2> DEFINE p == SumOf(Signed, F)
             h == SumOf(Signed, Held)
  <2>1. p + c = h /\ p \in Int /\ c \in Int /\ h \in Int
    BY <1>1, <1>2, <1>3, <1>4
  <2> HIDE DEF p, h, c
  <2>2. p = h - c
    BY <2>1
  <2> QED BY <2>2 DEF p, h
<1> QED BY <1>5 DEF PositionExplained, Held, F, C

\* Orders that rest and do not close are the entry.
LEMMA RestingEntry ==
  ASSUME ReversionInv, NEW i \in InState("resting"), i \notin Closes
  PROVE  entry # NoEntry /\ ~entry.filled /\ entry.order = i /\ work.pc # "stopped"
<1>1. i = entry.order /\ i \in DOMAIN orders /\ i # 0 /\ i \notin InState("filled") /\ work.pc # "stopped"
  BY ReversionFacts, FilledExist DEF RoundInv, EntriesTracked, InState
<1>2. entry # NoEntry
  BY <1>1, ReversionFacts DEF RoundInv, EntryKnown
<1> QED BY <1>1, <1>2, ReversionFacts DEF RoundInv, EntryTrue

LEMMA ReversionFeedTracks ==
  ASSUME ReversionInv, NEW X, FillsNow(X), ExecInv', UNCHANGED reversionVars
  PROVE  RoundInv' /\ BooksOpen'
<1>1. /\ RoundInv /\ BooksOpen /\ UNCHANGED <<entry, work, forgotten>>
      /\ InState("filled") \cap X = {} /\ InState("resting") \cap InState("filled") = {}
  BY ReversionFacts, FeedKeepsInstant DEF reversionVars, InState
<1>2. /\ X \subseteq InState("resting") /\ DOMAIN orders' = DOMAIN orders
      /\ \A i \in DOMAIN orders : orders'[i].side = orders[i].side
      /\ \A i \in DOMAIN orders : orders'[i].reduceOnly = orders[i].reduceOnly
      /\ InState("filled")' = InState("filled") \cup X
      /\ InState("resting")' = InState("resting") \ X
      /\ InState("cancelled")' = InState("cancelled")
      /\ OnTheWay' \cup evicted' = OnTheWay \cup evicted \cup X
      /\ Signed' = Signed
  BY DEF FillsNow, SameBook
<1>3. Closes' = Closes
  BY <1>2 DEF Closes
<1>4. EntryKnown' /\ Pending'
  BY <1>1, <1>2, <1>3 DEF RoundInv, EntryKnown, Pending
<1>5. EntryTrue'
  BY <1>1, <1>2 DEF RoundInv, EntryTrue
<1>6. EntriesTracked'
  BY <1>1, <1>2, <1>3 DEF RoundInv, EntriesTracked
<1>7. /\ (forgotten \subseteq InState("filled") \ Closes)'
      /\ (Closes \subseteq InState("filled") \cup InState("resting"))'
  BY <1>1, <1>2, <1>3 DEF RoundInv
<1>8. X \subseteq Closes \cup {entry.order}
  BY <1>1, <1>2 DEF RoundInv, EntriesTracked
<1>9. BooksOpen'
  <2> DEFINE e == entry.order
             A == InState("filled") \cup Closes
  <2>1. CASE e \in X
    <3>1. e \in DOMAIN orders /\ e \notin InState("filled") /\ e # 0
      BY <1>1, <1>2, <2>1, FilledExist, ReversionFacts
    <3>2. e \notin Closes /\ e \notin forgotten
      BY <1>1, <3>1 DEF RoundInv, EntryKnown, NoEntry
    <3>3. /\ (InState("filled") \cup Closes)' = A \cup {e} /\ e \notin A
          /\ Held' = Held \cup {e} /\ e \notin Held
      BY <1>1, <1>2, <1>3, <1>8, <2>1, <3>1, <3>2 DEF Held
    <3>4. e \in 1 .. Len(Signed) /\ Signed \in Seq(Int)
      BY <3>1, ReversionFacts
    <3> HIDE DEF e, A
    <3>5. SumOf(Signed, A \cup {e}) = SumOf(Signed, A) + Signed[e]
      BY <3>3, <3>4, SumAddOne
    <3>6. SumOf(Signed, Held \cup {e}) = SumOf(Signed, Held) + Signed[e]
      BY <3>3, <3>4, SumAddOne
    <3>7. SumOf(Signed, A) = SumOf(Signed, Held)
      BY <1>1 DEF BooksOpen, A
    <3> QED BY <1>2, <3>3, <3>5, <3>6, <3>7 DEF BooksOpen
  <2>2. CASE e \notin X
    <3>1. (InState("filled") \cup Closes)' = A /\ Held' = Held
      BY <1>1, <1>2, <1>3, <1>8, <2>2 DEF Held
    <3> QED BY <1>1, <1>2, <3>1 DEF BooksOpen
  <2> QED BY <2>1, <2>2
<1> QED BY <1>4, <1>5, <1>6, <1>7, <1>9 DEF RoundInv

LEMMA ReversionFeed ==
  ASSUME ReversionInv, FeedStep, UNCHANGED reversionVars
  PROVE  ReversionInv'
<1>1. ExecInv
  BY DEF ReversionInv
<1>2. ExecInv' /\ \E X : FillsNow(X)
  BY <1>1, FeedInv
<1>3. PICK X : FillsNow(X)
  BY <1>2
<1>4. RoundInv' /\ BooksOpen'
  BY <1>2, <1>3, ReversionFeedTracks
<1>5. UNCHANGED <<entry, work, forgotten>> /\ Len(orders') = Len(orders)
  BY <1>3 DEF reversionVars, FillsNow, SameBook
<1>6. ReversionTypeOK'
  BY <1>2, <1>5 DEF ReversionInv, ReversionTypeOK, ExecInv
<1>7. RoomToRest'
  BY <1>5, ReversionFacts DEF RoomToRest
<1> QED BY <1>2, <1>4, <1>6, <1>7 DEF ReversionInv

\* A step that leaves the orders alone, and at most takes an event.
LEMMA ReversionStays ==
  ASSUME ReversionInv, UNCHANGED <<marketVars, evicted, orders>>, NEW news,
         \/ UNCHANGED queue /\ news = {}
         \/ queue # <<>> /\ queue' = Tail(queue) /\ news = NewsOf(Head(queue))
  PROVE  /\ ExecInv' /\ news \subseteq OnTheWay /\ OnTheWay' = OnTheWay \ news
         /\ \A s : InState(s)' = InState(s)
         /\ Signed' = Signed /\ Closes' = Closes /\ Len(orders') = Len(orders)
<1>1. ExecInv /\ ExecutionTypeOK /\ Keeps
  BY ReversionFacts, SameKeeps
<1>2. ExecInv' /\ news \subseteq OnTheWay /\ OnTheWay' = OnTheWay \ news
  BY <1>1, PluginInv
<1>3. Closes' = Closes /\ Len(orders') = Len(orders)
  BY DEF Closes
<1> QED BY <1>1, <1>2, <1>3, SameOrders

\* Nothing but the thread's own place has changed.
LEMMA ReversionWaits ==
  ASSUME ReversionInv, UNCHANGED <<marketVars, evicted, orders, entry, forgotten>>,
         \/ UNCHANGED queue
         \/ queue # <<>> /\ queue' = Tail(queue) /\ Head(queue).tag = "market_data",
         work' \in ReversionWork, RoomToRest', Pending',
         work'.pc = "stopped" => work.pc = "stopped",
         work.pc = "stopped" => work'.pc = "stopped"
  PROVE  ReversionInv'
<1>1. /\ ExecInv' /\ OnTheWay' = OnTheWay
      /\ \A s : InState(s)' = InState(s)
      /\ Signed' = Signed /\ Closes' = Closes
  <2>1. CASE UNCHANGED queue
    <3>1. OnTheWay \ {} = OnTheWay
      OBVIOUS
    <3> QED BY <2>1, <3>1, ReversionStays
  <2>2. CASE queue # <<>> /\ queue' = Tail(queue) /\ Head(queue).tag = "market_data"
    <3>1. NewsOf(Head(queue)) = {} /\ OnTheWay \ {} = OnTheWay
      BY <2>2 DEF NewsOf
    <3> QED BY <2>2, <3>1, ReversionStays
  <2> QED BY <2>1, <2>2
<1>2. /\ RoundInv /\ BooksOpen /\ entry' = entry /\ forgotten' = forgotten /\ evicted' = evicted
      /\ DOMAIN orders' = DOMAIN orders
  BY ReversionFacts
<1>3. EntryKnown'
  BY <1>1, <1>2 DEF RoundInv, EntryKnown
<1>4. EntryTrue' /\ EntriesTracked'
  BY <1>1, <1>2 DEF RoundInv, EntryTrue, EntriesTracked
<1>5. /\ (forgotten \subseteq InState("filled") \ Closes)'
      /\ (Closes \subseteq InState("filled") \cup InState("resting"))'
  BY <1>1, <1>2 DEF RoundInv
<1>6. BooksOpen'
  BY <1>1, <1>2 DEF BooksOpen, Held
<1>7. ReversionTypeOK'
  <2>1. (ExecInv /\ entry \in Entries /\ work \in ReversionWork /\ forgotten \subseteq 1 .. MaxOrders)'
    BY <1>1, <1>2, ReversionFacts
  <2>2. (ExecInv /\ entry \in Entries /\ work \in ReversionWork /\ forgotten \subseteq 1 .. MaxOrders
           => ReversionTypeOK)'
    BY ReversionTypes, PTL
  <2> QED BY <2>1, <2>2
<1> QED BY <1>1, <1>3, <1>4, <1>5, <1>6, <1>7 DEF ReversionInv, RoundInv

\* A tick opens a position, or has a filled one closed.
LEMMA ReversionTicks ==
  ASSUME ReversionInv, NEW m \in Mids,
         Enter(m, "buy") \/ Enter(m, "sell") \/ FlattenFilled(m)
  PROVE  ReversionInv'
<1>1. /\ work.pc = "waiting" /\ queue # <<>> /\ queue' = Tail(queue)
      /\ UNCHANGED <<marketVars, orders, evicted, entry, forgotten>>
      /\ Head(queue).tag = "market_data"
  BY EventFacts DEF Enter, FlattenFilled, TakeTick, Dequeue
<1>2. ASSUME NEW order \in NewOrders, work' = [pc |-> "submit", order |-> order],
             \/ ~order.reduceOnly /\ entry = NoEntry
             \/ /\ order.reduceOnly /\ entry # NoEntry /\ entry.filled
                /\ order.side = Opposite(orders[entry.order].side)
      PROVE  ReversionInv'
  <2>1. work' \in ReversionWork /\ work'.pc = "submit" /\ work'.order = order
    <3> HIDE DEF NewOrders
    <3> QED BY <1>2 DEF ReversionWork
  <2>2. Pending' /\ RoomToRest'
    BY <1>1, <1>2, <2>1 DEF Pending, RoomToRest
  <2> QED BY <1>1, <2>1, <2>2, ReversionWaits
<1>3. ASSUME NEW side \in {"buy", "sell"}, Enter(m, side) PROVE ReversionInv'
  <2> DEFINE order == New(side, m, FALSE)
  <2>1. order \in NewOrders /\ ~order.reduceOnly
    BY NewOrderFacts
  <2>2. work' = [pc |-> "submit", order |-> order] /\ entry = NoEntry
    BY <1>3 DEF Enter, Submitting
  <2> HIDE DEF order, NewOrders
  <2> QED BY <1>2, <2>1, <2>2
<1>4. CASE FlattenFilled(m)
  <2> DEFINE side == Opposite(orders[entry.order].side)
             order == New(side, m, TRUE)
  <2>1. order \in NewOrders /\ order.reduceOnly /\ order.side = side
    <3>1. side \in {"buy", "sell"}
      BY DEF Opposite
    <3> HIDE DEF side
    <3> QED BY <3>1, NewOrderFacts
  <2>2. work' = [pc |-> "submit", order |-> order] /\ entry # NoEntry /\ entry.filled
    BY <1>4 DEF FlattenFilled, Submitting
  <2> HIDE DEF order, NewOrders
  <2> QED BY <1>2, <2>1, <2>2
<1> QED BY <1>3, <1>4

\* A late fill of the entry is forgotten with it, and anything else is pulled.
LEMMA ReversionPulls ==
  ASSUME ReversionInv, NEW m \in Mids, FlattenUnfilled(m)
  PROVE  ReversionInv'
<1> DEFINE e == entry.order
<1>1. /\ work.pc = "waiting" /\ queue # <<>> /\ queue' = Tail(queue)
      /\ Head(queue).tag = "market_data" /\ entry # NoEntry /\ ~entry.filled
      /\ CancelOrder(e) /\ forgotten' = forgotten \cup ({e} \cap InState("filled"))
      /\ entry' = NoEntry /\ UNCHANGED <<marketVars, evicted, work>>
  BY EventFacts DEF FlattenUnfilled, TakeTick, Dequeue
<1>2. /\ ExecInv /\ ExecutionTypeOK /\ RoundInv /\ BooksOpen
      /\ e \in DOMAIN orders /\ e \notin Closes /\ e \notin forgotten /\ 0 \notin DOMAIN orders
  BY <1>1, ReversionFacts DEF RoundInv, EntryKnown
<1>3. ExecInv' /\ OnTheWay' = OnTheWay
  <2>1. Keeps /\ NewsOf(Head(queue)) = {}
    BY <1>1, <1>2, CancelKeeps DEF NewsOf
  <2>2. ExecInv' /\ OnTheWay' = OnTheWay \ {}
    BY <1>1, <1>2, <2>1, PluginInv
  <2> QED BY <2>2
<1>4. /\ InState("filled")' = InState("filled")
      /\ InState("resting")' = InState("resting") \ {e}
      /\ DOMAIN orders' = DOMAIN orders /\ Signed' = Signed /\ Len(orders') = Len(orders)
      /\ \A j \in DOMAIN orders : orders'[j].reduceOnly = orders[j].reduceOnly
  BY <1>1, <1>2, CancelEffect DEF SameBook
<1>5. Closes' = Closes
  BY <1>4 DEF Closes
<1>6. entry' = NoEntry /\ entry'.order = 0 /\ entry' \in Entries
  BY <1>1, EntryRecords
<1>7. EntryKnown' /\ EntryTrue' /\ Pending' /\ RoomToRest'
  BY <1>1, <1>6 DEF EntryKnown, EntryTrue, Pending, RoomToRest
<1>8. EntriesTracked'
  BY <1>2, <1>4, <1>5 DEF RoundInv, EntriesTracked
<1>9. /\ (forgotten \subseteq InState("filled") \ Closes)'
      /\ (Closes \subseteq InState("filled") \cup InState("resting"))'
  BY <1>1, <1>2, <1>4, <1>5 DEF RoundInv
<1>10. BooksOpen'
  <2>1. Held' = Held
    BY <1>1, <1>2, <1>4, <1>6, FilledExist DEF Held
  <2> QED BY <1>2, <1>4, <1>5, <2>1 DEF BooksOpen
<1>11. ReversionTypeOK'
  <2>1. forgotten' \subseteq 1 .. MaxOrders
    BY <1>1, <1>2, ReversionFacts
  <2>2. (ExecInv /\ entry \in Entries /\ work \in ReversionWork /\ forgotten \subseteq 1 .. MaxOrders)'
    BY <1>1, <1>3, <1>6, <2>1, ReversionFacts
  <2>3. (ExecInv /\ entry \in Entries /\ work \in ReversionWork /\ forgotten \subseteq 1 .. MaxOrders
           => ReversionTypeOK)'
    BY ReversionTypes, PTL
  <2> QED BY <2>2, <2>3
<1> QED BY <1>3, <1>7, <1>8, <1>9, <1>10, <1>11 DEF ReversionInv, RoundInv

LEMMA SumPlaced ==
  ASSUME ExecutionTypeOK, NEW new \in Order, Signed' = Append(Signed, Amount(new)),
         NEW S, Fresh \notin S
  PROVE  /\ SumOf(Signed', S) = SumOf(Signed, S)
         /\ SumOf(Signed', S \cup {Fresh}) = SumOf(Signed, S) + Amount(new)
<1> DEFINE f == Signed
           x == Amount(new)
<1>1. f \in Seq(Int) /\ x \in Int /\ Len(f) + 1 \notin S /\ Signed' = Append(f, x) /\ Fresh = Len(f) + 1
  BY SignedType, AmountType DEF Fresh
<1> HIDE DEF f, x, Fresh
<1>2. /\ SumOf(Append(f, x), S) = SumOf(f, S)
      /\ SumOf(Append(f, x), S \cup {Len(f) + 1}) = SumOf(f, S) + x
  BY <1>1, SumOfAppend
<1>3. SumOf(Signed', S) = SumOf(f, S) /\ SumOf(Signed', S \cup {Fresh}) = SumOf(f, S) + x
  BY <1>1, <1>2
<1> QED BY <1>3 DEF f, x

\* A filled entry that is about to be closed.
LEMMA ClosingEntry ==
  ASSUME ReversionInv, work.pc \in {"submit", "rest"}, work.order.reduceOnly
  PROVE  /\ entry # NoEntry /\ entry.filled /\ entry.order \in InState("filled") \ (Closes \cup forgotten)
         /\ entry.order \in DOMAIN orders /\ entry.order \notin InState("resting")
         /\ work.order.side = Opposite(orders[entry.order].side)
<1>1. /\ entry # NoEntry /\ entry.filled /\ work.order.side = Opposite(orders[entry.order].side)
  BY ReversionFacts DEF RoundInv, Pending
<1>2. entry.order \in InState("filled")
  BY <1>1, ReversionFacts DEF RoundInv, EntryTrue
<1>3. entry.order \in DOMAIN orders \ (Closes \cup forgotten)
  BY <1>1, ReversionFacts DEF RoundInv, EntryKnown
<1> QED BY <1>1, <1>2, <1>3 DEF InState

\* An order placed opens a position or closes the one there is.
LEMMA ReversionPlaces ==
  ASSUME ReversionInv, work.pc \in {"submit", "rest"}, Len(orders) < MaxOrders,
         NEW new \in Order, orders' = Append(orders, new),
         new.side = work.order.side, new.reduceOnly = work.order.reduceOnly,
         (new.state = "filled" /\ new.paid = mid) \/ new.state = "resting",
         \/ work.order.reduceOnly /\ entry' = NoEntry
         \/ /\ ~work.order.reduceOnly /\ new.state = "filled"
            /\ entry' = [order |-> Len(orders'), filled |-> TRUE]
         \/ /\ ~work.order.reduceOnly /\ new.state = "resting"
            /\ entry' = [order |-> Len(orders'), filled |-> FALSE],
         work' = ReversionWaiting, UNCHANGED <<marketVars, queue, evicted, forgotten>>
  PROVE  ReversionInv'
<1>1. /\ ExecInv /\ ExecutionTypeOK /\ RoundInv /\ BooksOpen /\ entry \in Entries
      /\ DOMAIN orders \subseteq 1 .. MaxOrders /\ 0 \notin DOMAIN orders /\ forgotten \subseteq 1 .. MaxOrders
      /\ forgotten' = forgotten /\ evicted' = evicted
      /\ InState("filled") \cap InState("resting") = {}
  BY ReversionFacts DEF InState
<1>2. ExecInv' /\ Placed(new)
  BY <1>1, PlacedInv
<1>3. /\ Len(orders') = Fresh /\ DOMAIN orders' = DOMAIN orders \cup {Fresh} /\ Fresh \notin DOMAIN orders
      /\ orders'[Fresh] = new /\ \A i \in DOMAIN orders : orders'[i] = orders[i]
      /\ \A s : InState(s)' = InState(s) \cup (IF new.state = s THEN {Fresh} ELSE {})
      /\ Signed' = Append(Signed, Amount(new)) /\ OnTheWay' = OnTheWay
  BY <1>2 DEF Placed
<1>4. Fresh \in 1 .. MaxOrders /\ Fresh \in 0 .. MaxOrders /\ Fresh # 0
  BY <1>1, OrderFacts, ExecutionAssumption DEF Fresh
<1>5. Closes' = Closes \cup (IF new.reduceOnly THEN {Fresh} ELSE {})
  <2> HIDE DEF Fresh
  <2> QED BY <1>3 DEF Closes
<1>6. work' \in ReversionWork /\ work'.pc = "waiting"
  <2>1. New("buy", NoMid, FALSE) \in NewOrders
    BY NewOrderFacts
  <2> HIDE DEF NewOrders
  <2> QED BY <2>1 DEF ReversionWork, ReversionWaiting
<1>7. /\ Fresh \notin Held /\ Fresh \notin InState("filled") \cup Closes
      /\ Fresh \notin forgotten /\ Fresh \notin InState("resting")
  BY <1>1, <1>3, FilledExist DEF Held, Closes, RoundInv
<1>8. /\ entry' \in Entries
      /\ entry' = NoEntry \/ (entry'.order = Fresh /\ entry' # NoEntry)
      /\ entry' # NoEntry => (entry'.filled <=> new.state = "filled")
      /\ entry' = NoEntry <=> work.order.reduceOnly
  <2> DEFINE n == Len(orders')
  <2>1. n \in 0 .. MaxOrders /\ n = Fresh /\ n # 0
    BY <1>3, <1>4
  <2> HIDE DEF n, Fresh
  <2>2. CASE work.order.reduceOnly /\ entry' = NoEntry
    BY <2>2, EntryRecords
  <2>3. CASE /\ ~work.order.reduceOnly /\ new.state = "filled"
             /\ entry' = [order |-> n, filled |-> TRUE]
    <3>1. entry' \in Entries /\ entry'.order = n /\ entry'.filled
      BY <2>1, <2>3, EntryRecords
    <3> QED BY <2>1, <2>3, <3>1, EntryRecords
  <2>4. CASE /\ ~work.order.reduceOnly /\ new.state = "resting"
             /\ entry' = [order |-> n, filled |-> FALSE]
    <3>1. entry' \in Entries /\ entry'.order = n /\ ~entry'.filled
      BY <2>1, <2>4, EntryRecords
    <3> QED BY <2>1, <2>4, <3>1, EntryRecords
  <2> QED BY <2>2, <2>3, <2>4 DEF n
<1> DEFINE A == InState("filled") \cup Closes
<1>9. /\ SumOf(Signed', A) = SumOf(Signed, A) /\ SumOf(Signed', A \cup {Fresh}) = SumOf(Signed, A) + Amount(new)
      /\ SumOf(Signed', forgotten) = SumOf(Signed, forgotten)
      /\ SumOf(Signed', forgotten \cup {Fresh}) = SumOf(Signed, forgotten) + Amount(new)
  <2>1. SumOf(Signed', A) = SumOf(Signed, A) /\ SumOf(Signed', A \cup {Fresh}) = SumOf(Signed, A) + Amount(new)
    <3>1. Fresh \notin A
      BY <1>7
    <3> HIDE DEF A
    <3> QED BY <1>1, <1>3, <3>1, SumPlaced
  <2>2. /\ SumOf(Signed', forgotten) = SumOf(Signed, forgotten)
        /\ SumOf(Signed', forgotten \cup {Fresh}) = SumOf(Signed, forgotten) + Amount(new)
    BY <1>1, <1>3, <1>7, SumPlaced
  <2> QED BY <2>1, <2>2
<1> HIDE DEF Fresh
<1>10. BooksOpen'
  <2>1. (InState("filled") \cup Closes)' =
          A \cup (IF new.state = "filled" \/ new.reduceOnly THEN {Fresh} ELSE {})
    BY <1>3, <1>5
  <2>2. CASE ~work.order.reduceOnly
    <3>1. entry = NoEntry
      BY <2>2, <1>1 DEF RoundInv, Pending
    <3>2. Held = forgotten
      BY <1>1, <3>1, EntryRecords, FilledExist DEF Held
    <3>3. Held' = forgotten \cup (IF new.state = "filled" THEN {Fresh} ELSE {})
      BY <1>1, <1>3, <1>7, <1>8, <2>2, FilledExist DEF Held
    <3>4. SumOf(Signed, A) = SumOf(Signed, forgotten)
      BY <1>1, <3>2 DEF BooksOpen
    <3> HIDE DEF A
    <3>5. CASE new.state = "filled"
      BY <1>9, <2>1, <3>3, <3>4, <3>5 DEF BooksOpen
    <3>6. CASE new.state # "filled"
      BY <1>9, <2>1, <2>2, <3>3, <3>4, <3>6 DEF BooksOpen
    <3> QED BY <3>5, <3>6
  <2>3. CASE work.order.reduceOnly
    <3> DEFINE e == entry.order
    <3>1. /\ e \in InState("filled") \ (Closes \cup forgotten) /\ e \in DOMAIN orders
          /\ new.side = Opposite(orders[e].side)
      BY <2>3, ClosingEntry
    <3>2. Held = forgotten \cup {e} /\ e \notin forgotten
      BY <3>1 DEF Held
    <3>3. Held' = forgotten
      BY <1>1, <1>3, <1>4, <1>8, <2>3, EntryRecords, FilledExist DEF Held
    <3>4. Amount(new) = -Signed[e] /\ Signed[e] \in Int
      <4>1. Signed[e] = Amount(orders[e]) /\ Signed[e] \in Int /\ orders[e].side \in {"buy", "sell"}
        BY <1>1, <3>1, SignedType, OrderFacts DEF Order
      <4> HIDE DEF e
      <4> QED BY <3>1, <4>1, ExecutionAssumption DEF Amount, Opposite
    <3>5. SumOf(Signed, Held) = SumOf(Signed, forgotten) + Signed[e]
      <4>1. e \in 1 .. Len(Signed) /\ Signed \in Seq(Int)
        BY <3>1, ReversionFacts
      <4> HIDE DEF e
      <4> QED BY <3>2, <4>1, SumAddOne
    <3>6. SumOf(Signed, A) = SumOf(Signed, Held)
      BY <1>1 DEF BooksOpen
    <3>7. SumOf(Signed, forgotten) \in Int
      BY ReversionFacts, SumType
    <3> DEFINE z == Signed[e]
               q == SumOf(Signed, forgotten)
    <3>8. SumOf(Signed', A \cup {Fresh}) = (q + z) + -z /\ z \in Int /\ q \in Int
      BY <1>9, <3>4, <3>5, <3>6, <3>7
    <3>9. SumOf(Signed', A \cup {Fresh}) = q
      <4> HIDE DEF z, q, A
      <4> QED BY <3>8
    <3> HIDE DEF A, e
    <3> QED BY <1>9, <2>1, <2>3, <3>3, <3>9 DEF BooksOpen
  <2> QED BY <2>2, <2>3
<1>11. EntryKnown'
  BY <1>1, <1>3, <1>4, <1>5, <1>7, <1>8, EntryRecords DEF EntryKnown
<1>12. EntryTrue' /\ Pending' /\ RoomToRest'
  BY <1>3, <1>6, <1>8 DEF EntryTrue, Pending, RoomToRest
<1>13. EntriesTracked'
  <2>1. ASSUME NEW i \in InState("resting")', i \notin Closes' PROVE entry'.order = i
    <3>1. CASE i = Fresh
      BY <1>5, <1>8, <2>1, <3>1
    <3>2. CASE i # Fresh
      <4>1. i \in InState("resting") /\ i \notin Closes
        BY <1>3, <1>5, <2>1, <3>2
      <4>2. entry # NoEntry /\ ~entry.filled
        BY <4>1, RestingEntry
      <4> QED BY <1>1, <4>2 DEF RoundInv, Pending
    <3> QED BY <3>1, <3>2
  <2> QED BY <1>6, <2>1 DEF EntriesTracked
<1>14. /\ (forgotten \subseteq InState("filled") \ Closes)'
       /\ (Closes \subseteq InState("filled") \cup InState("resting"))'
  BY <1>1, <1>3, <1>5, <1>7 DEF RoundInv
<1>15. ReversionTypeOK'
  <2>1. (ExecInv /\ entry \in Entries /\ work \in ReversionWork /\ forgotten \subseteq 1 .. MaxOrders)'
    BY <1>1, <1>2, <1>6, <1>8
  <2>2. (ExecInv /\ entry \in Entries /\ work \in ReversionWork /\ forgotten \subseteq 1 .. MaxOrders
           => ReversionTypeOK)'
    BY ReversionTypes, PTL
  <2> QED BY <2>1, <2>2
<1> QED BY <1>2, <1>10, <1>11, <1>12, <1>13, <1>14, <1>15 DEF ReversionInv, RoundInv

LEMMA ReversionSubmits ==
  ASSUME ReversionInv, FilledAtOnce \/ ReversionRest
  PROVE  ReversionInv'
<1> DEFINE order == work.order
           filled == FilledAt(order, mid, FALSE)
<1>1. order \in Order /\ order.state = "resting"
  BY ReversionFacts, NewOrderFacts
<1>2. CASE FilledAtOnce
  <2>1. /\ work.pc = "submit" /\ Len(orders) < MaxOrders /\ orders' = Append(orders, filled)
        /\ work' = ReversionWaiting /\ UNCHANGED <<marketVars, queue, evicted, forgotten>>
        /\ entry' = IF order.reduceOnly THEN NoEntry ELSE [order |-> Len(orders'), filled |-> TRUE]
    BY <1>2 DEF FilledAtOnce, MayPlace, PlaceFilled, Remember
  <2>2. /\ filled \in Order /\ filled.side = order.side /\ filled.state = "filled"
        /\ filled.reduceOnly = order.reduceOnly /\ filled.paid = mid
    <3>1. mid \in Int
      BY ReversionFacts, FeedFacts
    <3> HIDE DEF order, Order
    <3> QED BY <1>1, <3>1, FilledOrder
  <2> HIDE DEF filled
  <2> QED BY <2>1, <2>2, ReversionPlaces
<1>3. CASE ReversionRest
  <2>1. /\ work.pc = "rest" /\ orders' = Append(orders, order)
        /\ work' = ReversionWaiting /\ UNCHANGED <<marketVars, queue, evicted, forgotten>>
        /\ entry' = IF order.reduceOnly THEN NoEntry ELSE [order |-> Len(orders'), filled |-> FALSE]
    BY <1>3 DEF ReversionRest, PlaceResting, Remember
  <2>2. Len(orders) < MaxOrders
    BY <2>1, ReversionFacts DEF RoomToRest
  <2> QED BY <1>1, <2>1, <2>2, ReversionPlaces
<1> QED BY <1>2, <1>3

LEMMA ReversionNotYet ==
  ASSUME ReversionInv, DoesNotCross
  PROVE  ReversionInv'
<1>1. /\ work.pc = "submit" /\ MayPlace /\ work' = [work EXCEPT !.pc = "rest"]
      /\ UNCHANGED <<executionVars, entry, forgotten>>
  BY DEF DoesNotCross
<1>2. work' \in ReversionWork /\ work'.pc = "rest" /\ work'.order = work.order
  <2>1. work \in ReversionWork
    BY ReversionFacts
  <2> HIDE DEF NewOrders
  <2> QED BY <1>1, <2>1 DEF ReversionWork
<1>3. UNCHANGED <<marketVars, queue, evicted, orders, entry, forgotten>>
  BY <1>1 DEF executionVars, marketVars
<1>4. RoomToRest' /\ Pending'
  BY <1>1, <1>2, <1>3, ReversionFacts DEF RoomToRest, Pending, MayPlace, RoundInv
<1> QED BY <1>1, <1>2, <1>3, <1>4, ReversionWaits

\* A refused entry leaves nothing, a refused close an entry to be forgotten.
LEMMA ReversionRefused ==
  ASSUME ReversionInv, Refused
  PROVE  ReversionInv'
<1>1. /\ work.pc = "submit" /\ entry' = NoEntry /\ work' = ReversionWaiting
      /\ forgotten' = IF work.order.reduceOnly THEN forgotten \cup {entry.order} ELSE forgotten
      /\ UNCHANGED <<marketVars, queue, evicted, orders>>
  BY DEF Refused, executionVars, marketVars
<1>2. /\ ExecInv' /\ OnTheWay' = OnTheWay
      /\ \A s : InState(s)' = InState(s)
      /\ Signed' = Signed /\ Closes' = Closes /\ Len(orders') = Len(orders)
  <2>1. OnTheWay \ {} = OnTheWay
    OBVIOUS
  <2> QED BY <1>1, <2>1, ReversionStays
<1>3. RoundInv /\ BooksOpen /\ forgotten \subseteq 1 .. MaxOrders /\ DOMAIN orders \subseteq 1 .. MaxOrders
      /\ 0 \notin DOMAIN orders
  BY ReversionFacts
<1>4. work' \in ReversionWork /\ work'.pc = "waiting"
  <2>1. New("buy", NoMid, FALSE) \in NewOrders
    BY NewOrderFacts
  <2> HIDE DEF NewOrders
  <2> QED BY <1>1, <2>1 DEF ReversionWork, ReversionWaiting
<1>5. entry'.order = 0 /\ entry' \in Entries
  BY <1>1, EntryRecords
<1>6. EntryKnown' /\ EntryTrue' /\ Pending' /\ RoomToRest'
  BY <1>1, <1>4, <1>5 DEF EntryKnown, EntryTrue, Pending, RoomToRest
<1>7. InState("resting") \subseteq Closes
  <2>1. ASSUME NEW i \in InState("resting"), i \notin Closes PROVE FALSE
    <3>1. entry # NoEntry /\ ~entry.filled
      BY <2>1, RestingEntry
    <3> QED BY <1>1, <1>3, <3>1 DEF RoundInv, Pending
  <2> QED BY <2>1
<1>8. EntriesTracked'
  BY <1>2, <1>7 DEF EntriesTracked
<1>9. /\ Held' = Held /\ forgotten' \subseteq InState("filled") \ Closes
      /\ forgotten' \subseteq 1 .. MaxOrders
  <2>1. CASE work.order.reduceOnly
    <3>1. entry.order \in InState("filled") \ (Closes \cup forgotten) /\ entry.order \in DOMAIN orders
      BY <1>1, <2>1, ClosingEntry
    <3> QED BY <1>1, <1>2, <1>3, <1>5, <2>1, <3>1, FilledExist DEF Held, RoundInv
  <2>2. CASE ~work.order.reduceOnly
    <3>1. entry = NoEntry
      BY <1>1, <1>3, <2>2 DEF RoundInv, Pending
    <3> QED BY <1>1, <1>2, <1>3, <2>2, <3>1 DEF Held, RoundInv
  <2> QED BY <2>1, <2>2
<1>10. /\ (forgotten \subseteq InState("filled") \ Closes)'
       /\ (Closes \subseteq InState("filled") \cup InState("resting"))'
  BY <1>2, <1>3, <1>9 DEF RoundInv
<1>11. BooksOpen'
  BY <1>2, <1>3, <1>9 DEF BooksOpen
<1>12. ReversionTypeOK'
  <2>1. (ExecInv /\ entry \in Entries /\ work \in ReversionWork /\ forgotten \subseteq 1 .. MaxOrders)'
    BY <1>2, <1>4, <1>5, <1>9
  <2>2. (ExecInv /\ entry \in Entries /\ work \in ReversionWork /\ forgotten \subseteq 1 .. MaxOrders
           => ReversionTypeOK)'
    BY ReversionTypes, PTL
  <2> QED BY <2>1, <2>2
<1> QED BY <1>2, <1>6, <1>8, <1>10, <1>11, <1>12 DEF ReversionInv, RoundInv

\* News of the entry's fill makes it a filled one, and no other news does.
LEMMA ReversionHears ==
  ASSUME ReversionInv, ReversionOnOrderUpdate
  PROVE  ReversionInv'
<1> DEFINE i == Head(queue).value
<1>1. /\ work.pc = "waiting" /\ queue # <<>> /\ queue' = Tail(queue)
      /\ Head(queue).tag = "order_update"
      /\ entry' = IF Head(queue) = Fill(entry.order) THEN [entry EXCEPT !.filled = TRUE] ELSE entry
      /\ UNCHANGED <<marketVars, orders, evicted, work, forgotten>>
  BY DEF ReversionOnOrderUpdate, Dequeue
<1>2. /\ ExecInv' /\ i \in OnTheWay /\ OnTheWay' = OnTheWay \ {i}
      /\ \A s : InState(s)' = InState(s)
      /\ Signed' = Signed /\ Closes' = Closes /\ Len(orders') = Len(orders)
  <2>1. NewsOf(Head(queue)) = {i}
    BY <1>1 DEF NewsOf
  <2>2. /\ ExecInv' /\ {i} \subseteq OnTheWay /\ OnTheWay' = OnTheWay \ {i}
        /\ \A s : InState(s)' = InState(s)
        /\ Signed' = Signed /\ Closes' = Closes /\ Len(orders') = Len(orders)
    BY <1>1, <2>1, ReversionStays
  <2> QED BY <2>2
<1>3. /\ RoundInv /\ BooksOpen /\ entry \in Entries /\ 0 \notin DOMAIN orders
      /\ i \in InState("filled") /\ i \in DOMAIN orders
  BY <1>2, ReversionFacts, FilledExist DEF ExecInv, NewsInv, Announced
<1>4. Head(queue) = Fill(i)
  <2>1. Head(queue) \in Events
    <3>1. queue \in Seq(Events)
      BY ReversionFacts, FeedFacts
    <3> HIDE DEF Events
    <3> QED BY <1>1, <3>1
  <2> QED BY <1>1, <2>1, EventFacts
<1>5. Head(queue) = Fill(entry.order) <=> i = entry.order
  BY <1>4, EventFacts
<1> HIDE DEF i
<1>6. /\ entry' \in Entries /\ entry'.order = entry.order
      /\ i = entry.order => entry # NoEntry /\ entry' # NoEntry /\ entry'.filled
      /\ i # entry.order => entry' = entry
      /\ entry' = NoEntry <=> entry = NoEntry
  <2>1. CASE i = entry.order
    <3>1. entry' = [entry EXCEPT !.filled = TRUE]
      BY <1>1, <1>5, <2>1
    <3>2. entry' \in Entries /\ entry'.order = entry.order /\ entry'.filled
      BY <1>3, <3>1 DEF Entries
    <3>3. entry.order # 0
      BY <1>3, <2>1
    <3> QED BY <2>1, <3>2, <3>3, EntryRecords
  <2>2. CASE i # entry.order
    BY <1>1, <1>3, <1>5, <2>2
  <2> QED BY <2>1, <2>2
<1>7. EntryKnown'
  BY <1>1, <1>2, <1>3, <1>6 DEF RoundInv, EntryKnown
<1>8. Pending' /\ RoomToRest'
  BY <1>1 DEF Pending, RoomToRest
<1>9. EntryTrue'
  <2>1. CASE i = entry.order
    BY <1>2, <1>3, <1>6, <2>1 DEF EntryTrue
  <2>2. CASE i # entry.order
    <3>1. /\ InState("filled")' = InState("filled") /\ InState("resting")' = InState("resting")
          /\ entry' = entry /\ evicted' = evicted /\ work' = work /\ work.pc = "waiting"
      BY <1>1, <1>2, <1>6, <2>2
    <3>2. entry.order \in OnTheWay => entry.order \in OnTheWay'
      BY <1>2, <2>2
    <3>3. EntryTrue
      BY <1>3 DEF RoundInv
    <3> QED BY <3>1, <3>2, <3>3 DEF EntryTrue
  <2> QED BY <2>1, <2>2
<1>10. EntriesTracked'
  BY <1>1, <1>2, <1>3, <1>6 DEF RoundInv, EntriesTracked
<1>11. /\ (forgotten \subseteq InState("filled") \ Closes)'
       /\ (Closes \subseteq InState("filled") \cup InState("resting"))'
  BY <1>1, <1>2, <1>3 DEF RoundInv
<1>12. BooksOpen'
  BY <1>1, <1>2, <1>3, <1>6 DEF BooksOpen, Held
<1>13. ReversionTypeOK'
  <2>1. (ExecInv /\ entry \in Entries /\ work \in ReversionWork /\ forgotten \subseteq 1 .. MaxOrders)'
    BY <1>1, <1>2, <1>6, ReversionFacts
  <2>2. (ExecInv /\ entry \in Entries /\ work \in ReversionWork /\ forgotten \subseteq 1 .. MaxOrders
           => ReversionTypeOK)'
    BY ReversionTypes, PTL
  <2> QED BY <2>1, <2>2
<1> QED BY <1>2, <1>7, <1>8, <1>9, <1>10, <1>11, <1>12, <1>13 DEF ReversionInv, RoundInv

LEMMA ReversionStops ==
  ASSUME ReversionInv, ReversionOnStop
  PROVE  ReversionInv'
<1> DEFINE e == entry.order
<1>1. /\ work.pc = "waiting" /\ work' = [work EXCEPT !.pc = "stopped"]
      /\ UNCHANGED <<marketVars, queue, evicted, entry, forgotten>>
      /\ IF entry # NoEntry /\ ~entry.filled THEN CancelOrder(e) ELSE UNCHANGED orders
  BY DEF ReversionOnStop
<1>2. RoundInv /\ BooksOpen /\ ExecInv /\ ExecutionTypeOK /\ 0 \notin DOMAIN orders
  BY ReversionFacts
<1>3. work' \in ReversionWork /\ work'.pc = "stopped"
  <2>1. work \in ReversionWork
    BY ReversionFacts
  <2> HIDE DEF NewOrders
  <2> QED BY <1>1, <2>1 DEF ReversionWork
<1>4. /\ Keeps /\ DOMAIN orders' = DOMAIN orders /\ Signed' = Signed
      /\ InState("filled")' = InState("filled")
      /\ InState("resting")' = InState("resting") \ {e}
      /\ InState("cancelled") \cup ({e} \cap InState("resting")) \subseteq InState("cancelled")'
      /\ \A j \in DOMAIN orders : orders'[j].reduceOnly = orders[j].reduceOnly
  <2>1. CASE entry # NoEntry /\ ~entry.filled
    <3>1. CancelOrder(e) /\ e \in DOMAIN orders
      BY <1>1, <1>2, <2>1 DEF RoundInv, EntryKnown
    <3> QED BY <1>2, <3>1, CancelEffect, CancelKeeps DEF SameBook
  <2>2. CASE ~(entry # NoEntry /\ ~entry.filled)
    <3>1. e \notin InState("resting")
      BY <1>1, <1>2, <2>2, FilledExist, EntryRecords DEF RoundInv, EntryTrue, InState
    <3>2. UNCHANGED orders
      BY <1>1, <2>2
    <3> QED BY <1>2, <3>1, <3>2, SameKeeps, SameOrders
  <2> QED BY <2>1, <2>2
<1>5. ExecInv' /\ OnTheWay' = OnTheWay
  <2>1. ExecInv' /\ OnTheWay' = OnTheWay \ {}
    BY <1>1, <1>2, <1>4, PluginInv
  <2> QED BY <2>1
<1>6. Closes' = Closes
  BY <1>4 DEF Closes
<1>7. EntryKnown' /\ Pending' /\ RoomToRest'
  BY <1>1, <1>2, <1>3, <1>4, <1>6 DEF RoundInv, EntryKnown, Pending, RoomToRest
<1>8. EntryTrue'
  BY <1>1, <1>2, <1>3, <1>4, <1>5 DEF RoundInv, EntryTrue
<1>9. EntriesTracked'
  BY <1>1, <1>2, <1>4, <1>6 DEF RoundInv, EntriesTracked
<1>10. /\ (forgotten \subseteq InState("filled") \ Closes)'
       /\ (Closes \subseteq InState("filled") \cup InState("resting"))'
  <2>1. e \notin Closes
    BY <1>2, FilledExist DEF RoundInv, EntryKnown, NoEntry, Closes
  <2> QED BY <1>1, <1>2, <1>4, <1>6, <2>1 DEF RoundInv
<1>11. BooksOpen'
  BY <1>1, <1>2, <1>4, <1>6 DEF BooksOpen, Held
<1>12. ReversionTypeOK'
  <2>1. (ExecInv /\ entry \in Entries /\ work \in ReversionWork /\ forgotten \subseteq 1 .. MaxOrders)'
    BY <1>1, <1>3, <1>5, ReversionFacts
  <2>2. (ExecInv /\ entry \in Entries /\ work \in ReversionWork /\ forgotten \subseteq 1 .. MaxOrders
           => ReversionTypeOK)'
    BY ReversionTypes, PTL
  <2> QED BY <2>1, <2>2
<1> QED BY <1>5, <1>7, <1>8, <1>9, <1>10, <1>11, <1>12 DEF ReversionInv, RoundInv

LEMMA ReversionBegins == ReversionInit => ReversionInv
<1> SUFFICES ASSUME ReversionInit PROVE ReversionInv
  OBVIOUS
<1>1. /\ ExecutionInit /\ entry = NoEntry /\ work = ReversionWaiting /\ forgotten = {}
  BY DEF ReversionInit
<1>2. /\ ExecInv /\ orders = <<>> /\ (\A s : InState(s) = {}) /\ (\A S : SumOf(Signed, S) = 0)
  BY <1>1, EmptyBooks
<1>3. work \in ReversionWork /\ work.pc = "waiting"
  <2>1. New("buy", NoMid, FALSE) \in NewOrders
    BY NewOrderFacts
  <2> HIDE DEF NewOrders
  <2> QED BY <1>1, <2>1 DEF ReversionWork, ReversionWaiting
<1>4. entry \in Entries /\ entry.order = 0
  BY <1>1, EntryRecords
<1>5. Closes = {}
  BY <1>2 DEF Closes
<1>6. RoundInv
  BY <1>1, <1>2, <1>3, <1>4, <1>5 DEF RoundInv, EntryKnown, Pending, EntryTrue, EntriesTracked
<1>7. BooksOpen
  BY <1>2 DEF BooksOpen
<1>8. ReversionTypeOK
  BY <1>1, <1>2, <1>3, <1>4, ReversionTypes
<1> QED BY <1>2, <1>3, <1>6, <1>7, <1>8 DEF ReversionInv, RoomToRest

LEMMA ReversionKeeps == ReversionInv /\ [ReversionNext]_<<executionVars, reversionVars>> => ReversionInv'
<1> SUFFICES ASSUME ReversionInv, [ReversionNext]_<<executionVars, reversionVars>> PROVE ReversionInv'
  OBVIOUS
<1>1. CASE FeedStep /\ UNCHANGED reversionVars
  BY <1>1, ReversionFeed
<1>2. ASSUME NEW m \in Mids, FlattenUnfilled(m) \/ FlattenFilled(m) \/ Enter(m, "buy") \/ Enter(m, "sell")
      PROVE  ReversionInv'
  BY <1>2, ReversionPulls, ReversionTicks
<1>3. CASE NothingToDo
  <2>1. /\ work.pc = "waiting" /\ queue # <<>> /\ queue' = Tail(queue)
        /\ Head(queue).tag = "market_data"
        /\ UNCHANGED <<marketVars, orders, evicted, entry, work, forgotten>>
    BY <1>3 DEF NothingToDo, Dequeue, reversionVars
  <2>2. RoomToRest' /\ Pending' /\ work' \in ReversionWork
    BY <2>1, ReversionFacts DEF RoomToRest, Pending
  <2> QED BY <2>1, <2>2, ReversionWaits
<1>4. CASE Refused
  BY <1>4, ReversionRefused
<1>5. CASE FilledAtOnce \/ ReversionRest
  BY <1>5, ReversionSubmits
<1>6. CASE DoesNotCross
  BY <1>6, ReversionNotYet
<1>7. CASE ReversionOnOrderUpdate
  BY <1>7, ReversionHears
<1>8. CASE ReversionOnStop
  BY <1>8, ReversionStops
<1>9. CASE UNCHANGED <<executionVars, reversionVars>>
  <2>1. UNCHANGED <<marketVars, queue, evicted, orders, entry, work, forgotten>>
    BY <1>9 DEF executionVars, reversionVars, marketVars
  <2>2. RoomToRest' /\ Pending' /\ work' \in ReversionWork
    BY <2>1, ReversionFacts DEF RoomToRest, Pending, RoundInv
  <2> QED BY <2>1, <2>2, ReversionWaits
<1> QED BY <1>1, <1>2, <1>3, <1>4, <1>5, <1>6, <1>7, <1>8, <1>9 DEF ReversionNext

\* Mean reversion's invariant: the entry is an order that closes nothing, what is
\* about to be placed opens a position when there is none or closes the filled one,
\* and the books are those of the entry and of what was forgotten
\* (mean_reversion.py:43-83).
THEOREM ReversionInvariance == ReversionSpec => []ReversionInv
BY ReversionBegins, ReversionKeeps, PTL DEF ReversionSpec

\* Mean reversion's state has its type.
THEOREM ReversionIsTyped == ReversionSpec => []ReversionTypeOK
<1>1. ReversionInv => ReversionTypeOK
  BY DEF ReversionInv
<1> QED BY <1>1, ReversionInvariance, PTL

\* What the strategy takes for filled is filled, and what it takes for resting rests
\* unless the news of its fill is on its way or lost (mean_reversion.py:59-61, 70-79).
THEOREM EntryIsTrue == ReversionSpec => []EntryTrue
<1>1. ReversionInv => EntryTrue
  BY DEF ReversionInv, RoundInv
<1> QED BY <1>1, ReversionInvariance, PTL

\* No entry works that the strategy does not know of, and none when on_stop has run
\* (mean_reversion.py:63-75, 81-83).
THEOREM EntriesAreTracked == ReversionSpec => []EntriesTracked
<1>1. ReversionInv => EntriesTracked
  BY DEF ReversionInv, RoundInv
<1> QED BY <1>1, ReversionInvariance, PTL

\* What is held is the entry, what was cancelled too late or could not be closed, and
\* closes not filled yet; nothing is closed twice (mean_reversion.py:63-75).
THEOREM PositionIsExplained == ReversionSpec => []PositionExplained
<1>1. ReversionInv => PositionExplained
  BY BooksArePosition
<1> QED BY <1>1, ReversionInvariance, PTL

\* positions_and_pnl agrees with what was earned, in mean reversion
\* (observability.py:17-39).
THEOREM ReversionPnlIsExact == ReversionSpec => []PnlExact
<1>1. ReversionInv => PnlExact
  BY DEF ReversionInv, ExecInv, PnlInv, PnlExact
<1> QED BY <1>1, ReversionInvariance, PTL
=============================================================================
